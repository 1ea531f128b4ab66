--------------------------- MODULE Conversations ---------------------------
(***************************************************************************)
(* One conversation, direct or group, with its read model: the group       *)
(* document, the Conversation document, one ConversationParticipant row    *)
(* per user, and the messages.  Requests run concurrently and yield at     *)
(* every Mongo operation they await.                                       *)
(*                                                                         *)
(* A request is a record in task; its pc names the next Mongo operation.   *)
(* Times are drawn from one counter, so two of them are never equal; 0 is  *)
(* null.  Conversation documents are numbered: a deleted one that a late   *)
(* message recreates has a new number.                                     *)
(***************************************************************************)
EXTENDS Integers, FiniteSets, FiniteSetsExt, Functions

CONSTANTS Users,        \* the users
          Nobody,       \* no user: the sender of a system message
          Pair,         \* the two users of a direct conversation
          MinMembers,   \* the smallest group createGroup accepts
          Tasks,        \* slots for concurrent requests
          Kinds,        \* the kinds of conversation explored
          Requests,     \* the requests explored: <<operation, user, target>>
          Founder,      \* the creator of the group
          Invited,      \* the members it starts with
          MaxRequests,  \* bound: requests, a change of the group counting for two
          MaxConvs      \* bound: Conversation documents created

VARIABLES kind,      \* "direct" or "group"
          group,     \* the Group document
          conv,      \* the Conversation document
          row,       \* row[k][u]: u's participant row under Conversation k
          msgs,      \* the Message documents
          task,      \* the requests in flight
          clock,     \* the last time drawn
          requests,  \* how many requests started
          created,   \* how many Conversation documents were created
          cleared,   \* history: when u last finished deleting the history
          muddled,   \* history: users whose row a stale or broken sync wrote
          blurred,   \* history: users whose unread count missed a message
          strayed    \* history: users who left while a request still knew them,
                     \* or came before a message they joined with was written
vars == <<kind, group, conv, row, msgs, task, clock, requests, created,
          cleared, muddled, blurred, strayed>>

Convs == 1..MaxConvs
Roles == {"none", "member", "admin"}
NoRow == [live |-> FALSE, role |-> "none", joined |-> 0, left |-> 0,
          deleted |-> 0, last |-> 0, unread |-> 0]
NoGroup == [state |-> "none", members |-> [u \in Users |-> 0],
            admin |-> Nobody, ver |-> 0]
NoConv == [id |-> 0, last |-> 0]
Idle == [op |-> "none", who |-> Nobody, target |-> Nobody, pc |-> "idle",
         doc |-> NoGroup, msg |-> 0, shape |-> {}, boss |-> Nobody, k |-> 0,
         todo |-> {}, cur |-> Nobody, found |-> NoRow, now |-> 0,
         crossed |-> FALSE, since |-> 0]

Members == IF kind = "direct" THEN Pair
           ELSE {u \in Users : group.members[u] > 0}
MemberSet(doc) == {u \in Users : doc.members[u] > 0}
\* The length of the members array, duplicates included.
Length(doc) == MapThenSumSet(LAMBDA u : doc.members[u], Users)
\* Rows are found by conversation and user, or by user in any of them.
Listed(u) == {k \in Convs : row[k][u].live}
Active == {u \in Users : \E k \in Listed(u) : row[k][u].left = 0}
\* Participants are written one after the other, in an order left open.
FirstOf(todo) == CHOOSE u \in todo : TRUE
\* The messages u has not read and has not cleared away.
Owed(u, deleted) == {m \in msgs : /\ u \in m.aud /\ u \notin m.seen
                                  /\ m.by # u /\ m.at > deleted}

RoleIn(boss, u) == IF u = boss THEN "admin" ELSE "member"
\* A group that Past's user was removed from; everyone else has read all.
Past(at, aud, seen) == [at |-> at, by |-> Nobody, aud |-> aud, may |-> aud, seen |-> seen]
Settled(boss, gone) ==
  LET all == Invited \cup {boss, gone}  rest == all \ {gone}
      here == [NoRow EXCEPT !.live = TRUE, !.joined = 1, !.last = 4] IN
  /\ group = [state |-> "live", admin |-> boss, ver |-> 1,
              members |-> [u \in Users |-> IF u \in rest THEN 1 ELSE 0]]
  /\ conv = [id |-> 1, last |-> 4] /\ created = 1 /\ clock = 4
  /\ msgs = {Past(2, all, rest)} \cup {Past(4, rest, rest)}
  /\ row = [k \in Convs |-> [u \in Users |->
       CASE k = 1 /\ u \in rest -> [here EXCEPT !.role = RoleIn(boss, u)]
         [] k = 1 /\ u = gone -> [here EXCEPT !.left = 3, !.last = 2, !.unread = 1]
         [] OTHER -> NoRow]]
Fresh0 == /\ group = NoGroup /\ conv = NoConv /\ created = 0 /\ clock = 0
          /\ msgs = {} /\ row = [k \in Convs |-> [u \in Users |-> NoRow]]
Init ==
  /\ \/ kind = "direct" /\ Fresh0 /\ requests = 0
     \/ kind = "group" /\ Fresh0 /\ requests = 0
     \/ kind = "group" /\ requests = 0 /\ \E u \in Users \ Invited : Settled(Founder, u)
  /\ kind \in Kinds
  /\ task = [t \in Tasks |-> Idle]
  /\ cleared = [u \in Users |-> 0] /\ muddled = {} /\ blurred = {} /\ strayed = {}

At(t, pc) == task[t].pc = pc
Move(t, r) == task' = [task EXCEPT ![t] = r]
Goto(t, pc) == Move(t, [task[t] EXCEPT !.pc = pc])
Stop(t) == Move(t, Idle)
\* On to the next part of a request; what the last part read is dropped.
Enter(t, pc) ==
  IF pc = "done" THEN Stop(t) ELSE Move(t, [Idle EXCEPT !.op = task[t].op, !.who = task[t].who, !.target = task[t].target,
                       !.doc = task[t].doc, !.since = task[t].since, !.pc = pc])
\* Where a request goes on when its message is written to the read model,
\* and when the group is synchronised.  The errors of both are caught.
AfterMessage(op) == CASE op = "remove" -> "save" [] op = "delete" -> "drop"
                      [] OTHER -> "done"
AfterSync(op) == IF op = "remove" THEN "done" ELSE "say"
Models == <<group, conv, row>>
Ghosts == <<cleared, muddled, blurred, strayed>>
Counters == <<clock, requests, created>>

(* Requests.  A page offers what its user's list shows: the sender and the *)
(* actors are members, except that a page may be out of date about others. *)
FirstStep(op) ==
  CASE op \in {"add", "remove", "transfer", "delete"} -> "read"
    [] op \in {"leave", "clear", "prefer"} -> "allow"
    [] op = "create" -> "insert" [] op = "send" -> "say"
    [] op = "see" -> "mark" [] op = "page" -> "member"
GroupOps == {"create", "add", "remove", "leave", "transfer", "delete"}
Cost(op) == IF op \in GroupOps THEN 2 ELSE 1
Request(t, op, u, v) ==
  /\ <<op, u, v>> \in Requests
  /\ At(t, "idle") /\ requests + Cost(op) <= MaxRequests
  /\ kind = "direct" => u \in Pair /\ op \notin GroupOps
  /\ kind = "group" => (op = "create" <=> group.state = "none" /\ requests = 0)
  /\ op \notin {"create", "page", "clear"} => u \in Members
  /\ requests' = requests + Cost(op)
  /\ Move(t, [Idle EXCEPT !.op = op, !.who = u, !.target = v,
                          !.pc = FirstStep(op), !.since = cleared[u]])
  /\ UNCHANGED <<kind, msgs, clock, created, Models, Ghosts>>

(* createGroup: at least MinMembers members, the creator is the admin.     *)
Insert(t) ==
  LET ms == Invited \cup {task[t].who} IN
  /\ At(t, "insert") /\ Cardinality(ms) >= MinMembers
  /\ group' = [state |-> "live", admin |-> task[t].who, ver |-> 0,
               members |-> [u \in Users |-> IF u \in ms THEN 1 ELSE 0]]
  /\ Goto(t, "syncRead")
  /\ UNCHANGED <<kind, conv, row, msgs, Counters, Ghosts>>

(* The controllers read the group and refuse what its copy does not allow. *)
Allowed(r, g) ==
  /\ g.state = "live"
  /\ r.op = "add" => g.members[r.who] > 0 /\ g.members[r.target] = 0
  /\ r.op = "remove" => /\ g.admin = r.who \/ r.target = r.who
                        /\ g.members[r.target] > 0
  /\ r.op = "transfer" => g.admin = r.who /\ g.members[r.target] > 0
  /\ r.op = "delete" => g.admin = r.who
  /\ r.op = "leave" => ~(g.admin = r.who /\ Length(g) > 1)
ReadGroup(t) ==
  /\ At(t, "read")
  /\ IF Allowed(task[t], group)
     THEN Move(t, [task[t] EXCEPT !.doc = group,
            !.pc = IF task[t].op \in {"remove", "delete"} THEN "say" ELSE "save"])
     ELSE Stop(t)
  /\ UNCHANGED <<kind, msgs, Models, Counters, Ghosts>>

(* document.save(): push and the admin are written as they are; a replaced *)
(* members array is written only over the version that was read.           *)
Replaces(r) == r.op \in {"remove", "leave"}
\* Mutant: the array is replaced whatever happened since it was read.
SaveFitsAlways(r) == group.state = "live"
SaveFits(r) == /\ group.state = "live"
               /\ Replaces(r) => group.ver = r.doc.ver
Gone(r) == IF r.op = "leave" THEN r.who ELSE r.target
\* A request holds a copy of the group with u, whose row it may still write.
Pending(t, u) == /\ task[t].pc \in {"shape", "upsert", "find", "put"}
                 /\ task[t].cur = u \/ u \in task[t].todo \/ task[t].pc \in {"shape", "upsert"}
Holds(t, u) == \/ Pending(t, u)
               \/ task[t].pc \in {"syncConv", "syncPut"} /\ u \in task[t].shape
               \/ task[t].pc \in {"syncFind", "syncRow"} /\ u \in task[t].todo
SaveGroup(t) ==
  LET r == task[t] IN
  /\ At(t, "save")
  /\ IF ~SaveFits(r) THEN UNCHANGED <<group, strayed>> /\ Stop(t)
     ELSE /\ Goto(t, "syncRead")
          /\ strayed' = IF Replaces(r) /\ \E s \in Tasks : Holds(s, Gone(r))
                        THEN strayed \cup {Gone(r)} ELSE strayed
          /\ group' =
               CASE r.op = "transfer" -> [group EXCEPT !.admin = r.target]
                 [] r.op = "add" -> [group EXCEPT !.members[r.target] = @ + 1,
                                                  !.ver = @ + 1]
                 [] OTHER -> [group EXCEPT !.members = [r.doc.members EXCEPT ![Gone(r)] = 0],
                                           !.ver = @ + 1]
  /\ UNCHANGED <<kind, conv, row, msgs, Counters, cleared, muddled, blurred>>

(* syncGroupLifecycle: the rows follow a copy of the group, read first.    *)
SyncRead(t) ==
  /\ At(t, "syncRead")
  /\ IF group.state # "live" THEN Enter(t, AfterSync(task[t].op))
     ELSE Move(t, [task[t] EXCEPT !.pc = "syncConv", !.boss = group.admin,
                                  !.shape = MemberSet(group)])
  /\ UNCHANGED <<kind, msgs, Models, Counters, Ghosts>>
SyncConv(t) ==
  /\ At(t, "syncConv")
  /\ Move(t, [task[t] EXCEPT !.pc = "syncPut", !.k = conv.id])
  /\ UNCHANGED <<kind, msgs, Models, Counters, Ghosts>>
\* The Conversation is created, or its user list updated; a concurrent
\* creation makes the unique index refuse this one, and the sync ends.
SyncPut(t) ==
  LET r == task[t] IN
  /\ At(t, "syncPut")
  /\ IF r.k = 0 /\ conv.id # 0
     THEN /\ Enter(t, AfterSync(r.op)) /\ muddled' = Users
          /\ UNCHANGED <<conv, created, clock>>
     ELSE /\ IF r.k # 0 THEN UNCHANGED <<conv, created>>
             ELSE /\ created < MaxConvs /\ created' = created + 1
                  /\ conv' = [id |-> created + 1, last |-> 0]
          /\ clock' = clock + 1
          /\ Move(t, [r EXCEPT !.k = IF @ = 0 THEN created + 1 ELSE @,
                               !.now = clock + 1, !.todo = r.shape,
                               !.pc = IF r.shape = {} THEN "syncLeave" ELSE "syncFind"])
          /\ UNCHANGED muddled
  /\ UNCHANGED <<kind, group, row, msgs, requests, cleared, blurred, strayed>>
SyncFind(t) ==
  /\ At(t, "syncFind")
  /\ LET u == FirstOf(task[t].todo) IN
       Move(t, [task[t] EXCEPT !.pc = "syncRow", !.cur = u,
                               !.found = row[task[t].k][u]])
  /\ UNCHANGED <<kind, msgs, Models, Counters, Ghosts>>
\* Whether the row about to be written is what the group says by now.
Fresh(r, u) == u \in Members /\ r.boss = group.admin
\* The row as a sync writes it: found is what it read, now its own time.
Synced(old, found, role, now) ==
  IF ~found.live
  THEN [NoRow EXCEPT !.live = TRUE, !.role = role, !.joined = now]
  ELSE [old EXCEPT !.role = role, !.left = 0,
                   !.joined = IF found.left # 0 THEN now ELSE @]
SyncRow(t) ==
  LET r == task[t]  u == r.cur  old == row[r.k][u]  rest == r.todo \ {u} IN
  /\ At(t, "syncRow")
  /\ IF ~r.found.live /\ old.live
     THEN /\ Enter(t, AfterSync(r.op)) /\ muddled' = Users /\ UNCHANGED row
     ELSE /\ row' = IF r.found.live /\ ~old.live THEN row
                    ELSE [row EXCEPT ![r.k][u] =
                            Synced(old, r.found, RoleIn(r.boss, u), r.now)]
          /\ muddled' = IF Fresh(r, u) THEN muddled \ {u} ELSE muddled \cup {u}
          /\ Move(t, [r EXCEPT !.todo = rest, !.cur = Nobody, !.found = NoRow,
                               !.pc = IF rest = {} THEN "syncLeave" ELSE "syncFind"])
  /\ UNCHANGED <<kind, group, conv, msgs, Counters, cleared, blurred, strayed>>
\* Mutant: only the user who asks is marked.
LeavesOnly(r, u) == /\ u = r.who /\ u \notin r.shape
                    /\ row[r.k][u].live /\ row[r.k][u].left = 0
\* Rows of users outside the copy are marked as left, once.
Leaves(r, u) == u \notin r.shape /\ row[r.k][u].live /\ row[r.k][u].left = 0
SyncLeave(t) ==
  LET r == task[t]  out == Users \ r.shape IN
  /\ At(t, "syncLeave")
  /\ row' = [row EXCEPT ![r.k] = [u \in Users |->
               IF Leaves(r, u) THEN [@[u] EXCEPT !.left = r.now, !.role = "none"]
               ELSE @[u]]]
  /\ muddled' = (muddled \ (out \ Members)) \cup (out \cap Members)
  /\ Enter(t, AfterSync(r.op))
  /\ UNCHANGED <<kind, group, conv, msgs, Counters, cleared, blurred, strayed>>

(* Messages: saved, then written to the read model.                        *)
Save(t) ==
  LET r == task[t]
      by == IF r.op = "send" THEN r.who ELSE Nobody
      seen == IF r.op = "create" THEN {r.who} ELSE {} IN
  /\ At(t, "say")
  /\ clock' = clock + 1
  /\ msgs' = msgs \cup {[at |-> clock + 1, by |-> by, aud |-> Members,
                         may |-> Members \cup Active, seen |-> seen]}
  /\ Move(t, [r EXCEPT !.pc = "shape", !.msg = clock + 1])
  /\ UNCHANGED <<kind, requests, created, Models, Ghosts>>
\* getConversationShape: a group's participants are read again here.
Shape(t) ==
  LET r == task[t]
      shape == IF kind = "group" THEN MemberSet(group) ELSE Pair
      aud == UNION {m.aud : m \in {n \in msgs : n.at = r.msg}} IN
  /\ At(t, "shape")
  /\ blurred' = blurred \cup (aud \ shape) \cup (shape \ aud)
  /\ strayed' = strayed \cup (shape \ aud)
  /\ msgs' = {IF m.at = r.msg THEN [m EXCEPT !.may = @ \cup shape] ELSE m : m \in msgs}
  /\ IF kind = "group" /\ group.state # "live" THEN Enter(t, AfterMessage(r.op))
     ELSE Move(t, [r EXCEPT !.pc = "upsert", !.shape = shape,
                            !.boss = IF kind = "group" THEN group.admin ELSE Nobody])
  /\ UNCHANGED <<kind, Models, Counters, cleared, muddled>>
Upsert(t) ==
  LET r == task[t]  k == IF conv.id = 0 THEN created + 1 ELSE conv.id IN
  /\ At(t, "upsert") /\ k <= MaxConvs
  /\ conv' = [id |-> k, last |-> r.msg]
  /\ created' = IF conv.id = 0 THEN k ELSE created
  /\ IF r.shape = {} THEN Enter(t, AfterMessage(r.op))
     ELSE Move(t, [r EXCEPT !.k = k, !.todo = r.shape, !.pc = "find"])
  /\ UNCHANGED <<kind, group, row, msgs, clock, requests, Ghosts>>

\* ensureParticipant: read the row, then create or update it.
Visible(p, at) == ~(p.left # 0 /\ p.left < at) /\ ~(p.deleted # 0 /\ p.deleted >= at)
\* Mutant: the sender's own message counts as unread.
HasReadNever(r, u) == r.op = "create" /\ u = r.who
HasRead(r, u) == r.op \in {"send", "create"} /\ u = r.who
Onward(t, rest) ==
  IF rest = {} THEN Enter(t, AfterMessage(task[t].op))
  ELSE Move(t, [task[t] EXCEPT !.todo = rest, !.cur = Nobody, !.found = NoRow,
                               !.crossed = FALSE, !.pc = "find"])
Find(t) ==
  LET r == task[t] IN
  /\ At(t, "find")
  /\ LET u == FirstOf(r.todo)  p == row[r.k][u] IN
       IF p.live /\ (~Visible(p, r.msg) \/ p.last = r.msg)
       THEN /\ Onward(t, r.todo \ {u})
            /\ blurred' = IF p.left # 0 /\ p.left < r.msg THEN blurred \cup {u}
                          ELSE blurred
       ELSE /\ Move(t, [r EXCEPT !.pc = "put", !.cur = u, !.found = p])
            /\ UNCHANGED blurred
  /\ UNCHANGED <<kind, msgs, Models, Counters, cleared, muddled, strayed>>
Put(t) ==
  LET r == task[t]  u == r.cur  old == row[r.k][u]
      one == IF HasRead(r, u) THEN 0 ELSE 1 IN
  /\ At(t, "put")
  /\ IF ~r.found.live /\ old.live
     THEN \* the unique index refuses the row, and the rest is not written
          /\ Enter(t, AfterMessage(r.op)) /\ UNCHANGED <<row, muddled>>
          /\ blurred' = blurred \cup r.todo
     ELSE /\ row' = IF r.found.live /\ ~old.live THEN row
                    ELSE [row EXCEPT ![r.k][u] =
                      IF r.found.live
                      THEN [old EXCEPT !.last = r.msg, !.unread = @ + one]
                      ELSE [NoRow EXCEPT !.live = TRUE, !.role = RoleIn(r.boss, u),
                              !.joined = r.msg, !.last = r.msg, !.unread = one]]
          /\ muddled' = IF ~r.found.live /\ ~Fresh(r, u) THEN muddled \cup {u}
                        ELSE muddled
          /\ blurred' = IF r.crossed THEN blurred \cup {u} ELSE blurred
          /\ Onward(t, r.todo \ {u})
  /\ UNCHANGED <<kind, group, conv, msgs, Counters, cleared, strayed>>
(* deleteGroup, after its message: the group, the read model, the messages. *)
DropGroup(t) ==
  /\ At(t, "drop")
  /\ group' = [group EXCEPT !.state = "deleted", !.members = [u \in Users |-> 0]]
  /\ Goto(t, "dropConv")
  /\ UNCHANGED <<kind, conv, row, msgs, Counters, Ghosts>>
DropConv(t) ==
  /\ At(t, "dropConv")
  /\ Move(t, [task[t] EXCEPT !.k = conv.id,
                             !.pc = IF conv.id = 0 THEN "purge" ELSE "dropRows"])
  /\ UNCHANGED <<kind, msgs, Models, Counters, Ghosts>>
DropRows(t) ==
  /\ At(t, "dropRows")
  /\ row' = [row EXCEPT ![task[t].k] = [u \in Users |-> NoRow]]
  /\ Goto(t, "dropDoc")
  /\ UNCHANGED <<kind, group, conv, msgs, Counters, Ghosts>>
DropDoc(t) ==
  /\ At(t, "dropDoc")
  /\ conv' = IF conv.id = task[t].k THEN NoConv ELSE conv
  /\ Goto(t, "purge")
  /\ UNCHANGED <<kind, group, row, msgs, Counters, Ghosts>>
Purge(t) ==
  /\ At(t, "purge") /\ msgs' = {} /\ Stop(t)
  /\ UNCHANGED <<kind, Models, Counters, Ghosts>>

(* Reading: the messages are marked, then the row's count is set to zero.  *)
\* Every message of the conversation counts as read, but for the requests
\* that will still count it.
MarkRead(t) ==
  LET u == task[t].who IN
  /\ At(t, "mark")
  /\ msgs' = {[m EXCEPT !.seen = @ \cup {u}] : m \in msgs}
  /\ Goto(t, "zero")
  /\ blurred' = IF \E s \in Tasks : Pending(s, u) THEN blurred \cup {u} ELSE blurred
  /\ UNCHANGED <<kind, Models, Counters, cleared, muddled, strayed>>
Zeroed(p) == [p EXCEPT !.unread = 0]
ZeroUnread(t) ==
  LET u == task[t].who IN
  /\ At(t, "zero")
  /\ \/ Listed(u) = {} /\ UNCHANGED row
     \/ \E k \in Listed(u) : row' = [row EXCEPT ![k][u] = Zeroed(@)]
  /\ blurred' = IF Owed(u, 0) # {} THEN blurred \cup {u} ELSE blurred
  /\ Stop(t)
  /\ UNCHANGED <<kind, group, conv, msgs, Counters, cleared, muddled, strayed>>

(* The panel: permissions first (the group, then the row), then the work.  *)
Allow(t) ==
  LET r == task[t]  member == r.who \in Members
      history == r.op = "clear" /\ Listed(r.who) # {} IN
  /\ At(t, "allow")
  /\ IF kind = "direct" \/ (group.state = "live" /\ (member \/ history))
     THEN Goto(t, CASE r.op = "leave" -> "read" [] r.op = "clear" -> "seek"
                    [] OTHER -> "prefConv")
     ELSE Stop(t)
  /\ UNCHANGED <<kind, msgs, Models, Counters, Ghosts>>
\* deleteHistory: 404 without a row; then the soft delete.
Seek(t) ==
  LET u == task[t].who IN
  /\ At(t, "seek")
  /\ \/ Listed(u) = {} /\ Stop(t)
     \/ \E k \in Listed(u) : Move(t, [task[t] EXCEPT !.pc = "wipe", !.k = k])
  /\ UNCHANGED <<kind, msgs, Models, Counters, Ghosts>>
SoftDeleted(p, now) == [p EXCEPT !.deleted = now, !.last = 0, !.unread = 0]
Wipe(t) ==
  LET u == task[t].who  k == task[t].k IN
  /\ At(t, "wipe")
  /\ clock' = clock + 1
  /\ row' = IF row[k][u].live
            THEN [row EXCEPT ![k][u] = SoftDeleted(@, clock + 1)] ELSE row
  /\ cleared' = IF row[k][u].live THEN [cleared EXCEPT ![u] = clock + 1] ELSE cleared
  /\ task' = [s \in Tasks |->
       IF s = t THEN Idle
       ELSE IF At(s, "put") /\ task[s].cur = u
            THEN [task[s] EXCEPT !.crossed = TRUE] ELSE task[s]]
  /\ UNCHANGED <<kind, group, conv, msgs, requests, created, muddled, blurred, strayed>>
\* updatePreferences: the Conversation of a direct chat is created when it
\* is missing, the row is upserted.
PrefConv(t) ==
  LET r == task[t] IN
  /\ At(t, "prefConv")
  /\ IF kind = "group" /\ conv.id = 0 THEN Stop(t)
     ELSE Move(t, [r EXCEPT !.k = conv.id,
                            !.pc = IF conv.id = 0 THEN "prefNew" ELSE "prefRow"])
  /\ UNCHANGED <<kind, msgs, Models, Counters, Ghosts>>
PrefNew(t) ==
  /\ At(t, "prefNew")
  /\ IF conv.id # 0 THEN Stop(t) /\ UNCHANGED <<conv, created>>
     ELSE /\ created < MaxConvs /\ created' = created + 1
          /\ conv' = [id |-> created + 1, last |-> 0]
          /\ Move(t, [task[t] EXCEPT !.k = created + 1, !.pc = "prefRow"])
  /\ UNCHANGED <<kind, group, row, msgs, clock, requests, Ghosts>>
PrefRow(t) ==
  LET r == task[t]  u == r.who
      role == IF kind = "direct" THEN "none" ELSE "member" IN
  /\ At(t, "prefRow")
  /\ IF Listed(u) # {} THEN UNCHANGED <<row, clock, muddled>>
     ELSE /\ clock' = clock + 1
          /\ row' = [row EXCEPT ![r.k][u] =
                       [NoRow EXCEPT !.live = TRUE, !.role = role, !.joined = clock + 1]]
          /\ muddled' = IF u \notin Members \/ u = group.admin THEN muddled \cup {u}
                        ELSE muddled
  /\ Stop(t)
  /\ UNCHANGED <<kind, group, conv, msgs, requests, created, cleared, blurred, strayed>>

(* A page of the history: membership, the user's row, the messages.        *)
PageMember(t) ==
  /\ At(t, "member")
  /\ IF task[t].who \in Members THEN Goto(t, "bounds") ELSE Stop(t)
  /\ UNCHANGED <<kind, msgs, Models, Counters, Ghosts>>
PageRow(t) ==
  LET u == task[t].who IN
  /\ At(t, "bounds")
  /\ \/ Listed(u) = {} /\ Goto(t, "fetch")
     \/ \E k \in Listed(u) :
          Move(t, [task[t] EXCEPT !.pc = "fetch", !.found = row[k][u], !.now = clock])
  /\ UNCHANGED <<kind, msgs, Models, Counters, Ghosts>>
\* buildMessageVisibilityFilter: the bound at joinedAt is exclusive only
\* when it is combined with a deletion; 0 stands for a bound not set.
Passes(p, at) ==
  /\ p.deleted # 0 => at > p.deleted
  /\ p.left # 0 => at <= p.left
  /\ p.role # "none" /\ p.joined # 0 =>
       IF p.deleted # 0 THEN at > p.joined ELSE at >= p.joined
Served(t) == {m \in msgs : Passes(task[t].found, m.at)}
PageFetch(t) == /\ At(t, "fetch") /\ Stop(t)
                /\ UNCHANGED <<kind, msgs, Models, Counters, Ghosts>>

Step(t) ==
  \/ Insert(t) \/ ReadGroup(t) \/ SaveGroup(t)
  \/ SyncRead(t) \/ SyncConv(t) \/ SyncPut(t) \/ SyncFind(t) \/ SyncRow(t)
  \/ SyncLeave(t) \/ Save(t) \/ Shape(t) \/ Upsert(t) \/ Find(t) \/ Put(t)
  \/ DropGroup(t) \/ DropConv(t) \/ DropRows(t) \/ DropDoc(t)
  \/ Purge(t) \/ MarkRead(t) \/ ZeroUnread(t) \/ Allow(t) \/ Seek(t) \/ Wipe(t)
  \/ PrefConv(t) \/ PrefNew(t) \/ PrefRow(t) \/ PageMember(t) \/ PageRow(t)
  \/ PageFetch(t)
Next == \/ \E t \in Tasks, r \in Requests : Request(t, r[1], r[2], r[3])
        \/ \E t \in Tasks : Step(t)
Spec == Init /\ [][Next]_vars

(***************************************************************************)
(* Properties.                                                             *)
(***************************************************************************)
Times == 0..clock
RowType == [live: BOOLEAN, role: Roles, joined: Times, left: Times,
            deleted: Times, last: Times, unread: Times]
TypeOK ==
  /\ kind \in {"direct", "group"}
  /\ group.state \in {"none", "live", "deleted"} /\ group.admin \in Users \cup {Nobody}
  /\ \A u \in Users : group.members[u] \in 0..Cardinality(Tasks)
  /\ conv.id \in 0..created /\ created <= MaxConvs /\ conv.last \in Times
  /\ \A k \in Convs, u \in Users : row[k][u] \in RowType
  /\ \A m \in msgs : m.at \in Times /\ m.aud \subseteq Users /\ m.seen \subseteq Users
  /\ \A t \in Tasks : task[t].todo \subseteq task[t].shape

\* When no change of the group is under way, a user is an active participant,
\* in the role the group gives, exactly when the user is a member; only a sync
\* or a message that wrote an outdated copy of the group, or that the unique
\* index broke off, is excused (syncGroupLifecycle, ensureParticipant).
RowsFollowGroup ==
  (/\ group.state = "live"
   /\ \A t \in Tasks : task[t].op \notin GroupOps) =>
     \A u \in Users \ muddled :
       LET p == row[conv.id][u] IN
       /\ u \in Members <=> p.live /\ p.left = 0
       /\ u \in Members => p.role = RoleIn(group.admin, u)

\* When nothing is under way, a participant's unread count is the number of
\* messages of others the user has neither read nor cleared; only what the
\* history variable blurred records is excused: a message whose write was
\* broken off or crossed a read mark, a deletion or a change of members.
UnreadExact ==
  (/\ kind = "direct" \/ (group.state = "live" /\ conv.id # 0)
   /\ \A t \in Tasks : At(t, "idle")) =>
     \A u \in Users \ blurred : \A k \in Listed(u) :
       row[k][u].unread = Cardinality(Owed(u, row[k][u].deleted))

\* A page never shows a message its reader had deleted before asking for it,
\* nor, when its row gives the reader a role, one sent to a group while the reader
\* was neither a member nor an active participant: joinedAt is renewed on return.
\* Excused is a reader of strayed: a sync or a message whose copy of the group
\* still has the reader may write an older joinedAt into the row.  While a group
\* is being deleted its rows go before its messages, and nothing is promised
\* (messageController.getMessages, buildMessageVisibilityFilter).
PagesHonest ==
  \A t \in Tasks : At(t, "fetch") /\ group.state # "deleted" => \A m \in Served(t) :
    /\ m.at > task[t].since
    /\ (/\ kind = "group" /\ task[t].found.role # "none" /\ task[t].who \notin strayed
        /\ m.at <= task[t].now) => task[t].who \in m.may

\* A user enters or leaves a group only by a request about that user, or when
\* the group is deleted: a replaced members array never undoes what another
\* request saved after it was read (groupController, the version of save()).
OnlyAsRequested ==
  \A u \in Users : (u \in Members) # (u \in Members)' =>
    \E t \in Tasks : \/ At(t, "insert") \/ At(t, "drop")
                     \/ (At(t, "save") /\ Gone(task[t]) = u)
MembershipAsAsked == [][OnlyAsRequested]_vars
=============================================================================
