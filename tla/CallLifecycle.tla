--------------------------- MODULE CallLifecycle ---------------------------
(***************************************************************************)
(* The life of the CallHistory records of one pair of users, as the socket *)
(* handlers, timers, poller and cleanup job of several backend replicas    *)
(* (server/src/socket/handlers/call) drive it.                             *)
(*                                                                         *)
(* A replica is one Node.js process: a handler runs alone between two      *)
(* awaits and interleaves with everything else at each of them.  A handler *)
(* in flight is therefore a task whose pc names the store operation it     *)
(* issues next; one step performs that operation together with the         *)
(* synchronous code around it.  MongoDB (rec, log) and Redis (due, lock,   *)
(* tempMap, sockBind, adm) are shared and durable, the Maps of state.js    *)
(* and the setTimeout timers belong to a replica and die with it.          *)
(***************************************************************************)
EXTENDS Naturals, FiniteSets

CONSTANTS
  Users, Nodes,
  Sockets,        \* every socket ever opened; a reconnect is another socket
  Attempts,       \* click-to-call attempts, one temporary client id each
  Calls,          \* CallHistory ids; bounds the number of records
  Tasks,          \* bounds the handlers in flight at once
  Owner, Home,    \* [Sockets -> Users], [Sockets -> Nodes]
  Rank,           \* [Sockets -> Nat], the string order of the socket ids
  Caller, Callee, \* [Attempts -> Users]
  Horizon,        \* bounds the age a call reaches
  MaxEvents,      \* bounds the answers, rejects and ends the clients send
  MaxCrashes,     \* bounds the replica crashes
  None

ASSUME NoneAssumption ==
  None \notin Users \cup Nodes \cup Sockets \cup Attempts \cup Calls
ASSUME PairAssumption == \E u, v \in Users : u # v /\ Users = {u, v}
ASSUME SocketAssumption ==
  /\ Owner \in [Sockets -> Users]
  /\ Home \in [Sockets -> Nodes]
  /\ Rank \in [Sockets -> Nat]
ASSUME AttemptAssumption ==
  /\ Caller \in [Attempts -> Users]
  /\ Callee \in [Attempts -> Users]
  /\ \A a \in Attempts : Caller[a] # Callee[a]
ASSUME BoundAssumption == Horizon \in 0..2 /\ MaxEvents \in Nat /\ MaxCrashes \in Nat

VARIABLES
  rec,       \* Mongo CallHistory: status, answeredAt, participants
  log,       \* Mongo Message: status shown by the call_log message, or None
  due,       \* Redis zset call:timeouts
  lock,      \* Redis call:finalize-lock:<id>
  tempMap,   \* Redis call:temp:<temp id>
  sockBind,  \* Redis call:socket:<socket id>
  adm,       \* Redis rate-limit correlation phase of an attempt
  timers,    \* setTimeout timers scheduled in the replicas
  active,    \* activeTimeouts of each replica
  bind,      \* activeSocketCalls (a socket lives in one replica)
  localTemp, \* tempIdToDbId of each replica
  live,      \* the connected sockets
  offered,   \* calls the callee has received the offer of
  accepted,  \* calls the caller has received "callAccepted" for
  known,     \* calls the caller has received "outgoingCallCreated" for
  age,       \* coarse age of a record, see Fresh, Due, Stale
  task,      \* the handlers in flight
  events, crashes,
  writer     \* history: the path that last wrote a terminal status

mongo == <<rec, log>>
redis == <<due, lock, tempMap, sockBind, adm>>
replica == <<timers, active, bind, localTemp>>
client == <<live, offered, accepted, known>>
vars == <<mongo, redis, replica, client, age, task, events, crashes, writer>>

(***************************************************************************)
(* Data.  endedAt is set by exactly the writes that set a terminal status, *)
(* so status stands for both.  answered is answeredAt: "late" when it was  *)
(* first written to a record that had already ended.                       *)
(***************************************************************************)
Terminal == {"completed", "missed", "rejected", "unreachable", "busy"}
Status == {"none", "pending"} \cup Terminal
Answered == {"no", "yes", "late"}
Record == [caller : Users \cup {None}, receiver : Users \cup {None},
           status : Status, answered : Answered]
NoRecord == [caller |-> None, receiver |-> None, status |-> "none", answered |-> "no"]

Fresh == 0  \* under 30 s: a call that glare detection sees
Due   == 1  \* 30 s to 2 min: its timeout comes due, it leaves the 60 s searches
Stale == 2  \* over 2 min: the cleanup job takes it

Phase == {"init", "callUser"}
Handle == Attempts \X Phase           \* identity of a setTimeout timer
Timer == [node : Nodes, call : Calls, handle : Handle]
Op == {"init", "callUser", "answer", "reject", "end", "disconnect", "timeout", "poll"}
Pc == {"idle", "create", "map", "bind", "resolve", "glare", "rank", "arm", "timer",
       "search", "undue", "answer", "read", "finalize", "log", "glareWrite"}
Reason == {"rejected", "cancelled", "busy"}
Path == {"none", "user", "disconnect", "timeout", "cleanup", "glare"}

ASSUME NameAssumption == None \notin Op \cup Pc \cup Reason \cup Terminal

Task == [op : Op \cup {None}, pc : Pc, node : Nodes \cup {None},
         sock : Sockets \cup {None}, att : Attempts \cup {None},
         call : Calls \cup {None}, reverse : Calls \cup {None},
         reason : Reason \cup {None}, status : Status, sawAnswer : BOOLEAN, won : BOOLEAN]
Idle == [op |-> None, pc |-> "idle", node |-> None, sock |-> None, att |-> None,
         call |-> None, reverse |-> None, reason |-> None, status |-> "none",
         sawAnswer |-> FALSE, won |-> FALSE]

TypeOK ==
  /\ rec \in [Calls -> Record]
  /\ log \in [Calls -> Terminal \cup {None}]
  /\ due \subseteq Calls /\ lock \subseteq Calls
  /\ tempMap \in [Attempts -> Calls \cup {None}]
  /\ sockBind \in [Sockets -> Calls \cup {None}]
  /\ adm \in [Attempts -> {"none", "init_pending", "call_user_consumed"}]
  /\ timers \subseteq Timer
  /\ active \in [Nodes -> [Calls -> Handle \cup {None}]]
  /\ bind \in [Sockets -> Calls \cup {None}]
  /\ localTemp \in [Nodes -> [Attempts -> Calls \cup {None}]]
  /\ live \subseteq Sockets
  /\ offered \subseteq Calls /\ accepted \subseteq Calls /\ known \subseteq Calls
  /\ age \in [Calls -> Fresh..Stale]
  /\ task \in [Tasks -> Task]
  /\ events \in 0..MaxEvents /\ crashes \in 0..MaxCrashes
  /\ writer \in [Calls -> Path]

Init ==
  /\ rec = [c \in Calls |-> NoRecord]
  /\ log = [c \in Calls |-> None]
  /\ due = {} /\ lock = {}
  /\ tempMap = [a \in Attempts |-> None]
  /\ sockBind = [s \in Sockets |-> None]
  /\ adm = [a \in Attempts |-> "none"]
  /\ timers = {}
  /\ active = [n \in Nodes |-> [c \in Calls |-> None]]
  /\ bind = [s \in Sockets |-> None]
  /\ localTemp = [n \in Nodes |-> [a \in Attempts |-> None]]
  /\ live = Sockets
  /\ offered = {} /\ accepted = {} /\ known = {}
  /\ age = [c \in Calls |-> Fresh]
  /\ task = [t \in Tasks |-> Idle]
  /\ events = 0 /\ crashes = 0
  /\ writer = [c \in Calls |-> "none"]

-----------------------------------------------------------------------------
(* Helpers *)

Pending(c) == rec[c].status = "pending"
Ended(c) == rec[c].status \in Terminal
Party(c, u) == u \in {rec[c].caller, rec[c].receiver}

At(t, pc) == task[t].pc = pc
Spawn(t, r) == task[t] = Idle /\ task' = [task EXCEPT ![t] = r]
Goto(t, pc) == task' = [task EXCEPT ![t].pc = pc]
Aim(t, c, pc) == task' = [task EXCEPT ![t] = [@ EXCEPT !.call = c, !.pc = pc]]
Done(t) == task' = [task EXCEPT ![t] = Idle]

(* A handler started by an event of socket s. *)
Handler(op, pc, s) == [Idle EXCEPT !.op = op, !.pc = pc, !.sock = s, !.node = Home[s]]

(* A client sends one more event. *)
Sent == events < MaxEvents /\ events' = events + 1

(* Mutant: the timer is cleared but its handle stays in the Map. *)
ClearTimerOnly(n, c) ==
  /\ timers' = {tm \in timers : ~(tm.node = n /\ tm.call = c /\ tm.handle = active[n][c])}
  /\ active' = active

(* clearTimeout and delete of the handle activeTimeouts holds, if any. *)
ClearTimer(n, c) ==
  /\ timers' = {tm \in timers : ~(tm.node = n /\ tm.call = c /\ tm.handle = active[n][c])}
  /\ active' = [active EXCEPT ![n][c] = None]

-----------------------------------------------------------------------------
(* initCall and callUser *)

(* The limiter admits one initCall per temporary id: a second one, or one  *)
(* that comes after callUser, is a replay and returns.  An attempt that is *)
(* limited or meets an unavailable limiter has no effect.                  *)
InitCall(s, a, t) ==
  /\ s \in live /\ Owner[s] = Caller[a] /\ adm[a] = "none"
  /\ adm' = [adm EXCEPT ![a] = "init_pending"]
  /\ Spawn(t, [Handler("init", "create", s) EXCEPT !.att = a])
  /\ UNCHANGED <<mongo, due, lock, tempMap, sockBind, replica, client, age, events, crashes, writer>>

CallUser(s, a, t) ==
  /\ s \in live /\ Owner[s] = Caller[a] /\ adm[a] # "call_user_consumed"
  /\ adm' = [adm EXCEPT ![a] = "call_user_consumed"]
  /\ Spawn(t, [Handler("callUser", "resolve", s) EXCEPT !.att = a])
  /\ UNCHANGED <<mongo, due, lock, tempMap, sockBind, replica, client, age, events, crashes, writer>>

(* resolveCallHistoryId: the Redis mapping (120 s), the local one, then a  *)
(* pending call of the pair under 60 s old, in either direction.           *)
RecentOfPair(u, v) ==
  {c \in Calls : Pending(c) /\ age[c] # Stale /\ {rec[c].caller, rec[c].receiver} = {u, v}}

Resolve(t) ==
  LET a == task[t].att
      n == task[t].node
      mapped == IF tempMap[a] # None /\ age[tempMap[a]] # Stale
                  THEN tempMap[a] ELSE localTemp[n][a]
      recent == RecentOfPair(Caller[a], Callee[a])
  IN
  /\ At(t, "resolve")
  /\ \/ mapped # None /\ Aim(t, mapped, "bind")
     \/ mapped = None /\ \E c \in recent : Aim(t, c, "bind")
     \/ mapped = None /\ (\A c \in recent : age[c] # Fresh) /\ Goto(t, "create")
  /\ UNCHANGED <<mongo, redis, replica, client, age, events, crashes, writer>>

CreateRecord(t) ==
  /\ At(t, "create")
  /\ \E c \in Calls :
       /\ rec[c].status = "none"
       /\ rec' = [rec EXCEPT ![c] = [caller |-> Caller[task[t].att],
                                     receiver |-> Callee[task[t].att],
                                     status |-> "pending", answered |-> "no"]]
       /\ Aim(t, c, "map")
  /\ UNCHANGED <<log, redis, replica, client, age, events, crashes, writer>>

(* initCall always overwrites the mapping, callUser only fills a free one. *)
MapTempId(t) ==
  LET a == task[t].att
      n == task[t].node
  IN
  /\ At(t, "map")
  /\ IF task[t].op = "init" \/ localTemp[n][a] = None
       THEN /\ localTemp' = [localTemp EXCEPT ![n][a] = task[t].call]
            /\ tempMap' = [tempMap EXCEPT ![a] = task[t].call]
       ELSE UNCHANGED <<localTemp, tempMap>>
  /\ Goto(t, "bind")
  /\ UNCHANGED <<mongo, due, lock, sockBind, adm, timers, active, bind, client, age,
                 events, crashes, writer>>

(* The socket is bound locally and in Redis even if it has disconnected    *)
(* meanwhile; callUser then emits outgoingCallCreated to the caller.       *)
BindCaller(t) ==
  LET c == task[t].call IN
  /\ At(t, "bind") /\ task[t].op \in {"init", "callUser"}
  /\ bind' = [bind EXCEPT ![task[t].sock] = c]
  /\ sockBind' = [sockBind EXCEPT ![task[t].sock] = c]
  /\ known' = IF task[t].op = "callUser" THEN known \cup {c} ELSE known
  /\ Goto(t, IF task[t].op = "init" THEN "arm" ELSE "glare")
  /\ UNCHANGED <<mongo, due, lock, tempMap, adm, timers, active, localTemp, live,
                 offered, accepted, age, events, crashes, writer>>

(* Glare detection: a fresh pending call of the callee to the caller.      *)
(* Without one the offer goes out.                                         *)
Reverse(a) ==
  {c \in Calls : /\ Pending(c) /\ age[c] = Fresh
                 /\ rec[c].caller = Callee[a] /\ rec[c].receiver = Caller[a]}

DetectGlare(t) ==
  LET a == task[t].att IN
  /\ At(t, "glare")
  /\ \/ \E r \in Reverse(a) :
          /\ task' = [task EXCEPT ![t] = [@ EXCEPT !.reverse = r, !.pc = "rank"]]
          /\ offered' = offered
     \/ /\ Reverse(a) = {}
        /\ Goto(t, "arm")
        /\ offered' = offered \cup {task[t].call}
  /\ UNCHANGED <<mongo, redis, replica, live, accepted, known, age, events, crashes, writer>>

(* The higher socket id wins, compared with the first socket of the other  *)
(* user (none connected: the caller loses).  The loser's record is the     *)
(* target: its timer in this replica is cleared.                           *)
RankGlare(t) ==
  LET s == task[t].sock
      others == {r \in live : Owner[r] = Callee[task[t].att]}
      Target(c, won) ==
        /\ ClearTimer(task[t].node, c)
        /\ task' = [task EXCEPT ![t] =
                       [@ EXCEPT !.reverse = c, !.won = won, !.pc = "undue"]]
  IN
  /\ At(t, "rank")
  /\ \/ \E r \in others : Rank[s] > Rank[r] /\ Target(task[t].reverse, TRUE)
     \/ /\ others = {} \/ \E r \in others : Rank[s] <= Rank[r]
        /\ Target(task[t].call, FALSE)
  /\ UNCHANGED <<mongo, redis, bind, localTemp, client, age, events, crashes, writer>>

(* The loser's record is marked missed by an unconditional update, without *)
(* the finalizer and without a call log.  A winner's call id is sent to    *)
(* the loser with "glare".                                                 *)
GlareWrite(t) ==
  LET r == task[t].reverse IN
  /\ At(t, "glareWrite")
  /\ rec' = [rec EXCEPT ![r].status = "missed"]
  /\ writer' = [writer EXCEPT ![r] = "glare"]
  /\ offered' = IF task[t].won THEN offered \cup {task[t].call} ELSE offered
  /\ Done(t)
  /\ UNCHANGED <<log, redis, replica, live, accepted, known, age, events, crashes>>

(* Both handlers store the distributed due time, then start a local timer. *)
(* The new handle replaces the one activeTimeouts held, which keeps running. *)
ArmDue(t) ==
  /\ At(t, "arm")
  /\ due' = due \cup {task[t].call}
  /\ Goto(t, "timer")
  /\ UNCHANGED <<mongo, lock, tempMap, sockBind, adm, replica, client, age, events, crashes, writer>>

StartTimer(t) ==
  LET n == task[t].node
      c == task[t].call
      h == <<task[t].att, task[t].op>>
  IN
  /\ At(t, "timer")
  /\ timers' = timers \cup {[node |-> n, call |-> c, handle |-> h]}
  /\ active' = [active EXCEPT ![n][c] = h]
  /\ Done(t)
  /\ UNCHANGED <<mongo, redis, bind, localTemp, client, age, events, crashes, writer>>

-----------------------------------------------------------------------------
(* answerCall *)

AnswerCall(s, c, t) ==
  /\ s \in live /\ c \in offered /\ Owner[s] = rec[c].receiver
  /\ bind' = [bind EXCEPT ![s] = c]
  /\ Spawn(t, [Handler("answer", "bind", s) EXCEPT !.call = c])
  /\ Sent
  /\ UNCHANGED <<mongo, redis, timers, active, localTemp, client, age, crashes, writer>>

(* After the Redis binding the timeout of this replica is cancelled.       *)
BindCallee(t) ==
  LET c == task[t].call IN
  /\ At(t, "bind") /\ task[t].op = "answer"
  /\ sockBind' = [sockBind EXCEPT ![task[t].sock] = c]
  /\ ClearTimer(task[t].node, c)
  /\ Goto(t, "undue")
  /\ UNCHANGED <<mongo, due, lock, tempMap, adm, bind, localTemp, client, age, events, crashes, writer>>

(* answeredAt is written whatever state the record is in; the caller is    *)
(* told the call was accepted.                                             *)
WriteAnswer(t) ==
  LET c == task[t].call IN
  /\ At(t, "answer")
  /\ rec' = [rec EXCEPT ![c].answered =
               IF @ # "no" THEN @ ELSE IF Ended(c) THEN "late" ELSE "yes"]
  /\ accepted' = accepted \cup {c}
  /\ Done(t)
  /\ UNCHANGED <<log, redis, replica, live, offered, known, age, events, crashes, writer>>

-----------------------------------------------------------------------------
(* rejectCall and endCall *)

(* The callee declines, or the caller cancels with the id it knows: the    *)
(* real one after outgoingCallCreated, before that its temporary one,      *)
(* which is looked up in (and deleted from) the local map.  A resolved     *)
(* call loses its local timer; an unresolved one is searched for.          *)
Hangup(s, op, reason, c, t) ==
  LET h == [Handler(op, "undue", s) EXCEPT !.reason = reason] IN
  /\ bind' = [bind EXCEPT ![s] = None]
  /\ IF c # None
       THEN ClearTimer(Home[s], c) /\ Spawn(t, [h EXCEPT !.call = c])
       ELSE Spawn(t, [h EXCEPT !.pc = "search"]) /\ UNCHANGED <<timers, active>>
  /\ Sent
  /\ UNCHANGED <<mongo, redis, client, age, crashes, writer>>

RejectCall(s, t) ==
  /\ s \in live
  /\ \/ \E c \in offered, reason \in Reason :
          /\ Owner[s] = rec[c].receiver
          /\ Hangup(s, "reject", reason, c, t)
          /\ UNCHANGED localTemp
     \/ \E c \in known :
          /\ Owner[s] = rec[c].caller
          /\ Hangup(s, "reject", "cancelled", c, t)
          /\ UNCHANGED localTemp
     \/ \E a \in Attempts :
          /\ Owner[s] = Caller[a] /\ adm[a] # "none"
          /\ Hangup(s, "reject", "cancelled", localTemp[Home[s]][a], t)
          /\ localTemp' = [localTemp EXCEPT ![Home[s]][a] = None]

(* A client sends endCall once the call is accepted on its side, with the  *)
(* id it keeps in localStorage or, when that is gone, without one.         *)
EndCall(s, t) ==
  /\ s \in live
  /\ \E c \in Calls :
       /\ \/ Owner[s] = rec[c].caller /\ c \in accepted
          \/ Owner[s] = rec[c].receiver /\ bind[s] = c
       /\ \E id \in {c, None} : Hangup(s, "end", None, id, t)
  /\ UNCHANGED localTemp

(* _searchPendingCall: rejectCall only looks for calls this user made,     *)
(* endCall for calls of the pair.                                          *)
SearchCall(t) ==
  LET u == Owner[task[t].sock]
      found == {c \in Calls : /\ Pending(c) /\ age[c] # Stale
                              /\ IF task[t].op = "reject" THEN rec[c].caller = u
                                                          ELSE Party(c, u)}
  IN
  /\ At(t, "search")
  /\ \/ \E c \in found :
          /\ ClearTimer(task[t].node, c)
          /\ Aim(t, c, "undue")
     \/ /\ \A c \in found : age[c] # Fresh
        /\ Done(t)
        /\ UNCHANGED <<timers, active>>
  /\ UNCHANGED <<mongo, redis, bind, localTemp, client, age, events, crashes, writer>>

(* removeCallTimeoutDue, a step of most handlers; what follows depends on  *)
(* the handler.  A timer callback also drops whatever handle activeTimeouts *)
(* has for the call by then.                                               *)
RemoveDue(t) ==
  LET op == task[t].op
      n == task[t].node
      c == IF op = "callUser" THEN task[t].reverse ELSE task[t].call
  IN
  /\ At(t, "undue")
  /\ due' = due \ {c}
  /\ CASE op = "callUser"            -> Goto(t, "glareWrite")
       [] op = "answer"              -> Goto(t, "answer")
       [] op \in {"reject", "end"}   -> Goto(t, "read")
       [] op = "disconnect"          -> Goto(t, "finalize")
       [] OTHER                      -> Done(t)
  /\ active' = IF op = "timeout" THEN [active EXCEPT ![n][c] = None] ELSE active
  /\ UNCHANGED <<mongo, lock, tempMap, sockBind, adm, timers, bind, localTemp, client,
                 age, events, crashes, writer>>

(* Mutant: a decline without a known reason leaves the status as it was. *)
StatusForKnownReason(op, reason, answered) ==
  CASE op = "reject" /\ reason = "cancelled" -> "missed"
    [] op = "reject"                          -> "pending"
    [] OTHER                                  -> IF answered THEN "completed" ELSE "rejected"

(* deriveStatus of rejectCall, and the status endCall and the disconnect   *)
(* handler choose, from the record they read.                              *)
StatusFor(op, reason, answered) ==
  CASE op = "reject" /\ reason = "busy"           -> "busy"
    [] op = "reject" /\ reason = "cancelled"      -> "missed"
    [] op = "reject" /\ reason = "rejected"       -> IF answered THEN "completed" ELSE "rejected"
    [] op = "end"                                 -> IF answered THEN "completed" ELSE "missed"
    [] OTHER                                      -> IF answered THEN "completed" ELSE "rejected"

(* The read of the record that the status is derived from.  endCall and    *)
(* the disconnect handler stop at a record that has ended, rejectCall goes *)
(* on; the disconnect handler cancels the timers only here.                *)
ReadCall(t) ==
  LET op == task[t].op
      c == task[t].call
      answered == rec[c].answered # "no"
  IN
  /\ At(t, "read")
  /\ IF Ended(c) /\ op # "reject"
       THEN Done(t) /\ UNCHANGED <<timers, active>>
       ELSE /\ task' = [task EXCEPT ![t] =
                 [@ EXCEPT !.pc = IF op = "disconnect" THEN "undue" ELSE "finalize",
                           !.status = StatusFor(op, task[t].reason, answered),
                           !.sawAnswer = answered]]
            /\ IF op = "disconnect" THEN ClearTimer(task[t].node, c)
                                    ELSE UNCHANGED <<timers, active>>
  /\ UNCHANGED <<mongo, redis, bind, localTemp, client, age, events, crashes, writer>>

-----------------------------------------------------------------------------
(* finalizeCallOnce and the call log *)

(* Mutant: the local timer does not ask for an unanswered call. *)
RequireUnansweredPollOnly(t) ==
  \/ task[t].op = "poll"
  \/ task[t].op = "disconnect" /\ ~task[t].sawAnswer

RequireUnanswered(t) ==
  \/ task[t].op \in {"timeout", "poll"}
  \/ task[t].op = "disconnect" /\ ~task[t].sawAnswer

(* Mutant: the filter without endedAt and status. *)
FinalizableAlways(t) ==
  RequireUnanswered(t) => rec[task[t].call].answered = "no"

(* The filter of the conditional update. *)
Finalizable(t) ==
  /\ Pending(task[t].call)
  /\ RequireUnanswered(t) => rec[task[t].call].answered = "no"

PathOf(op) ==
  CASE op \in {"timeout", "poll"} -> "timeout"
    [] op = "disconnect"          -> "disconnect"
    [] OTHER                      -> "user"

(* One winner of the conditional update goes on to the call log.  A loser  *)
(* re-reads the record, which has then been answered or ended, so the      *)
(* poller drops its due entry like the timer callback does.                *)
Finalize(t) ==
  LET c == task[t].call IN
  /\ At(t, "finalize")
  /\ IF Finalizable(t)
       THEN /\ rec' = [rec EXCEPT ![c].status = task[t].status]
            /\ writer' = [writer EXCEPT ![c] = PathOf(task[t].op)]
            /\ Goto(t, "log")
       ELSE /\ IF task[t].op \in {"timeout", "poll"} THEN Goto(t, "undue") ELSE Done(t)
            /\ UNCHANGED <<rec, writer>>
  /\ UNCHANGED <<log, redis, replica, client, age, events, crashes>>

(* Mutant: the disconnect handler's log is lost. *)
WriteLogUnlessDisconnect(t) ==
  /\ At(t, "log")
  /\ log' = IF task[t].op = "disconnect" THEN log
            ELSE [log EXCEPT ![task[t].call] = task[t].status]
  /\ IF task[t].op \in {"timeout", "poll"} THEN Goto(t, "undue") ELSE Done(t)
  /\ UNCHANGED <<rec, redis, replica, client, age, events, crashes, writer>>

(* createCallLogMessage: an upsert keyed by the call id, from the document *)
(* the conditional update returned.                                        *)
WriteLog(t) ==
  /\ At(t, "log")
  /\ log' = [log EXCEPT ![task[t].call] = task[t].status]
  /\ IF task[t].op \in {"timeout", "poll"} THEN Goto(t, "undue") ELSE Done(t)
  /\ UNCHANGED <<rec, redis, replica, client, age, events, crashes, writer>>

-----------------------------------------------------------------------------
(* Disconnect, timers, poller, cleanup, crash *)

(* finalizeCallFromDisconnect: the local binding, else the Redis one.      *)
Disconnect(s, t) ==
  LET c == IF bind[s] # None THEN bind[s] ELSE sockBind[s] IN
  /\ s \in live /\ task[t] = Idle
  /\ live' = live \ {s}
  /\ bind' = [bind EXCEPT ![s] = None]
  /\ sockBind' = [sockBind EXCEPT ![s] = None]
  /\ IF c = None THEN UNCHANGED task
                 ELSE Spawn(t, [Handler("disconnect", "read", s) EXCEPT !.call = c])
  /\ UNCHANGED <<mongo, due, lock, tempMap, adm, timers, active, localTemp, offered,
                 accepted, known, age, events, crashes, writer>>

Timeout(op, n, c) ==
  [Idle EXCEPT !.op = op, !.pc = "finalize", !.node = n, !.call = c, !.status = "missed"]

FireTimer(tm, t) ==
  /\ tm \in timers /\ age[tm.call] >= Due
  /\ timers' = timers \ {tm}
  /\ Spawn(t, Timeout("timeout", tm.node, tm.call))
  /\ UNCHANGED <<mongo, redis, active, bind, localTemp, client, age, events, crashes, writer>>

(* One due call of a poll: the lock is taken and never released, it expires. *)
Poll(n, c, t) ==
  /\ c \in due /\ age[c] >= Due /\ c \notin lock
  /\ lock' = lock \cup {c}
  /\ Spawn(t, Timeout("poll", n, c))
  /\ UNCHANGED <<mongo, due, tempMap, sockBind, adm, replica, client, age, events, crashes, writer>>

(* Mutant: the lock is taken without an expiry. *)
ExpireLockNever(c) ==
  c \in lock /\ UNCHANGED vars

ExpireLock(c) ==
  /\ c \in lock
  /\ lock' = lock \ {c}
  /\ UNCHANGED <<mongo, due, tempMap, sockBind, adm, replica, client, age, task, events,
                 crashes, writer>>

(* Mutant: the cleanup job spares the answered calls. *)
CleanupUnanswered(c) ==
  /\ Pending(c) /\ age[c] = Stale /\ rec[c].answered = "no"
  /\ rec' = [rec EXCEPT ![c].status = "unreachable"]
  /\ writer' = [writer EXCEPT ![c] = "cleanup"]
  /\ UNCHANGED <<log, redis, replica, client, age, task, events, crashes>>

(* runCleanup: every pending call over 2 minutes old, answered or not,     *)
(* becomes unreachable, without the finalizer and without a call log.      *)
Cleanup(c) ==
  /\ Pending(c) /\ age[c] = Stale
  /\ rec' = [rec EXCEPT ![c].status = "unreachable"]
  /\ writer' = [writer EXCEPT ![c] = "cleanup"]
  /\ UNCHANGED <<log, redis, replica, client, age, task, events, crashes>>

(* A scheduled 45 s timer fires before its call is 2 minutes old. *)
GrowOld(c) ==
  /\ rec[c].status # "none" /\ age[c] < Horizon
  /\ age[c] = Due => \A tm \in timers : tm.call # c
  /\ age' = [age EXCEPT ![c] = @ + 1]
  /\ UNCHANGED <<mongo, redis, replica, client, task, events, crashes, writer>>

(* A replica dies and restarts: its handlers, timers and Maps are gone and *)
(* no disconnect handler runs for its sockets.                             *)
Crash(n) ==
  /\ crashes < MaxCrashes
  /\ crashes' = crashes + 1
  /\ task' = [t \in Tasks |-> IF task[t].node = n THEN Idle ELSE task[t]]
  /\ timers' = {tm \in timers : tm.node # n}
  /\ active' = [active EXCEPT ![n] = [c \in Calls |-> None]]
  /\ bind' = [s \in Sockets |-> IF Home[s] = n THEN None ELSE bind[s]]
  /\ localTemp' = [localTemp EXCEPT ![n] = [a \in Attempts |-> None]]
  /\ live' = {s \in live : Home[s] # n}
  /\ UNCHANGED <<mongo, redis, offered, accepted, known, age, events, writer>>

-----------------------------------------------------------------------------
Step(t) ==
  \/ Resolve(t) \/ CreateRecord(t) \/ MapTempId(t) \/ BindCaller(t) \/ DetectGlare(t)
  \/ RankGlare(t) \/ GlareWrite(t) \/ ArmDue(t) \/ StartTimer(t) \/ BindCallee(t)
  \/ WriteAnswer(t) \/ SearchCall(t) \/ RemoveDue(t) \/ ReadCall(t) \/ Finalize(t)
  \/ WriteLog(t)

ClientEvent(t) ==
  \/ \E s \in Sockets, a \in Attempts : InitCall(s, a, t) \/ CallUser(s, a, t)
  \/ \E s \in Sockets, c \in Calls : AnswerCall(s, c, t)
  \/ \E s \in Sockets : RejectCall(s, t) \/ EndCall(s, t) \/ Disconnect(s, t)

Fire == \E tm \in timers, t \in Tasks : FireTimer(tm, t)
PollSome(c) == \E n \in Nodes, t \in Tasks : Poll(n, c, t)

Next ==
  \/ \E t \in Tasks : Step(t) \/ ClientEvent(t)
  \/ Fire
  \/ \E c \in Calls : PollSome(c) \/ ExpireLock(c) \/ Cleanup(c) \/ GrowOld(c)
  \/ \E n \in Nodes : Crash(n)

Spec == Init /\ [][Next]_vars

(* The event loop runs every handler on and fires every due timer, the     *)
(* poller and the cleanup job come round, Redis keys expire and time       *)
(* passes.  Clients are not fair.  Fire and PollSome are strongly fair:    *)
(* they wait for a free member of Tasks, which the code does not.          *)
Fairness ==
  /\ \A t \in Tasks : WF_vars(Step(t))
  /\ SF_vars(Fire)
  /\ \A c \in Calls : /\ SF_vars(PollSome(c)) /\ WF_vars(ExpireLock(c))
                      /\ WF_vars(Cleanup(c)) /\ WF_vars(GrowOld(c))

FairSpec == Spec /\ Fairness

-----------------------------------------------------------------------------
(* Properties *)

(* What ended a call fits what happened on it, whichever handlers raced:   *)
(* a timeout (local or distributed) ends only calls nobody answered, as    *)
(* missed; a disconnect completes exactly the answered ones; and a hangup  *)
(* never completes a call that was not answered, although the status was   *)
(* derived from a record read before the conditional update.               *)
HonestOutcome ==
  \A c \in Calls :
    /\ writer[c] = "timeout" => rec[c].status = "missed" /\ rec[c].answered # "yes"
    /\ writer[c] = "disconnect" => (rec[c].status = "completed" <=> rec[c].answered = "yes")
    /\ writer[c] = "user" /\ rec[c].status = "completed" => rec[c].answered = "yes"

(* The call log message in the chat shows the status of the call record,   *)
(* although it is written in a later step by whoever won the finalization, *)
(* and only calls that won a finalization have one.  Glare resolution      *)
(* rewrites the record without the log and is the exception.               *)
LogAgrees ==
  \A c \in Calls : log[c] # None /\ writer[c] # "glare" =>
    /\ writer[c] \in {"user", "disconnect", "timeout"}
    /\ log[c] = rec[c].status

(* One finalization result per call: once a call has ended, no reject,     *)
(* end, disconnect, timeout, poll or cleanup changes its outcome; only     *)
(* glare resolution, which bypasses the finalizer, may.                    *)
OutcomeStands ==
  [][\A c \in Calls : Ended(c) /\ (rec'[c].status # rec[c].status \/ writer'[c] # writer[c])
                     => writer'[c] = "glare"]_vars

(* activeTimeouts holds no handle of a timer that is neither scheduled nor *)
(* in its callback, so no entry of the Map leaks, in spite of initCall and *)
(* callUser both arming the call and overwriting each other's handle.      *)
HandlesAreLive ==
  \A n \in Nodes, c \in Calls : active[n][c] # None =>
    \/ [node |-> n, call |-> c, handle |-> active[n][c]] \in timers
    \/ \E t \in Tasks : task[t].op = "timeout" /\ task[t].node = n /\ task[t].call = c

(* Every call that starts ringing ends, even when every replica that held  *)
(* its timer has crashed: the timers, the poller and the cleanup job back  *)
(* each other up.  And the distributed timeout set forgets it for good,    *)
(* although callUser may add the entry after another handler removed it.   *)
CallsSettle == \A c \in Calls : Pending(c) ~> [](Ended(c) /\ c \notin due)

(* Whoever wins the finalization gets the call log message written, unless *)
(* a replica crashes.                                                      *)
WinnerLogs ==
  \A c \in Calls :
    writer[c] \in {"user", "disconnect", "timeout"} ~> (log[c] # None \/ crashes > 0)

(* The records and the chat show the life CallOutcome promises: what a     *)
(* call is on, what ended it and what its log says, of any interleaving of *)
(* handlers, timers, poller and cleanup, is one legal step of it at a time. *)
PhaseOf(c) ==
  IF Pending(c) THEN IF rec[c].answered = "yes" THEN "accepted" ELSE "ringing"
                ELSE rec[c].status

Outcome == INSTANCE CallOutcome
             WITH phase <- [c \in Calls |-> PhaseOf(c)], by <- writer, shown <- log

Implements == Outcome!Spec

(* Claims of the documentation that the code does not keep. *)

(* audio-video-calls.md: an accepted call is completed when it ends.  Here *)
(* for calls no user has hung up: the cleanup job ends them as well.       *)
AcceptedNotUnreachable ==
  \A c \in Calls : rec[c].answered = "yes" => rec[c].status # "unreachable"
=============================================================================
