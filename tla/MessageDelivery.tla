-------------------------- MODULE MessageDelivery --------------------------
(***************************************************************************)
(* Messages of one user, the sender, to one conversation, seen by another  *)
(* user who has the conversation open, the receiver: the sender's chat     *)
(* view and pending queue (client useChatMessages.js, pendingQueue.js),    *)
(* the sendMessage handler and the upsert behind it (messageHandler.js,    *)
(* saveMessageInBackground.js), the fan-out and the receiver's recovery    *)
(* after a reconnect (SocketProvider.jsx, syncMissedMessages).             *)
(*                                                                         *)
(* A key is an idempotency key, which stands for a message through all its *)
(* retries.  Handlers of several requests interleave at their awaits; both *)
(* directions of the sender's socket are FIFO while it is connected.       *)
(***************************************************************************)
EXTENDS Naturals, Sequences, FiniteSets

CONSTANTS
  Keys,             \* the messages the sender writes
  Tasks,            \* bounds the sendMessage handlers in flight
  MaxRetry,         \* MAX_RETRY of the pending queue
  SyncLimit,        \* page size of the missed-message sync
  GroupChat,        \* the conversation is a group
  MaxRejects,       \* bounds the handlers that throw
  MaxSaveFailures,  \* bounds the saves that fail
  MaxSyncFailures,  \* bounds the syncs that fail
  MaxDrops,         \* bounds the losses of either connection
  MaxOpens,         \* bounds how often the sender opens the chat or reloads
  None

ASSUME NoneAssumption == None \notin Keys \cup Nat
ASSUME LimitAssumption == MaxRetry \in Nat /\ SyncLimit \in Nat \ {0} /\ GroupChat \in BOOLEAN
ASSUME BoundAssumption ==
  /\ MaxRejects \in Nat /\ MaxSaveFailures \in Nat /\ MaxSyncFailures \in Nat
  /\ MaxDrops \in Nat /\ MaxOpens \in Nat

VARIABLES
  bubble,    \* how the sender sees each message
  retries,   \* retryCount of the bubble
  queue,     \* retryCount of the pending queue's entry in localStorage, or None
  fetch,     \* the history request of the sender's chat view
  fetched,   \* the messages its response holds
  sconn,     \* the sender's socket is connected
  toServer,  \* requests in transit, or buffered while disconnected
  toSender,  \* echoes and acknowledgements in transit
  task,      \* the sendMessage handlers in flight
  stored,    \* Mongo: keys of the saved messages in the order of their _id
  jobs,      \* message.created audit jobs published per message
  rconn,     \* the receiver's socket: "down", "connected", or "joined" its room
  inbox,     \* getMessage events in transit to the receiver
  shown,     \* the receiver's bubbles
  lastId,    \* last_message_id of the receiver, 0 when there is none
  syncs,     \* sync requests of the receiver in flight
  missed,    \* history: ids saved while the receiver was down
  unsaved,   \* history: messages sent on without an _id, after a save that failed
  rejects, saveFailures, syncFailures, drops, opens

view == <<bubble, retries, queue, fetch, fetched>>
link == <<sconn, toServer, toSender>>
receiver == <<rconn, inbox, shown, lastId, syncs>>
bounds == <<rejects, saveFailures, syncFailures, drops, opens>>
history == <<missed, unsaved>>
vars == <<view, link, task, stored, jobs, receiver, history, bounds>>

(* A message is known by its _id, here its position in stored; one that    *)
(* was not saved has none, written 0.                                      *)
Id(k) == CHOOSE i \in 1..Len(stored) : stored[i] = k
Stored(k) == \E i \in 1..Len(stored) : stored[i] = k

(* A temporary bubble still has its temp id; "sentTemp" is one the echo of *)
(* a message without an _id marked as sent.                                *)
Temp == {"sending", "error", "sentTemp"}
Bubble == Temp \cup {"unsent", "gone", "sent"}

Idle == [pc |-> "idle", key |-> None, id |-> 0, fresh |-> FALSE, ok |-> FALSE, live |-> FALSE]
Task == [pc : {"idle", "save", "emit", "reply"}, key : Keys \cup {None}, id : Nat,
         fresh : BOOLEAN, ok : BOOLEAN, live : BOOLEAN]
Packet == [kind : {"echo", "ack", "nack"}, key : Keys, id : Nat]
Event == [key : Keys, id : Nat]
Sync == [after : Nat, upto : Nat \cup {None}]

TypeOK ==
  /\ bubble \in [Keys -> Bubble] /\ retries \in [Keys -> 0..MaxRetry]
  /\ queue \in [Keys -> (0..MaxRetry) \cup {None}]
  /\ fetch \in {"idle", "asked", "read"} /\ fetched \subseteq Keys
  /\ sconn \in BOOLEAN /\ toServer \in Seq(Keys) /\ toSender \in Seq(Packet)
  /\ task \in [Tasks -> Task]
  /\ stored \in Seq(Keys) /\ jobs \in [Keys -> Nat]
  /\ rconn \in {"down", "connected", "joined"} /\ inbox \in Seq(Event)
  /\ shown \in Seq(Event) /\ lastId \in Nat /\ syncs \subseteq Sync
  /\ missed \subseteq Nat /\ unsaved \subseteq Keys
  /\ rejects \in 0..MaxRejects /\ saveFailures \in 0..MaxSaveFailures
  /\ syncFailures \in 0..MaxSyncFailures /\ drops \in 0..MaxDrops /\ opens \in 0..MaxOpens

Init ==
  /\ bubble = [k \in Keys |-> "unsent"] /\ retries = [k \in Keys |-> 0]
  /\ queue = [k \in Keys |-> None]
  /\ fetch = "idle" /\ fetched = {}
  /\ sconn = TRUE /\ toServer = <<>> /\ toSender = <<>>
  /\ task = [t \in Tasks |-> Idle]
  /\ stored = <<>> /\ jobs = [k \in Keys |-> 0]
  /\ rconn = "joined" /\ inbox = <<>> /\ shown = <<>> /\ lastId = 0 /\ syncs = {}
  /\ missed = {} /\ unsaved = {}
  /\ rejects = 0 /\ saveFailures = 0 /\ syncFailures = 0 /\ drops = 0 /\ opens = 0

-----------------------------------------------------------------------------
(* The sender's chat view *)

(* The optimistic bubble, the pending queue entry and the request. *)
Send(k) ==
  /\ bubble[k] = "unsent"
  /\ bubble' = [bubble EXCEPT ![k] = "sending"]
  /\ queue' = [queue EXCEPT ![k] = 0]
  /\ toServer' = Append(toServer, k)
  /\ UNCHANGED <<retries, fetch, fetched, sconn, toSender, task, stored, jobs, receiver,
                 history, bounds>>

(* 15 s without an answer. *)
Timeout(k) ==
  /\ bubble[k] = "sending"
  /\ bubble' = [bubble EXCEPT ![k] = "error"]
  /\ UNCHANGED <<retries, queue, fetch, fetched, link, task, stored, jobs, receiver,
                 history, bounds>>

(* The bubble's retry button; pendingQueueIncrementRetry returns null for  *)
(* an entry that is gone or used up, and then nothing is sent.             *)
Retry(k) ==
  /\ bubble[k] = "error" /\ retries[k] < MaxRetry
  /\ queue[k] # None /\ queue[k] < MaxRetry
  /\ bubble' = [bubble EXCEPT ![k] = "sending"]
  /\ retries' = [retries EXCEPT ![k] = @ + 1]
  /\ queue' = [queue EXCEPT ![k] = @ + 1]
  /\ toServer' = Append(toServer, k)
  /\ UNCHANGED <<fetch, fetched, sconn, toSender, task, stored, jobs, receiver, history, bounds>>

(* Mutant: bubbles are found by their idempotency key. *)
SettleByKey(k, b) == [bubble EXCEPT ![k] = IF @ \in Temp \cup {"sent"} THEN b ELSE @]

(* The bubbles are found by their temp id, so an answer that comes late    *)
(* changes nothing on a bubble that has its real id.                       *)
Settle(k, b) == [bubble EXCEPT ![k] = IF @ \in Temp THEN b ELSE @]

(* An answer removes the pending queue entry, a failure too; the echo of   *)
(* the message leaves the entry.                                           *)
SenderReceives ==
  /\ sconn /\ toSender # <<>>
  /\ LET p == Head(toSender) IN
     CASE p.kind = "ack"  -> bubble' = Settle(p.key, "sent")
                             /\ queue' = [queue EXCEPT ![p.key] = None]
       [] p.kind = "nack" -> bubble' = Settle(p.key, "error")
                             /\ queue' = [queue EXCEPT ![p.key] = None]
       [] OTHER           -> bubble' = Settle(p.key, IF p.id = 0 THEN "sentTemp" ELSE "sent")
                             /\ UNCHANGED queue
  /\ toSender' = Tail(toSender)
  /\ UNCHANGED <<retries, fetch, fetched, sconn, toServer, task, stored, jobs, receiver,
                 history, bounds>>

(* The sender's socket is lost with the packets in transit.  A handler     *)
(* goes on, but its acknowledgement belongs to the lost socket.            *)
Cut(tasks) ==
  /\ sconn' = FALSE /\ toServer' = <<>> /\ toSender' = <<>>
  /\ task' = [t \in Tasks |-> [tasks[t] EXCEPT !.live = FALSE]]

(* The chat is opened, again, or the page is reloaded: the view starts     *)
(* empty and asks for the history, and the pending queue drops the entries *)
(* that have used up their retries.                                        *)
OpenChat ==
  /\ opens < MaxOpens /\ opens' = opens + 1
  /\ bubble' = [k \in Keys |-> IF bubble[k] = "unsent" THEN "unsent" ELSE "gone"]
  /\ queue' = [k \in Keys |-> IF queue[k] = MaxRetry THEN None ELSE queue[k]]
  /\ fetch' = "asked" /\ fetched' = {}
  /\ \/ UNCHANGED <<link, task>>
     \/ Cut(task)
  /\ UNCHANGED <<retries, stored, jobs, receiver, history, rejects, saveFailures,
                 syncFailures, drops>>

FetchRead ==
  /\ fetch = "asked"
  /\ fetch' = "read" /\ fetched' = {k \in Keys : Stored(k)}
  /\ UNCHANGED <<bubble, retries, queue, link, task, stored, jobs, receiver, history, bounds>>

(* The response replaces whatever the view shows by then. *)
FetchApply ==
  /\ fetch = "read"
  /\ bubble' = [k \in Keys |-> IF k \in fetched THEN "sent"
                               ELSE IF bubble[k] = "unsent" THEN "unsent" ELSE "gone"]
  /\ fetch' = "idle" /\ fetched' = {}
  /\ UNCHANGED <<retries, queue, link, task, stored, jobs, receiver, history, bounds>>

SenderDrop ==
  /\ sconn /\ drops < MaxDrops /\ drops' = drops + 1
  /\ Cut(task)
  /\ UNCHANGED <<view, stored, jobs, receiver, history, rejects, saveFailures, syncFailures, opens>>

SenderConnect ==
  /\ ~sconn /\ sconn' = TRUE
  /\ UNCHANGED <<view, toServer, toSender, task, stored, jobs, receiver, history, bounds>>

-----------------------------------------------------------------------------
(* The sendMessage handler *)

At(t, pc) == task[t].pc = pc

Accept(t) ==
  /\ sconn /\ toServer # <<>> /\ At(t, "idle")
  /\ task' = [task EXCEPT ![t] = [Idle EXCEPT !.pc = "save", !.key = Head(toServer), !.live = TRUE]]
  /\ toServer' = Tail(toServer)
  /\ UNCHANGED <<view, sconn, toSender, stored, jobs, receiver, history, bounds>>

(* The sender's profile, or the group, cannot be loaded: the handler       *)
(* throws and answers with a failure, for a group after the save.          *)
Reject(t) ==
  /\ At(t, "save") \/ (GroupChat /\ At(t, "emit"))
  /\ rejects < MaxRejects /\ rejects' = rejects + 1
  /\ task' = [task EXCEPT ![t] = [@ EXCEPT !.pc = "reply", !.ok = FALSE]]
  /\ UNCHANGED <<view, link, stored, jobs, receiver, history, saveFailures, syncFailures,
                 drops, opens>>

(* Mutant: every result of the upsert counts as new. *)
SaveNeverDuplicate(t) ==
  LET k == task[t].key
      after == IF Stored(k) THEN stored ELSE Append(stored, k)
      id == CHOOSE i \in 1..Len(after) : after[i] = k
  IN
  /\ At(t, "save")
  /\ stored' = after
  /\ missed' = IF id > Len(stored) /\ rconn = "down" /\ lastId # 0 THEN missed \cup {id} ELSE missed
  /\ task' = [task EXCEPT ![t] = [@ EXCEPT !.pc = "emit", !.id = id, !.fresh = TRUE]]
  /\ UNCHANGED <<view, link, jobs, receiver, unsaved, bounds>>

(* The upsert by (sender, idempotencyKey); a concurrent insert that loses  *)
(* against the unique index reads the winner's document.                   *)
Upsert(t) ==
  LET k == task[t].key IN
  /\ At(t, "save")
  /\ stored' = IF Stored(k) THEN stored ELSE Append(stored, k)
  /\ missed' = IF ~Stored(k) /\ rconn = "down" /\ lastId # 0
               THEN missed \cup {Len(stored) + 1} ELSE missed

Save(t) ==
  LET k == task[t].key
      id == IF Stored(k) THEN Id(k) ELSE Len(stored) + 1
  IN
  /\ Upsert(t)
  /\ task' = [task EXCEPT ![t] = [@ EXCEPT !.pc = "emit", !.id = id, !.fresh = ~Stored(k)]]
  /\ UNCHANGED <<view, link, jobs, receiver, unsaved, bounds>>

(* saveMessageInBackground swallows the error; the handler goes on without *)
(* a document.                                                             *)
NoDocument(t) ==
  /\ saveFailures < MaxSaveFailures /\ saveFailures' = saveFailures + 1
  /\ task' = [task EXCEPT ![t].pc = "emit"]
  /\ unsaved' = unsaved \cup {task[t].key}
  /\ UNCHANGED <<view, link, jobs, receiver, rejects, syncFailures, drops, opens>>

(* The upsert fails. *)
SaveFail(t) == At(t, "save") /\ NoDocument(t) /\ UNCHANGED <<stored, missed>>

(* The message is stored, or was before, but the Redis transaction behind  *)
(* the upsert throws: the handler does not learn the _id.                  *)
CacheFail(t) == Upsert(t) /\ NoDocument(t)

(* The event goes to the receiver and back to the sender, whose socket may *)
(* not have joined its room yet; the audit job of a new message follows.   *)
Emit(t) ==
  LET k == task[t].key
      id == task[t].id
      echo == [kind |-> "echo", key |-> k, id |-> id]
  IN
  /\ At(t, "emit")
  /\ inbox' = IF rconn = "joined" THEN Append(inbox, [key |-> k, id |-> id]) ELSE inbox
  /\ \/ toSender' = IF sconn THEN Append(toSender, echo) ELSE toSender
     \/ toSender' = toSender
  /\ jobs' = IF task[t].fresh THEN [jobs EXCEPT ![k] = @ + 1] ELSE jobs
  /\ task' = [task EXCEPT ![t] = [@ EXCEPT !.pc = "reply", !.ok = TRUE]]
  /\ UNCHANGED <<view, sconn, toServer, stored, rconn, shown, lastId, syncs, history, bounds>>

Reply(t) ==
  LET answer == [kind |-> IF task[t].ok THEN "ack" ELSE "nack", key |-> task[t].key, id |-> 0] IN
  /\ At(t, "reply")
  /\ toSender' = IF task[t].live THEN Append(toSender, answer) ELSE toSender
  /\ task' = [task EXCEPT ![t] = Idle]
  /\ UNCHANGED <<view, sconn, toServer, stored, jobs, receiver, history, bounds>>

(* The sender's replica dies. *)
Crash ==
  /\ drops < MaxDrops /\ drops' = drops + 1
  /\ Cut([t \in Tasks |-> Idle])
  /\ UNCHANGED <<view, stored, jobs, receiver, history, rejects, saveFailures, syncFailures, opens>>

-----------------------------------------------------------------------------
(* The receiver *)

Shows(s, i) == \E n \in 1..Len(s) : s[n].id = i

(* Mutant: without the two checks against the ids seen before. *)
ShowAgain(s, e) == Append(s, e)

(* handleUnifiedMessage: bubbles are told apart by _id, not by key; a      *)
(* message without an _id always gets one.                                 *)
Show(s, e) == IF e.id # 0 /\ Shows(s, e.id) THEN s ELSE Append(s, e)

Receive ==
  /\ rconn # "down" /\ inbox # <<>>
  /\ shown' = Show(shown, Head(inbox))
  /\ lastId' = IF Head(inbox).id # 0 THEN Head(inbox).id ELSE lastId
  /\ inbox' = Tail(inbox)
  /\ UNCHANGED <<view, link, task, stored, jobs, rconn, syncs, history, bounds>>

ReceiverDrop ==
  /\ rconn # "down" /\ drops < MaxDrops /\ drops' = drops + 1
  /\ rconn' = "down" /\ inbox' = <<>>
  /\ UNCHANGED <<view, link, task, stored, jobs, shown, lastId, syncs, history, rejects,
                 saveFailures, syncFailures, opens>>

(* Mutant: no second sync while one is in flight. *)
ReceiverConnectOneSync ==
  /\ rconn = "down" /\ rconn' = "connected"
  /\ syncs' = IF lastId # 0 /\ syncs = {} THEN {[after |-> lastId, upto |-> None]} ELSE syncs
  /\ UNCHANGED <<view, link, task, stored, jobs, inbox, shown, lastId, history, bounds>>

(* On connect the client asks for its room over the socket (addNewUser)    *)
(* and, when it has a last_message_id, for the missed messages over HTTP.  *)
ReceiverConnect ==
  /\ rconn = "down" /\ rconn' = "connected"
  /\ syncs' = IF lastId # 0 THEN syncs \cup {[after |-> lastId, upto |-> None]} ELSE syncs
  /\ UNCHANGED <<view, link, task, stored, jobs, inbox, shown, lastId, history, bounds>>

JoinRoom ==
  /\ rconn = "connected" /\ rconn' = "joined"
  /\ UNCHANGED <<view, link, task, stored, jobs, inbox, shown, lastId, syncs, history, bounds>>

(* syncMissedMessages on the server: the oldest page after the given id.   *)
SyncRead(s) ==
  LET end == IF Len(stored) < s.after + SyncLimit THEN Len(stored) ELSE s.after + SyncLimit IN
  /\ s.upto = None
  /\ syncs' = (syncs \ {s}) \cup {[s EXCEPT !.upto = end]}
  /\ UNCHANGED <<view, link, task, stored, jobs, rconn, inbox, shown, lastId, history, bounds>>

(* The page is handled in its order; its last message is remembered.       *)
SyncApply(s) ==
  LET show[i \in 0..s.upto] ==
        IF i <= s.after THEN shown ELSE Show(show[i - 1], [key |-> stored[i], id |-> i])
  IN
  /\ s.upto # None
  /\ shown' = show[s.upto]
  /\ lastId' = IF s.upto > s.after THEN s.upto ELSE lastId
  /\ syncs' = syncs \ {s}
  /\ UNCHANGED <<view, link, task, stored, jobs, rconn, inbox, history, bounds>>

SyncFail(s) ==
  /\ syncFailures < MaxSyncFailures /\ syncFailures' = syncFailures + 1
  /\ syncs' = syncs \ {s}
  /\ UNCHANGED <<view, link, task, stored, jobs, rconn, inbox, shown, lastId, history, rejects,
                 saveFailures, drops, opens>>

-----------------------------------------------------------------------------
SenderStep ==
  \/ \E k \in Keys : Send(k) \/ Timeout(k) \/ Retry(k)
  \/ SenderReceives \/ OpenChat \/ FetchRead \/ FetchApply \/ SenderDrop \/ SenderConnect
Handle(t) == Accept(t) \/ Reject(t) \/ Save(t) \/ SaveFail(t) \/ CacheFail(t) \/ Emit(t) \/ Reply(t)
SyncStep == \E s \in syncs : SyncRead(s) \/ SyncApply(s)
ReceiverStep ==
  \/ Receive \/ ReceiverDrop \/ ReceiverConnect \/ JoinRoom \/ SyncStep
  \/ \E s \in syncs : SyncFail(s)

Next == SenderStep \/ (\E t \in Tasks : Handle(t)) \/ Crash \/ ReceiverStep

Spec == Init /\ [][Next]_vars

(* Handlers run on, packets and responses arrive, and the receiver's       *)
(* client reconnects forever.  Users do as they like.                      *)
Fairness ==
  /\ \A t \in Tasks : WF_vars(Handle(t))
  /\ WF_vars(Receive) /\ WF_vars(ReceiverConnect) /\ WF_vars(JoinRoom) /\ WF_vars(SyncStep)

FairSpec == Spec /\ Fairness

-----------------------------------------------------------------------------
(* Properties *)

(* A message is saved once and announced to the audit queue at most once,  *)
(* only after it was saved, however often it was retried and however the   *)
(* handlers of its requests interleave, crash or fail.                     *)
AnnouncedOnce ==
  /\ \A i, j \in 1..Len(stored) : stored[i] = stored[j] => i = j
  /\ \A k \in Keys : jobs[k] <= 1 /\ (jobs[k] = 1 => Stored(k))

(* The receiver sees a message once, although retries send the event again *)
(* and live events and synced pages overlap.  Only a message one of whose  *)
(* saves failed can get more bubbles, those of events that went out        *)
(* without an _id; at most one of its bubbles has the _id.                 *)
ShownOnce ==
  \A m, n \in 1..Len(shown) :
    m # n /\ shown[m].key = shown[n].key =>
      0 \in {shown[m].id, shown[n].id} /\ shown[m].key \in unsaved

(* What specs/done/direct-messaging.md:23 says of retries: no message is   *)
(* shown to the user twice.                                                *)
OneBubble == \A m, n \in 1..Len(shown) : shown[m].key = shown[n].key => m = n

(* A bubble that shows its message as sent never shows it as failed or on  *)
(* its way again, whatever late answers, timeouts and failures of other    *)
(* attempts still come.  One exception: a bubble that says sent but still  *)
(* has its temp id, as the echo of an event without an _id leaves it,      *)
(* falls back to failed when another attempt is answered with a failure.   *)
NackArrives(k) == toSender # <<>> /\ Head(toSender).kind = "nack" /\ Head(toSender).key = k
SentStands ==
  [][\A k \in Keys :
       /\ bubble[k] = "sent" => bubble'[k] \in {"sent", "gone"}
       /\ bubble[k] = "sentTemp" =>
            \/ bubble'[k] \in {"sentTemp", "sent", "gone"}
            \/ k \in unsaved /\ NackArrives(k) /\ bubble'[k] = "error"]_vars

(* What is saved while the receiver is offline is shown after it has come  *)
(* back, in spite of older syncs still in flight; this needs an earlier    *)
(* message to have set last_message_id.                                    *)
OfflineRecovered ==
  \A i \in 1..Cardinality(Keys) : (i \in missed /\ rconn # "down") ~> Shows(shown, i)
=============================================================================
