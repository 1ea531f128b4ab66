----------------------------- MODULE ChatProofs -----------------------------
(***************************************************************************)
(* Proofs about the chat: the delivery of messages, for any number of      *)
(* messages and handlers and any number of retries, failures, crashes and  *)
(* lost connections; and the list of conversations and the panel beside    *)
(* one, for any number of conversations, messages, pages and views.        *)
(***************************************************************************)
EXTENDS MessageDelivery, MCChatPage, Integers, FiniteSetTheorems, NaturalsInduction,
        SequenceTheorems, WellFoundedInduction, TLAPS

-----------------------------------------------------------------------------
(* The delivery of messages: its inductive invariant. *)

(* The part of the types that the server's side rests on.                  *)
ServerTypes ==
  /\ toServer \in Seq(Keys)
  /\ task \in [Tasks -> Task] /\ \A t \in Tasks : task[t].pc # "idle" => task[t].key \in Keys
  /\ stored \in Seq(Keys) /\ jobs \in [Keys -> Nat]

(* A key is in the collection at most once, and the job of one that is not *)
(* there was never published.                                              *)
SavedOnce ==
  /\ \A i, j \in 1..Len(stored) : stored[i] = stored[j] => i = j
  /\ \A k \in Keys : jobs[k] <= 1 /\ (jobs[k] = 1 => Stored(k))

(* A handler about to publish the job of a new message is the only one     *)
(* that ever was.                                                          *)
Announces(t) == task[t].pc = "emit" /\ task[t].fresh
OneAnnouncer ==
  /\ \A t \in Tasks : task[t].pc = "save" => ~task[t].fresh
  /\ \A t \in Tasks : Announces(t) => Stored(task[t].key) /\ jobs[task[t].key] = 0
  /\ \A t, u \in Tasks : Announces(t) /\ Announces(u) /\ task[t].key = task[u].key => t = u

IInv == ServerTypes /\ SavedOnce /\ OneAnnouncer

-----------------------------------------------------------------------------
(* What the actions have in common *)

(* A saved message stays saved, and a save adds only its own.              *)
LEMMA StoredAppend ==
  ASSUME NEW s \in Seq(Keys), NEW k \in Keys
  PROVE  /\ Append(s, k) \in Seq(Keys)
         /\ \A x : (\E i \in 1..Len(Append(s, k)) : Append(s, k)[i] = x)
                     <=> (\E i \in 1..Len(s) : s[i] = x) \/ x = k
         /\ (\A i, j \in 1..Len(s) : s[i] = s[j] => i = j) /\ (\A i \in 1..Len(s) : s[i] # k)
              => \A i, j \in 1..Len(Append(s, k)) : Append(s, k)[i] = Append(s, k)[j] => i = j
<1> DEFINE r == Append(s, k)
<1>1. /\ r \in Seq(Keys) /\ Len(r) = Len(s) + 1 /\ r[Len(s) + 1] = k
      /\ \A i \in 1..Len(s) : r[i] = s[i]
  BY AppendProperties
<1>2. Len(s) \in Nat
  BY LenProperties
<1> HIDE DEF r
<1>3. \A i \in 1..Len(r) : (i \in 1..Len(s) /\ r[i] = s[i]) \/ (i = Len(s) + 1 /\ r[i] = k)
  BY <1>1, <1>2
<1>4. \A i \in 1..Len(s) : i \in 1..Len(r)
  BY <1>1, <1>2
<1>5. Len(s) + 1 \in 1..Len(r)
  BY <1>1, <1>2
<1>6. ASSUME NEW x
      PROVE  (\E i \in 1..Len(r) : r[i] = x) <=> (\E i \in 1..Len(s) : s[i] = x) \/ x = k
  BY <1>1, <1>3, <1>4, <1>5
<1>7. ASSUME \A i, j \in 1..Len(s) : s[i] = s[j] => i = j, \A i \in 1..Len(s) : s[i] # k,
             NEW i \in 1..Len(r), NEW j \in 1..Len(r), r[i] = r[j]
      PROVE  i = j
  BY <1>3, <1>7
<1> QED
  BY <1>1, <1>6, <1>7 DEF r

(* The handlers of a socket that is cut go on without an answer to give.   *)
LEMMA CutKeeps ==
  ASSUME IInv, UNCHANGED <<stored, jobs>>, toServer' \in Seq(Keys),
         NEW tasks \in [Tasks -> Task],
         task' = [t \in Tasks |-> [tasks[t] EXCEPT !.live = FALSE]],
         \A t \in Tasks : tasks[t] = task[t] \/ tasks[t].pc = "idle"
  PROVE  IInv'
<1>0. ASSUME NEW r \in Task PROVE [r EXCEPT !.live = FALSE] \in Task
  BY <1>0 DEF Task
<1>1. task' \in [Tasks -> Task]
  BY <1>0
<1>2. \A t \in Tasks :
        /\ task'[t].pc = tasks[t].pc /\ task'[t].key = tasks[t].key
        /\ task'[t].fresh = tasks[t].fresh
  BY DEF Task
<1>3. \A t \in Tasks : Announces(t)' => Announces(t) /\ task'[t].key = task[t].key
  BY <1>2 DEF Announces
<1>4. ServerTypes'
  BY <1>1, <1>2 DEF IInv, ServerTypes
<1>5. SavedOnce'
  BY DEF IInv, SavedOnce, Stored
<1>6. OneAnnouncer'
  BY SMTT(30), <1>2, <1>3 DEF IInv, OneAnnouncer, Stored
<1> QED
  BY <1>4, <1>5, <1>6 DEF IInv

(* A step of one handler that neither saves nor publishes.                 *)
LEMMA HandlerMoves ==
  ASSUME IInv, UNCHANGED <<stored, jobs>>, toServer' \in Seq(Keys),
         NEW t \in Tasks, NEW r \in Task, task' = [task EXCEPT ![t] = r],
         r.pc # "idle" => r.key \in Keys, r.pc = "save" => ~r.fresh,
         r.pc = "emit" => ~r.fresh
  PROVE  IInv'
<1>1. task' \in [Tasks -> Task] /\ task'[t] = r /\ \A u \in Tasks \ {t} : task'[u] = task[u]
  BY DEF IInv, ServerTypes
<1>2. \A u \in Tasks : Announces(u)' => u # t /\ Announces(u) /\ task'[u] = task[u]
  BY <1>1 DEF Announces
<1>3. ServerTypes'
  BY <1>1 DEF IInv, ServerTypes
<1>4. SavedOnce'
  BY DEF IInv, SavedOnce, Stored
<1>5. OneAnnouncer'
  BY <1>1, <1>2 DEF IInv, OneAnnouncer, Stored
<1> QED
  BY <1>3, <1>4, <1>5 DEF IInv

(* Steps of the clients that leave the server's side alone.                *)
LEMMA ServerUnmoved ==
  ASSUME IInv, UNCHANGED <<task, stored, jobs>>, toServer' \in Seq(Keys)
  PROVE  IInv'
BY DEF IInv, ServerTypes, SavedOnce, OneAnnouncer, Announces, Stored

(* An upsert, whether or not its handler then has the document: what it    *)
(* adds was not announced yet, and nobody else is about to announce it.    *)
LEMMA Upserted ==
  ASSUME IInv, NEW t \in Tasks, Upsert(t), NEW r \in Task, task' = [task EXCEPT ![t] = r],
         r.key = task[t].key, r.pc = "emit", r.fresh => ~Stored(task[t].key),
         UNCHANGED <<toServer, jobs>>
  PROVE  IInv'
<1>1. PICK k : k = task[t].key
  OBVIOUS
<1>2. k \in Keys /\ stored \in Seq(Keys) /\ task \in [Tasks -> Task] /\ toServer \in Seq(Keys)
  BY <1>1 DEF Upsert, At, IInv, ServerTypes
<1>3. stored' = IF Stored(k) THEN stored ELSE Append(stored, k)
  BY <1>1 DEF Upsert
<1>4. CASE Stored(k)
  BY <1>1, <1>2, <1>3, <1>4, HandlerMoves
<1>5. CASE ~Stored(k)
  <2>1. stored' = Append(stored, k) /\ \A i \in 1..Len(stored) : stored[i] # k
    BY <1>3, <1>5 DEF Stored
  <2>2. stored' \in Seq(Keys) /\ \A x : Stored(x)' <=> Stored(x) \/ x = k
    BY <1>2, <2>1, StoredAppend DEF Stored
  <2>3. \A i, j \in 1..Len(stored)' : stored'[i] = stored'[j] => i = j
    BY <1>2, <2>1, StoredAppend DEF IInv, SavedOnce
  <2>4. task' \in [Tasks -> Task] /\ task'[t] = r /\ \A u \in Tasks \ {t} : task'[u] = task[u]
    BY <1>2
  <2>5. jobs \in [Keys -> Nat] /\ jobs[k] = 0
    BY <1>2, <1>5 DEF IInv, ServerTypes, SavedOnce
  <2>6. \A u \in Tasks : Announces(u)' /\ u # t =>
          Announces(u) /\ task'[u] = task[u] /\ task[u].key # k
    BY <1>5, <2>4 DEF Announces, IInv, OneAnnouncer
  <2>7. ServerTypes'
    BY <1>1, <1>2, <2>2, <2>4, <2>5 DEF IInv, ServerTypes
  <2>8. SavedOnce'
    BY <2>2, <2>3 DEF IInv, SavedOnce
  <2>9. OneAnnouncer'
    <3>1. \A u \in Tasks : task'[u].pc = "save" => ~task'[u].fresh
      BY <2>4 DEF IInv, OneAnnouncer
    <3>2. \A u \in Tasks : (Announces(u) => Stored(task[u].key) /\ jobs[task[u].key] = 0)'
      BY <1>1, <2>2, <2>4, <2>5, <2>6 DEF IInv, OneAnnouncer
    <3>3. \A u, v \in Tasks :
            Announces(u)' /\ Announces(v)' /\ task'[u].key = task'[v].key => u = v
      BY <1>1, <2>4, <2>6 DEF IInv, OneAnnouncer
    <3>4. \A u, v \in Tasks :
            (Announces(u) /\ Announces(v) /\ task[u].key = task[v].key => u = v)'
      BY <3>3
    <3> QED
      BY <3>1, <3>2, <3>4 DEF OneAnnouncer
  <2> QED
    BY <2>7, <2>8, <2>9 DEF IInv
<1> QED
  BY <1>4, <1>5

-----------------------------------------------------------------------------
(* Every step keeps the invariant. *)
LEMMA Kept == IInv /\ [Next]_vars => IInv'
<1> SUFFICES ASSUME IInv, [Next]_vars PROVE IInv'
  OBVIOUS
<1>0. toServer \in Seq(Keys) /\ task \in [Tasks -> Task]
      /\ \A t \in Tasks : task[t].pc # "idle" => task[t].key \in Keys
  BY DEF IInv, ServerTypes
<1>1. ASSUME NEW k \in Keys, Send(k) \/ Timeout(k) \/ Retry(k) PROVE IInv'
  <2>1. toServer' \in {toServer, Append(toServer, k)} /\ UNCHANGED <<task, stored, jobs>>
    BY <1>1 DEF Send, Timeout, Retry, link
  <2> QED
    BY <1>0, <2>1, AppendProperties, ServerUnmoved
<1>2. CASE SenderReceives \/ FetchRead \/ FetchApply \/ SenderConnect
  BY <1>0, <1>2, ServerUnmoved DEF SenderReceives, FetchRead, FetchApply, SenderConnect, link
<1>3. CASE OpenChat
  <2>1. CASE UNCHANGED <<link, task>>
    BY <1>0, <1>3, <2>1, ServerUnmoved DEF OpenChat, link
  <2>2. CASE Cut(task)
    BY <1>0, <1>3, <2>2, CutKeeps, EmptySeq DEF OpenChat, Cut
  <2> QED
    BY <1>3, <2>1, <2>2 DEF OpenChat
<1>4. CASE SenderDrop
  BY <1>0, <1>4, CutKeeps, EmptySeq DEF SenderDrop, Cut
<1>5. CASE Crash
  <2>1. [t \in Tasks |-> Idle] \in [Tasks -> Task]
    BY DEF Idle, Task
  <2>2. \A t \in Tasks : [u \in Tasks |-> Idle][t].pc = "idle"
    BY DEF Idle
  <2> QED
    BY <1>0, <1>5, <2>1, <2>2, CutKeeps, EmptySeq DEF Crash, Cut
<1>6. CASE ReceiverStep
  BY <1>0, <1>6, ServerUnmoved
     DEF ReceiverStep, Receive, ReceiverDrop, ReceiverConnect, JoinRoom, SyncStep, SyncRead,
         SyncApply, SyncFail, link
<1>7. ASSUME NEW t \in Tasks, Accept(t) PROVE IInv'
  <2>1. PICK r : r = [Idle EXCEPT !.pc = "save", !.key = Head(toServer), !.live = TRUE]
    OBVIOUS
  <2>2. Head(toServer) \in Keys /\ Tail(toServer) \in Seq(Keys)
    BY <1>0, <1>7, HeadTailProperties DEF Accept
  <2>3. r \in Task /\ r.key \in Keys /\ r.pc = "save" /\ ~r.fresh
    BY <2>1, <2>2 DEF Idle, Task
  <2>4. task' = [task EXCEPT ![t] = r] /\ toServer' \in Seq(Keys) /\ UNCHANGED <<stored, jobs>>
    BY <1>7, <2>1, <2>2 DEF Accept
  <2> QED
    BY <2>3, <2>4, HandlerMoves
<1>8. ASSUME NEW t \in Tasks, Reject(t) PROVE IInv'
  <2>1. PICK r : r = [task[t] EXCEPT !.pc = "reply", !.ok = FALSE]
    OBVIOUS
  <2>2. task[t].key \in Keys /\ task[t] \in Task
    BY <1>0, <1>8 DEF Reject, At
  <2>3. r \in Task /\ r.key \in Keys /\ r.pc = "reply"
    BY <2>1, <2>2 DEF Task
  <2>4. task' = [task EXCEPT ![t] = r] /\ UNCHANGED <<toServer, stored, jobs>>
    BY <1>8, <2>1 DEF Reject, link
  <2> QED
    BY <1>0, <2>3, <2>4, HandlerMoves
<1>9. ASSUME NEW t \in Tasks, SaveFail(t) \/ CacheFail(t) PROVE IInv'
  <2>1. PICK r : r = [task[t] EXCEPT !.pc = "emit"]
    OBVIOUS
  <2>2. task[t].key \in Keys /\ task[t] \in Task /\ ~task[t].fresh
    BY <1>0, <1>9 DEF SaveFail, CacheFail, Upsert, At, IInv, OneAnnouncer
  <2>3. r \in Task /\ r.key = task[t].key /\ r.pc = "emit" /\ ~r.fresh
    BY <2>1, <2>2 DEF Task
  <2>4. task' = [task EXCEPT ![t] = r] /\ UNCHANGED <<toServer, jobs>>
    BY <1>0, <1>9, <2>1 DEF SaveFail, CacheFail, NoDocument, link
  <2>5. CASE SaveFail(t)
    BY <1>0, <2>2, <2>3, <2>4, <2>5, HandlerMoves DEF SaveFail
  <2>6. CASE CacheFail(t)
    BY <2>3, <2>4, <2>6, Upserted DEF CacheFail
  <2> QED
    BY <1>9, <2>5, <2>6
<1>10. ASSUME NEW t \in Tasks, Reply(t) PROVE IInv'
  <2>1. Idle \in Task /\ Idle.pc = "idle"
    BY DEF Idle, Task
  <2>2. task' = [task EXCEPT ![t] = Idle] /\ UNCHANGED <<toServer, stored, jobs>>
    BY <1>10 DEF Reply
  <2> QED
    BY <1>0, <2>1, <2>2, HandlerMoves
<1>11. ASSUME NEW t \in Tasks, Save(t) PROVE IInv'
  <2>1. PICK k : k = task[t].key
    OBVIOUS
  <2>2. PICK id : id = IF Stored(k) THEN Id(k) ELSE Len(stored) + 1
    OBVIOUS
  <2>3. PICK r : r = [task[t] EXCEPT !.pc = "emit", !.id = id, !.fresh = ~Stored(k)]
    OBVIOUS
  <2>4. task[t] \in Task /\ stored \in Seq(Keys)
    BY <1>0 DEF IInv, ServerTypes
  <2>5. id \in Nat
    BY <2>2, <2>4, LenProperties DEF Stored, Id
  <2>6. r \in Task /\ r.key = k /\ r.pc = "emit" /\ r.fresh = ~Stored(k)
    <3>1. (~Stored(k)) \in BOOLEAN
      OBVIOUS
    <3> QED
      BY <2>1, <2>3, <2>4, <2>5, <3>1 DEF Task
  <2>7. Upsert(t) /\ task' = [task EXCEPT ![t] = r] /\ UNCHANGED <<toServer, jobs>>
    BY <1>11, <2>1, <2>2, <2>3 DEF Save, link
  <2> QED
    BY <2>1, <2>6, <2>7, Upserted
<1>12. ASSUME NEW t \in Tasks, Emit(t) PROVE IInv'
  <2>1. PICK k : k = task[t].key
    OBVIOUS
  <2>2. PICK r : r = [task[t] EXCEPT !.pc = "reply", !.ok = TRUE]
    OBVIOUS
  <2>3. k \in Keys /\ task[t] \in Task /\ jobs \in [Keys -> Nat]
    BY <1>0, <1>12, <2>1 DEF Emit, At, IInv, ServerTypes
  <2>4. r \in Task /\ r.key = k /\ r.pc = "reply"
    BY <2>1, <2>2, <2>3 DEF Task
  <2>5. task' = [task EXCEPT ![t] = r] /\ UNCHANGED <<toServer, stored>>
        /\ jobs' = IF task[t].fresh THEN [jobs EXCEPT ![k] = @ + 1] ELSE jobs
    BY <1>12, <2>1, <2>2 DEF Emit
  <2>6. CASE ~task[t].fresh
    BY <1>0, <2>3, <2>4, <2>5, <2>6, HandlerMoves
  <2>7. CASE task[t].fresh
    <3>1. Announces(t) /\ Stored(k) /\ jobs[k] = 0
      BY <1>12, <2>1, <2>7 DEF Emit, At, Announces, IInv, OneAnnouncer
    <3>2. jobs' \in [Keys -> Nat] /\ jobs'[k] = 1 /\ \A j \in Keys \ {k} : jobs'[j] = jobs[j]
      BY <2>3, <2>5, <2>7, <3>1
    <3>3. task' \in [Tasks -> Task] /\ task'[t] = r /\ \A u \in Tasks \ {t} : task'[u] = task[u]
      BY <1>0, <2>4, <2>5
    <3>4. \A u \in Tasks : Announces(u)' =>
            /\ u # t /\ Announces(u) /\ task'[u] = task[u] /\ task[u].key # k
            /\ task[u].key \in Keys
      BY <1>0, <2>1, <2>4, <3>1, <3>3 DEF Announces, IInv, OneAnnouncer
    <3>5. ServerTypes'
      BY <1>0, <2>3, <2>4, <2>5, <3>2, <3>3 DEF IInv, ServerTypes
    <3>6. SavedOnce'
      BY <2>5, <3>1, <3>2 DEF IInv, SavedOnce, Stored
    <3>7. OneAnnouncer'
      BY <2>4, <2>5, <3>2, <3>3, <3>4 DEF IInv, OneAnnouncer, Stored
    <3> QED
      BY <3>5, <3>6, <3>7 DEF IInv
  <2> QED
    BY <2>6, <2>7 DEF IInv, ServerTypes, Task
<1>13. CASE UNCHANGED vars
  BY <1>0, <1>13, ServerUnmoved DEF vars, link
<1> QED
  BY <1>1, <1>2, <1>3, <1>4, <1>5, <1>6, <1>7, <1>8, <1>9, <1>10, <1>11, <1>12, <1>13
     DEF Next, SenderStep, Handle

-----------------------------------------------------------------------------
(* The theorems *)

(* The strengthening holds in every state: it says which handler may still *)
(* publish the job of a message, which AnnouncedOnce alone does not.       *)
THEOREM Inductive == Spec => []IInv
<1>1. Init => IInv
  <2> SUFFICES ASSUME Init PROVE IInv
    OBVIOUS
  <2>1. task \in [Tasks -> Task] /\ \A t \in Tasks : task[t].pc = "idle"
    BY DEF Init, Idle, Task
  <2>2. stored = <<>> /\ toServer = <<>> /\ jobs = [k \in Keys |-> 0]
    BY DEF Init
  <2>3. ServerTypes
    BY <2>1, <2>2, EmptySeq DEF ServerTypes
  <2>4. SavedOnce
    BY <2>2 DEF SavedOnce
  <2>5. OneAnnouncer
    BY <2>1 DEF OneAnnouncer, Announces
  <2> QED
    BY <2>3, <2>4, <2>5 DEF IInv
<1> QED
  BY <1>1, Kept, PTL DEF Spec

(* However often a message is retried, and however the handlers of its     *)
(* requests interleave, fail or die with their replica, it is saved once,  *)
(* and its audit job is published at most once and only after the save.    *)
THEOREM AnnouncedAtMostOnce == Spec => []AnnouncedOnce
<1>1. IInv => AnnouncedOnce
  BY DEF IInv, SavedOnce, AnnouncedOnce
<1> QED
  BY <1>1, Inductive, PTL

(* The type of the bubbles, which every step of the sender keeps.          *)
Bubbles == bubble \in [Keys -> Bubble]

(* Only the sender's own steps change a bubble.                            *)
LEMMA OthersKeepBubbles == [Next]_vars => SenderStep \/ UNCHANGED bubble
<1>1. ASSUME NEW t \in Tasks, Handle(t) PROVE UNCHANGED bubble
  BY <1>1 DEF Handle, Accept, Reject, Save, SaveFail, CacheFail, NoDocument, Emit, Reply, view
<1>2. ASSUME Crash \/ ReceiverStep \/ UNCHANGED vars PROVE UNCHANGED bubble
  BY <1>2 DEF Crash, ReceiverStep, SyncStep, Receive, ReceiverDrop, ReceiverConnect, JoinRoom,
              SyncRead, SyncApply, SyncFail, view, vars
<1> QED
  BY <1>1, <1>2 DEF Next

LEMMA BubblesKept == Bubbles /\ [Next]_vars => Bubbles'
<1> SUFFICES ASSUME Bubbles, SenderStep PROVE Bubbles'
  BY OthersKeepBubbles DEF Bubbles
<1>1. CASE SenderReceives
  <2>1. bubble' \in {Settle(Head(toSender).key, b) : b \in {"sent", "error", "sentTemp"}}
    BY <1>1 DEF SenderReceives
  <2> QED
    BY <2>1 DEF Bubbles, Bubble, Temp, Settle
<1>2. CASE ~SenderReceives
  BY <1>2 DEF Bubbles, Bubble, Temp, SenderStep, Send, Timeout, Retry, OpenChat, FetchRead,
              FetchApply, SenderDrop, SenderConnect, view
<1> QED
  BY <1>1, <1>2

-----------------------------------------------------------------------------
(* What the events say of their message *)

(* An event has the _id of its message, or none, and then a save of that   *)
(* message failed.                                                         *)
Fitting == {e \in Event : IF e.id = 0 THEN e.key \in unsaved
                          ELSE e.id \in 1..Len(stored) /\ stored[e.id] = e.key}
HandlerIds ==
  /\ \A t \in Tasks : task[t].pc = "save" => task[t].id = 0
  /\ \A t \in Tasks : task[t].pc = "emit" => [key |-> task[t].key, id |-> task[t].id] \in Fitting

(* What fits goes on to fit.                                               *)
LEMMA FittingGrows ==
  ASSUME IInv, [Next]_vars
  PROVE  /\ Len(stored) \in Nat /\ Len(stored)' \in Nat /\ Len(stored) <= Len(stored)'
         /\ unsaved \subseteq unsaved' /\ Fitting \subseteq Fitting'
<1>1. stored \in Seq(Keys) /\ Len(stored) \in Nat
  BY LenProperties DEF IInv, ServerTypes
<1>2. unsaved \subseteq unsaved' /\ (stored' = stored \/ \E k \in Keys : stored' = Append(stored, k))
  <2>1. ASSUME NEW t \in Tasks, Handle(t)
        PROVE  stored' = stored \/ \E k \in Keys : stored' = Append(stored, k)
    <3>1. At(t, "save") => task[t].key \in Keys
      BY DEF At, IInv, ServerTypes
    <3> QED
      BY <2>1, <3>1 DEF Handle, Accept, Reject, Save, SaveFail, CacheFail, NoDocument, Upsert, Emit,
                       Reply, history
  <2>2. ASSUME NEW t \in Tasks, Handle(t) PROVE unsaved \subseteq unsaved'
    BY <2>2 DEF Handle, Accept, Reject, Save, SaveFail, CacheFail, NoDocument, Emit, Reply, history
  <2>3. CASE ~\E t \in Tasks : Handle(t)
    BY <2>3 DEF Next, SenderStep, Handle, ReceiverStep, SyncStep, Send, Timeout, Retry,
         SenderReceives, OpenChat, FetchRead, FetchApply, SenderDrop, SenderConnect, Crash,
         Receive, ReceiverDrop, ReceiverConnect, JoinRoom, SyncRead, SyncApply, SyncFail, history,
         vars
  <2> QED
    BY <2>1, <2>2, <2>3
<1>3. /\ Len(stored)' \in Nat /\ Len(stored) <= Len(stored)'
      /\ \A i \in 1..Len(stored) : stored'[i] = stored[i]
  BY <1>1, <1>2, AppendProperties
<1>4. Fitting \subseteq Fitting'
  BY <1>1, <1>2, <1>3 DEF Fitting
<1> QED
  BY <1>1, <1>2, <1>3, <1>4

LEMMA HandlerIdsKept == IInv /\ HandlerIds /\ [Next]_vars => HandlerIds'
<1> SUFFICES ASSUME IInv, HandlerIds, [Next]_vars PROVE HandlerIds'
  OBVIOUS
<1>0. task \in [Tasks -> Task] /\ stored \in Seq(Keys) /\ Fitting \subseteq Fitting'
  BY FittingGrows DEF IInv, ServerTypes
<1>1. ASSUME \A t \in Tasks :
               \/ task'[t].pc \notin {"save", "emit"}
               \/ task'[t].pc = task[t].pc /\ task'[t].key = task[t].key /\ task'[t].id = task[t].id
      PROVE  HandlerIds'
  BY <1>0, <1>1 DEF HandlerIds
<1>2. CASE UNCHANGED task
  BY <1>1, <1>2
<1>3. ASSUME NEW tasks \in [Tasks -> Task], Cut(tasks),
             \A t \in Tasks : tasks[t] = task[t] \/ tasks[t].pc = "idle"
      PROVE  HandlerIds'
  <2>1. \A t \in Tasks : /\ task'[t].pc = tasks[t].pc /\ task'[t].key = tasks[t].key
                         /\ task'[t].id = tasks[t].id
    BY <1>3 DEF Cut, Task
  <2> QED
    BY <1>1, <1>3, <2>1
<1>4. CASE OpenChat \/ SenderDrop
  BY <1>0, <1>2, <1>3, <1>4 DEF OpenChat, SenderDrop
<1>5. CASE Crash
  <2>1. [t \in Tasks |-> Idle] \in [Tasks -> Task]
    BY DEF Idle, Task
  <2>2. \A t \in Tasks : [u \in Tasks |-> Idle][t].pc = "idle"
    BY DEF Idle
  <2> QED
    BY <1>3, <1>5, <2>1, <2>2 DEF Crash
<1>6. CASE ReceiverStep \/ UNCHANGED vars
  BY <1>2, <1>6 DEF ReceiverStep, SyncStep, Receive, ReceiverDrop, ReceiverConnect, JoinRoom,
                    SyncRead, SyncApply, SyncFail, vars
<1>7. CASE SenderStep /\ ~OpenChat /\ ~SenderDrop
  BY <1>2, <1>7 DEF SenderStep, Send, Timeout, Retry, SenderReceives, FetchRead, FetchApply,
                    SenderConnect
<1>8. ASSUME NEW t \in Tasks, NEW r \in Task, task' = [task EXCEPT ![t] = r],
             r.pc = "save" => r.id = 0,
             r.pc = "emit" => [key |-> r.key, id |-> r.id] \in Fitting'
      PROVE  HandlerIds'
  BY <1>0, <1>8 DEF HandlerIds
<1>9. ASSUME NEW t \in Tasks, Accept(t) PROVE HandlerIds'
  <2>1. PICK r : r = [Idle EXCEPT !.pc = "save", !.key = Head(toServer), !.live = TRUE]
    OBVIOUS
  <2>2. Head(toServer) \in Keys
    BY <1>9, HeadTailProperties DEF Accept, IInv, ServerTypes
  <2>3. r \in Task /\ r.pc = "save" /\ r.id = 0
    BY <2>1, <2>2 DEF Idle, Task
  <2> QED
    BY <1>8, <1>9, <2>1, <2>3 DEF Accept
<1>10. ASSUME NEW t \in Tasks, Reject(t) \/ Emit(t) \/ Reply(t) PROVE HandlerIds'
  <2>1. task[t] \in Task
    BY <1>0
  <2>2. CASE Reject(t)
    <3>1. PICK r : r = [task[t] EXCEPT !.pc = "reply", !.ok = FALSE]
      OBVIOUS
    <3>2. r \in Task /\ r.pc = "reply"
      BY <2>1, <3>1 DEF Task
    <3>3. task' = [task EXCEPT ![t] = r]
      BY <2>2, <3>1 DEF Reject
    <3> QED
      BY <1>8, <3>2, <3>3
  <2>3. CASE Emit(t)
    <3>1. PICK r : r = [task[t] EXCEPT !.pc = "reply", !.ok = TRUE]
      OBVIOUS
    <3>2. r \in Task /\ r.pc = "reply"
      BY <2>1, <3>1 DEF Task
    <3>3. task' = [task EXCEPT ![t] = r]
      BY <2>3, <3>1 DEF Emit
    <3> QED
      BY <1>8, <3>2, <3>3
  <2>4. CASE Reply(t)
    <3>1. Idle \in Task /\ Idle.pc = "idle"
      BY DEF Idle, Task
    <3> QED
      BY <1>8, <2>4, <3>1 DEF Reply
  <2> QED
    BY <1>10, <2>2, <2>3, <2>4
<1>11. ASSUME NEW t \in Tasks, SaveFail(t) \/ CacheFail(t) PROVE HandlerIds'
  <2>1. PICK r : r = [task[t] EXCEPT !.pc = "emit"]
    OBVIOUS
  <2>2. task[t] \in Task /\ task[t].key \in Keys /\ task[t].id = 0
    BY <1>0, <1>11 DEF SaveFail, CacheFail, Upsert, At, HandlerIds, IInv, ServerTypes
  <2>3. r \in Task /\ r.pc = "emit" /\ r.key = task[t].key /\ r.id = 0
    BY <2>1, <2>2 DEF Task
  <2>4. task' = [task EXCEPT ![t] = r] /\ task[t].key \in unsaved'
    BY <1>0, <1>11, <2>1 DEF SaveFail, CacheFail, NoDocument
  <2>5. [key |-> r.key, id |-> r.id] \in Fitting'
    BY <2>2, <2>3, <2>4 DEF Fitting, Event
  <2> QED
    BY <1>8, <2>3, <2>4, <2>5
<1>12. ASSUME NEW t \in Tasks, Save(t) PROVE HandlerIds'
  <2>1. PICK k : k = task[t].key
    OBVIOUS
  <2>2. PICK id : id = IF Stored(k) THEN Id(k) ELSE Len(stored) + 1
    OBVIOUS
  <2>3. PICK r : r = [task[t] EXCEPT !.pc = "emit", !.id = id, !.fresh = ~Stored(k)]
    OBVIOUS
  <2>4. k \in Keys /\ task[t] \in Task /\ Len(stored) \in Nat
    BY <1>0, <1>12, <2>1, LenProperties DEF Save, Upsert, At, IInv, ServerTypes
  <2>5. stored' = IF Stored(k) THEN stored ELSE Append(stored, k)
    BY <1>12, <2>1 DEF Save, Upsert
  <2>6. id \in 1..Len(stored)' /\ stored'[id] = k
    <3>1. CASE Stored(k)
      BY <2>2, <2>5, <3>1 DEF Stored, Id
    <3>2. CASE ~Stored(k)
      BY <1>0, <2>2, <2>4, <2>5, <3>2, AppendProperties
    <3> QED
      BY <3>1, <3>2
  <2>7. id \in Nat /\ id # 0
    BY <1>0, <2>2, <2>4 DEF Stored, Id
  <2>8. r \in Task /\ r.pc = "emit" /\ r.key = k /\ r.id = id
    <3>1. (~Stored(k)) \in BOOLEAN
      OBVIOUS
    <3> QED
      BY <2>1, <2>3, <2>4, <2>7, <3>1 DEF Task
  <2>9. [key |-> r.key, id |-> r.id] \in Fitting'
    BY <2>4, <2>6, <2>7, <2>8 DEF Fitting, Event
  <2>10. task' = [task EXCEPT ![t] = r]
    BY <1>12, <2>1, <2>2, <2>3 DEF Save
  <2> QED
    BY <1>8, <2>8, <2>9, <2>10
<1> QED
  BY <1>4, <1>5, <1>6, <1>7, <1>9, <1>10, <1>11, <1>12 DEF Next, Handle

(* The sequences of what fits.                                             *)
LEMMA SeqGrows ==
  ASSUME NEW S, NEW T, S \subseteq T
  PROVE  Seq(S) \subseteq Seq(T)
BY SeqMonotonic

-----------------------------------------------------------------------------
(* What the sender sees *)

(* An echo without an _id is of a message one of whose saves failed, and   *)
(* only such an echo leaves a bubble sent with its temp id.                *)
Honest == {p \in Packet : p.kind = "echo" /\ p.id = 0 => p.key \in unsaved}
SenderInv ==
  /\ Bubbles /\ toSender \in Seq(Honest)
  /\ \A k \in Keys : bubble[k] = "sentTemp" => k \in unsaved

LEMMA SenderKept ==
  IInv /\ HandlerIds /\ SenderInv /\ [Next]_vars => SenderInv'
<1> SUFFICES ASSUME IInv, HandlerIds, SenderInv, [Next]_vars PROVE SenderInv'
  OBVIOUS
<1>0. Bubbles /\ Bubbles' /\ unsaved \subseteq unsaved' /\ toSender \in Seq(Honest)
  BY BubblesKept, FittingGrows DEF SenderInv
<1>1. toSender \in Seq(Honest') /\ Seq(Honest) \subseteq Seq(Honest')
  <2>1. Honest \subseteq Honest'
    BY <1>0 DEF Honest
  <2> QED
    BY <1>0, <2>1, SeqGrows
<1>2. ASSUME \A k \in Keys : bubble'[k] = "sentTemp" => bubble[k] = "sentTemp",
             toSender' \in Seq(Honest')
      PROVE  SenderInv'
  BY <1>0, <1>2 DEF SenderInv
<1>3. CASE SenderReceives
  <2>1. Head(toSender) \in Honest /\ Tail(toSender) \in Seq(Honest)
    BY <1>0, <1>3, HeadTailProperties DEF SenderReceives
  <2>2. ASSUME NEW k \in Keys, bubble'[k] = "sentTemp" PROVE k \in unsaved
    <3>1. CASE bubble[k] = "sentTemp"
      BY <3>1 DEF SenderInv
    <3>2. CASE bubble[k] # "sentTemp"
      <4>1. bubble' = Settle(Head(toSender).key, "sentTemp") /\ Head(toSender).key = k
        BY <1>0, <1>3, <2>2, <3>2 DEF SenderReceives, Settle, Bubbles
      <4>2. Head(toSender).kind = "echo" /\ Head(toSender).id = 0
        BY <1>0, <1>3, <2>1, <2>2, <3>2, <4>1 DEF SenderReceives, Settle, Bubbles, Honest, Packet
      <4> QED
        BY <2>1, <4>1, <4>2 DEF Honest
    <3> QED
      BY <3>1, <3>2
  <2> QED
    BY <1>0, <1>1, <1>3, <2>1, <2>2 DEF SenderReceives, SenderInv
<1>4. ASSUME NEW k \in Keys, Send(k) \/ Timeout(k) \/ Retry(k) PROVE SenderInv'
  BY <1>0, <1>1, <1>2, <1>4 DEF Send, Timeout, Retry, link, Bubbles
<1>5. CASE OpenChat \/ SenderDrop \/ Crash \/ FetchApply
  BY <1>0, <1>1, <1>2, <1>5, EmptySeq DEF OpenChat, SenderDrop, Crash, FetchApply, Cut, link, view,
                                         Bubbles
<1>6. ASSUME UNCHANGED <<bubble, toSender>> PROVE SenderInv'
  BY <1>0, <1>1, <1>2, <1>6
<1>7. CASE FetchRead \/ SenderConnect \/ ReceiverStep \/ UNCHANGED vars
  BY <1>6, <1>7 DEF FetchRead, SenderConnect, ReceiverStep, SyncStep, Receive, ReceiverDrop,
                    ReceiverConnect, JoinRoom, SyncRead, SyncApply, SyncFail, view, link, vars
<1>8. ASSUME NEW t \in Tasks, Handle(t), ~Emit(t), ~Reply(t) PROVE SenderInv'
  BY <1>6, <1>8 DEF Handle, Accept, Reject, Save, SaveFail, CacheFail, NoDocument, view, link
<1>9. ASSUME NEW t \in Tasks, Emit(t) PROVE SenderInv'
  <2>1. PICK echo : echo = [kind |-> "echo", key |-> task[t].key, id |-> task[t].id]
    OBVIOUS
  <2>2. [key |-> task[t].key, id |-> task[t].id] \in Fitting
    BY <1>9 DEF Emit, At, HandlerIds
  <2>3. echo \in Honest
    BY <2>1, <2>2 DEF Fitting, Event, Honest, Packet
  <2>4. toSender' \in {toSender, Append(toSender, echo)} /\ UNCHANGED bubble
    BY <1>9, <2>1 DEF Emit, view
  <2> QED
    BY <1>0, <1>1, <1>2, <2>3, <2>4, AppendProperties
<1>10. ASSUME NEW t \in Tasks, Reply(t) PROVE SenderInv'
  <2>1. PICK answer : answer = [kind |-> IF task[t].ok THEN "ack" ELSE "nack", key |-> task[t].key, id |-> 0]
    OBVIOUS
  <2>2. answer \in Honest
    BY <1>10, <2>1 DEF Reply, At, IInv, ServerTypes, Honest, Packet
  <2>3. toSender' \in {toSender, Append(toSender, answer)} /\ UNCHANGED bubble
    BY <1>10, <2>1 DEF Reply, view
  <2> QED
    BY <1>0, <1>1, <1>2, <2>2, <2>3, AppendProperties
<1> QED
  BY <1>3, <1>4, <1>5, <1>7, <1>8, <1>9, <1>10 DEF Next, SenderStep

(* A bubble that shows its message as sent never falls back, whatever late *)
(* answers, timeouts and failures of other attempts still come, but for a  *)
(* failure that is answered to another attempt while the bubble has only   *)
(* heard of an event without an _id; then a save of the message failed.    *)
THEOREM SentBubblesStand == Spec => SentStands
<1> DEFINE Stands(k) ==
      /\ bubble[k] = "sent" => bubble'[k] \in {"sent", "gone"}
      /\ bubble[k] = "sentTemp" =>
           \/ bubble'[k] \in {"sentTemp", "sent", "gone"}
           \/ k \in unsaved /\ NackArrives(k) /\ bubble'[k] = "error"
<1>1. Init => HandlerIds /\ SenderInv
  BY EmptySeq DEF Init, HandlerIds, SenderInv, Bubbles, Bubble, Idle
<1>2. IInv /\ SenderInv /\ [Next]_vars => [\A k \in Keys : Stands(k)]_vars
  <2> SUFFICES ASSUME IInv, SenderInv, Next, NEW k \in Keys PROVE Stands(k)
    OBVIOUS
  <2>0. bubble \in [Keys -> Bubble] /\ toSender \in Seq(Honest)
    BY DEF SenderInv, Bubbles
  <2>1. CASE SenderReceives
    <3>1. Head(toSender) \in Packet /\ toSender # <<>>
      BY <2>0, <2>1, HeadTailProperties DEF SenderReceives, Honest
    <3>2. CASE Head(toSender).key # k
      BY <2>0, <2>1, <3>1, <3>2 DEF SenderReceives, Settle, Packet
    <3>3. CASE Head(toSender).key = k
      BY <2>0, <2>1, <3>1, <3>3 DEF SenderReceives, Settle, Temp, Packet, NackArrives, SenderInv
    <3> QED
      BY <3>2, <3>3
  <2>2. CASE ~SenderReceives
    BY <2>0, <2>2, OthersKeepBubbles
       DEF SenderStep, Send, Timeout, Retry, OpenChat, FetchRead, FetchApply, SenderDrop,
           SenderConnect, view
  <2> QED
    BY <2>1, <2>2
<1> QED
  BY <1>1, <1>2, Inductive, HandlerIdsKept, SenderKept, PTL DEF Spec, SentStands

-----------------------------------------------------------------------------
(* What the receiver sees *)

(* The types of the receiver's side, and what its bubbles are.             *)
Once(s) == \A m, n \in 1..Len(s) : s[m].id = s[n].id /\ s[m].id # 0 => m = n
ReceiverInv ==
  /\ inbox \in Seq(Fitting) /\ shown \in Seq(Fitting) /\ syncs \subseteq Sync /\ lastId \in Nat
  /\ \A q \in syncs : q.upto # None => q.upto <= Len(stored)
  /\ Once(shown)

(* A message gets no second bubble with its _id.                           *)
LEMMA ShowOnce ==
  ASSUME NEW E, NEW s \in Seq(E), Once(s), NEW e \in E
  PROVE  Show(s, e) \in Seq(E) /\ Once(Show(s, e))
<1>1. CASE e.id # 0 /\ Shows(s, e.id)
  BY <1>1 DEF Show
<1>2. CASE ~(e.id # 0 /\ Shows(s, e.id))
  <2> DEFINE r == Append(s, e)
  <2>1. /\ r \in Seq(E) /\ Len(r) = Len(s) + 1 /\ r[Len(s) + 1] = e
        /\ \A n \in 1..Len(s) : r[n] = s[n]
    BY AppendProperties
  <2>2. Show(s, e) = r /\ (e.id # 0 => \A n \in 1..Len(s) : s[n].id # e.id)
    BY <1>2 DEF Show, Shows
  <2>3. Len(s) \in Nat
    BY LenProperties
  <2> HIDE DEF r
  <2>4. \A n \in 1..Len(r) : (n \in 1..Len(s) /\ r[n] = s[n]) \/ (n = Len(s) + 1 /\ r[n] = e)
    BY <2>1, <2>3
  <2>5. ASSUME NEW m \in 1..Len(r), NEW n \in 1..Len(r), r[m].id = r[n].id, r[m].id # 0
        PROVE  m = n
    BY <2>2, <2>4, <2>5 DEF Once
  <2> QED
    BY <2>1, <2>2, <2>5 DEF Once
<1> QED
  BY <1>1, <1>2

(* A set of numbers has a smallest one.                                    *)
Below == {p \in Nat \X Nat : p[1] < p[2]}
LEMMA Smallest ==
  ASSUME NEW N \in SUBSET Nat, N # {}
  PROVE  \E m \in N : \A n \in N : m <= n
<1>1. IsWellFoundedOn(Below, Nat)
  BY NatLessThanWellFounded DEF OpToRel, Below
<1>2. \A m, n \in Nat : m < n => <<m, n>> \in Below
  BY DEF Below
<1>3. PICK m \in N : \A n \in N : <<n, m>> \notin Below
  BY <1>1, WFMin
<1>4. \A n \in N : n \in Nat /\ ~(n < m)
  BY <1>2, <1>3
<1> QED
  BY <1>4

(* What is shown after each message of a page, the first after the a-th.   *)
Shown(F, i, a, s) == IF i <= a THEN s ELSE Show(F[i - 1], [key |-> stored[i], id |-> i])
Pages(F, n, a, s) == F = [i \in 0..n |-> Shown(F, i, a, s)]

(* Each page can be handled.                                               *)
LEMMA PageHandled ==
  ASSUME NEW n \in Nat, NEW a \in Nat, NEW s
  PROVE  \E F : Pages(F, n, a, s)
<1> DEFINE N == {m \in Nat : ~\E F : Pages(F, m, a, s)}
<1> SUFFICES ASSUME N # {} PROVE FALSE
  OBVIOUS
<1>1. PICK m \in N : \A k \in N : m <= k
  BY Smallest
<1>2. CASE m = 0
  <2> DEFINE F == [i \in 0..0 |-> s]
  <2>1. F = [i \in 0..0 |-> Shown(F, i, a, s)]
    BY DEF Shown
  <2> QED
    BY <1>1, <1>2, <2>1 DEF Pages
<1>3. CASE m # 0
  <2>1. m \in Nat /\ m - 1 \in Nat /\ m - 1 \notin N
    BY <1>1, <1>3
  <2>2. PICK F : Pages(F, m - 1, a, s)
    BY <2>1
  <2> DEFINE G == [i \in 0..m |-> IF i < m THEN F[i] ELSE Shown(F, i, a, s)]
  <2>3. \A i \in 0..(m - 1) : F[i] = Shown(F, i, a, s)
    BY <2>2 DEF Pages
  <2>4. \A i \in 0..m : G[i] = Shown(F, i, a, s)
    BY <2>1, <2>3
  <2>5. ASSUME NEW i \in 0..m PROVE Shown(F, i, a, s) = Shown(G, i, a, s)
    <3>1. CASE i <= a
      BY <3>1 DEF Shown
    <3>2. CASE ~(i <= a)
      <4>1. i \in Nat /\ i # 0 /\ i - 1 \in 0..m /\ i - 1 < m
        BY <2>1, <3>2
      <4>2. G[i - 1] = F[i - 1]
        BY <4>1
      <4> QED
        BY <3>2, <4>2 DEF Shown
    <3> QED
      BY <3>1, <3>2
  <2>6. G = [i \in 0..m |-> Shown(G, i, a, s)]
    <3>1. \A i \in 0..m : G[i] = Shown(G, i, a, s)
      BY <2>4, <2>5
    <3>2. G = [i \in 0..m |-> G[i]]
      OBVIOUS
    <3> HIDE DEF G
    <3> QED
      BY <3>1, <3>2
  <2>7. Pages(G, m, a, s)
    BY <2>6 DEF Pages
  <2> QED
    BY <1>1, <2>7
<1> QED
  BY <1>2, <1>3

(* Handling a page gives no message a second bubble with its _id.          *)
LEMMA PageOnce ==
  ASSUME NEW E, NEW s \in Seq(E), Once(s), NEW n \in Nat, NEW a \in Nat, NEW F,
         Pages(F, n, a, s), \A i \in 1..n : i > a => [key |-> stored[i], id |-> i] \in E
  PROVE  F[n] \in Seq(E) /\ Once(F[n])
<1> DEFINE Good(i) == F[i] \in Seq(E) /\ Once(F[i])
           N == {m \in 0..n : ~Good(m)}
<1> SUFFICES ASSUME N # {} PROVE FALSE
  OBVIOUS
<1>1. N \in SUBSET Nat
  OBVIOUS
<1>2. PICK m \in N : \A k \in N : m <= k
  BY <1>1, Smallest
<1>3. F[m] = Shown(F, m, a, s) /\ m \in 0..n /\ ~Good(m)
  BY SMTT(30), <1>2 DEF Pages
<1>4. CASE m <= a
  BY <1>3, <1>4 DEF Shown
<1>5. CASE ~(m <= a)
  <2>1. m - 1 \in 0..n /\ m - 1 \notin N
    BY <1>2, <1>3, <1>5
  <2>2. Good(m - 1)
    BY <2>1
  <2>3. F[m] = Show(F[m - 1], [key |-> stored[m], id |-> m])
    BY <1>3, <1>5 DEF Shown
  <2>4. [key |-> stored[m], id |-> m] \in E
    BY <1>3, <1>5
  <2> QED
    BY <1>3, <2>2, <2>3, <2>4, ShowOnce
<1> QED
  BY <1>4, <1>5

(* Every step keeps what the receiver sees.                                *)
LEMMA ReceiverKept == IInv /\ HandlerIds /\ ReceiverInv /\ [Next]_vars => ReceiverInv'
<1> SUFFICES ASSUME IInv, HandlerIds, ReceiverInv, [Next]_vars PROVE ReceiverInv'
  OBVIOUS
<1>0. /\ inbox \in Seq(Fitting) /\ shown \in Seq(Fitting) /\ syncs \subseteq Sync /\ Once(shown)
      /\ lastId \in Nat /\ \A q \in syncs : q.upto # None => q.upto <= Len(stored)
  BY DEF ReceiverInv
<1>l. /\ Len(stored) \in Nat /\ Len(stored)' \in Nat /\ Len(stored) <= Len(stored)'
      /\ stored \in Seq(Keys)
  BY FittingGrows DEF IInv, ServerTypes
<1>g. Seq(Fitting) \subseteq Seq(Fitting')
  BY FittingGrows, SeqGrows
(* It is enough that a step keeps what the invariant says of this state.   *)
<1>k. ASSUME inbox' \in Seq(Fitting), shown' \in Seq(Fitting), syncs' \subseteq Sync, lastId' \in Nat,
             \A q \in syncs' : q \in syncs \/ (q.upto # None => q.upto <= Len(stored)),
             Once(shown)'
      PROVE  ReceiverInv'
  <2>1. \A q \in syncs' : q.upto # None => q.upto \in Nat /\ q.upto <= Len(stored)
    BY <1>0, <1>k DEF Sync
  <2>2. \A q \in syncs' : q.upto # None => q.upto <= Len(stored)'
    BY <1>l, <2>1
  <2> QED
    BY <1>g, <1>k, <2>2 DEF ReceiverInv
<1>o. UNCHANGED shown => Once(shown)'
  BY <1>0 DEF Once
<1>1. CASE UNCHANGED <<inbox, shown, syncs, lastId>>
  BY <1>0, <1>1, <1>k, <1>o
<1>2. ASSUME NEW t \in Tasks, Emit(t) PROVE ReceiverInv'
  <2>1. PICK e : e = [key |-> task[t].key, id |-> task[t].id]
    OBVIOUS
  <2>2. e \in Fitting
    BY <1>2, <2>1 DEF Emit, At, HandlerIds
  <2>3. inbox' \in {inbox, Append(inbox, e)} /\ UNCHANGED <<shown, syncs, lastId>>
    BY <1>2, <2>1 DEF Emit
  <2>4. Append(inbox, e) \in Seq(Fitting)
    BY <1>0, <2>2, AppendProperties
  <2> QED
    BY <1>0, <1>k, <1>o, <2>3, <2>4
<1>3. CASE Receive
  <2>1. Head(inbox) \in Fitting /\ Tail(inbox) \in Seq(Fitting)
    BY <1>0, <1>3, HeadTailProperties DEF Receive
  <2>2. Show(shown, Head(inbox)) \in Seq(Fitting) /\ Once(Show(shown, Head(inbox)))
    BY <1>0, <2>1, ShowOnce
  <2>3. Head(inbox).id \in Nat
    BY <2>1 DEF Fitting, Event
  <2>4. shown' = Show(shown, Head(inbox)) /\ inbox' = Tail(inbox) /\ UNCHANGED syncs
        /\ lastId' \in {lastId, Head(inbox).id}
    BY <1>3 DEF Receive
  <2>5. Once(shown)'
    BY <2>2, <2>4 DEF Once
  <2> QED
    BY <1>0, <1>k, <2>1, <2>2, <2>3, <2>4, <2>5
<1>4. CASE ReceiverDrop
  BY <1>0, <1>4, <1>k, <1>o, EmptySeq DEF ReceiverDrop
<1>5. CASE ReceiverConnect
  <2>1. [after |-> lastId, upto |-> None] \in Sync
    BY <1>0 DEF Sync
  <2> QED
    BY <1>0, <1>5, <1>k, <1>o, <2>1 DEF ReceiverConnect
<1>6. ASSUME NEW q \in syncs, SyncRead(q) PROVE ReceiverInv'
  <2>1. PICK end : end = IF Len(stored) < q.after + SyncLimit THEN Len(stored) ELSE q.after + SyncLimit
    OBVIOUS
  <2>2. q \in Sync /\ SyncLimit \in Nat
    BY <1>0, LimitAssumption
  <2>3. end \in Nat /\ end <= Len(stored)
    BY <1>l, <2>1, <2>2 DEF Sync
  <2>4. [q EXCEPT !.upto = end] \in Sync /\ [q EXCEPT !.upto = end].upto = end
    BY <2>2, <2>3 DEF Sync
  <2>5. syncs' = (syncs \ {q}) \cup {[q EXCEPT !.upto = end]} /\ UNCHANGED <<inbox, shown, lastId>>
    BY <1>6, <2>1 DEF SyncRead
  <2> QED
    BY <1>0, <1>k, <1>o, <2>3, <2>4, <2>5
<1>7. ASSUME NEW q \in syncs, SyncApply(q) PROVE ReceiverInv'
  <2>1. q.after \in Nat /\ q.upto \in Nat /\ q.upto <= Len(stored)
    BY <1>0, <1>7 DEF SyncApply, Sync
  <2> DEFINE show == CHOOSE F : Pages(F, q.upto, q.after, shown)
  <2>2. Pages(show, q.upto, q.after, shown)
    BY <2>1, PageHandled
  <2>3. ASSUME NEW i \in 1..q.upto PROVE [key |-> stored[i], id |-> i] \in Fitting
    <3>1. i \in 1..Len(stored) /\ i \in Nat /\ i # 0
      BY <1>l, <2>1
    <3>2. stored[i] \in Keys
      BY <1>l, <3>1, ElementOfSeq
    <3> QED
      BY <3>1, <3>2 DEF Fitting, Event
  <2>4. show[q.upto] \in Seq(Fitting) /\ Once(show[q.upto])
    BY <1>0, <2>1, <2>2, <2>3, PageOnce
  <2>5. shown' = show[q.upto]
    BY <1>7 DEF SyncApply, Pages, Shown
  <2>6. inbox' = inbox /\ syncs' \subseteq syncs /\ lastId' \in {lastId, q.upto}
    BY <1>7 DEF SyncApply
  <2> HIDE DEF show
  <2>7. Once(shown)'
    BY <2>4, <2>5 DEF Once
  <2> QED
    BY <1>0, <1>k, <2>1, <2>4, <2>5, <2>6, <2>7
<1>8. ASSUME NEW q \in syncs, SyncFail(q) PROVE ReceiverInv'
  BY <1>0, <1>8, <1>k, <1>o DEF SyncFail
<1>9. CASE SenderStep \/ Crash \/ JoinRoom \/ UNCHANGED vars
  <2>1. UNCHANGED <<inbox, shown, syncs, lastId>>
    BY <1>9 DEF SenderStep, Send, Timeout, Retry, SenderReceives, OpenChat, FetchRead, FetchApply,
                SenderDrop, SenderConnect, Crash, JoinRoom, vars, receiver
  <2> QED
    BY <1>1, <2>1
<1>10. ASSUME NEW t \in Tasks, Handle(t), ~Emit(t) PROVE ReceiverInv'
  <2>1. UNCHANGED <<inbox, shown, syncs, lastId>>
    BY <1>10 DEF Handle, Accept, Reject, Save, SaveFail, CacheFail, NoDocument, Reply, receiver
  <2> QED
    BY <1>1, <2>1
<1> QED
  BY <1>2, <1>3, <1>4, <1>5, <1>6, <1>7, <1>8, <1>9, <1>10 DEF Next, ReceiverStep, SyncStep

(* The receiver sees a message once, although retries send the event again *)
(* and live events and synced pages overlap, in whatever order they come   *)
(* (SocketProvider.jsx, handleUnifiedMessage); a second bubble takes an    *)
(* event without an _id, which a failed save of that message sent out.     *)
THEOREM ShownAtMostOnce == Spec => []ShownOnce
<1>1. Init => HandlerIds /\ ReceiverInv
  BY EmptySeq DEF Init, HandlerIds, ReceiverInv, Once, Idle
<1>2. IInv /\ ReceiverInv => ShownOnce
  <2> SUFFICES ASSUME IInv, ReceiverInv, NEW m \in 1..Len(shown), NEW n \in 1..Len(shown),
                      m # n, shown[m].key = shown[n].key
               PROVE  0 \in {shown[m].id, shown[n].id} /\ shown[m].key \in unsaved
    BY DEF ShownOnce
  <2>1. shown[m] \in Fitting /\ shown[n] \in Fitting
    BY ElementOfSeq DEF ReceiverInv
  <2>2. shown[m].id # 0 /\ shown[n].id # 0 => shown[m].id = shown[n].id
    BY <2>1 DEF Fitting, IInv, SavedOnce
  <2>3. 0 \in {shown[m].id, shown[n].id}
    BY <2>2 DEF ReceiverInv, Once
  <2> QED
    BY <2>1, <2>3 DEF Fitting
<1> QED
  BY <1>1, <1>2, Inductive, HandlerIdsKept, ReceiverKept, PTL DEF Spec

-----------------------------------------------------------------------------
(* The list of conversations.                                               *)

ReqType == [op : {"none", "page", "search"}, pc : {"idle", "up", "half", "down"}, live : BOOLEAN,
            from : L!Cursors, filter : L!Filters, term : BOOLEAN, page : L!PartialLists,
            next : L!Cursors, more : BOOLEAN, behind : SUBSET Convs]
ListTypes ==
  /\ row \in [Convs -> [at : L!Times, pinned : BOOLEAN]]
  /\ pending \in SUBSET [conv : Convs, at : L!Times] /\ events \in SUBSET [conv : Convs, at : L!Times]
  /\ clock \in L!Times /\ deleting \in SUBSET Convs
  /\ list \in L!PartialLists /\ cursor \in L!Cursors /\ more \in BOOLEAN /\ fetching \in BOOLEAN
  /\ filter \in L!Filters /\ term \in BOOLEAN /\ timer \in BOOLEAN
  /\ request \in [Slots -> ReqType]
  /\ found \in BOOLEAN /\ doubled \in BOOLEAN /\ overtaken \in SUBSET Convs

(* Partial lists, and what is made of them.                                 *)
LEMMA PartialList ==
  ASSUME NEW f \in L!PartialLists
  PROVE  DOMAIN f \in SUBSET Convs /\ \A c \in DOMAIN f : c \in Convs /\ f[c] \in L!Times
<1>1. PICK cs \in SUBSET Convs : f \in [cs -> L!Times]
  BY DEF L!PartialLists
<1> QED
  BY <1>1

(* A map of some conversations to times is a partial list.                  *)
LEMMA PartialOf ==
  ASSUME NEW cs \in SUBSET Convs, NEW f \in [cs -> L!Times]
  PROVE  f \in L!PartialLists
BY DEF L!PartialLists

(* The empty list is one.                                                   *)
LEMMA NothingListed == L!Nothing \in L!PartialLists /\ DOMAIN L!Nothing = {}
<1>1. L!Nothing \in [{} -> L!Times]
  BY DEF L!Nothing
<1> QED
  BY <1>1, PartialOf

(* A list laid over another has the rows of both, and its own where they    *)
(* meet.                                                                    *)
LEMMA OverListed ==
  ASSUME NEW f \in L!PartialLists, NEW g \in L!PartialLists
  PROVE  /\ L!Over(f, g) \in L!PartialLists /\ DOMAIN L!Over(f, g) = DOMAIN f \cup DOMAIN g
         /\ \A c \in DOMAIN f : L!Over(f, g)[c] = f[c]
         /\ \A c \in DOMAIN g \ DOMAIN f : L!Over(f, g)[c] = g[c]
<1> DEFINE cs == DOMAIN f \cup DOMAIN g
<1>1. /\ cs \in SUBSET Convs /\ \A c \in DOMAIN f : f[c] \in L!Times
      /\ \A c \in DOMAIN g : g[c] \in L!Times
  BY PartialList
<1>2. L!Over(f, g) = [c \in cs |-> IF c \in DOMAIN f THEN f[c] ELSE g[c]]
  BY DEF L!Over
<1>3. L!Over(f, g) \in [cs -> L!Times]
  BY <1>1, <1>2
<1>4. L!Over(f, g) \in L!PartialLists
  BY <1>1, <1>3, PartialOf
<1> QED
  BY <1>2, <1>4

(* A page of some rows shows the times that the rows have.                  *)
LEMMA PageListed ==
  ASSUME ListTypes, NEW cs \in SUBSET Convs
  PROVE  /\ L!Page(cs) \in L!PartialLists /\ DOMAIN L!Page(cs) = cs
         /\ \A c \in cs : L!Page(cs)[c] = row[c].at
<1>1. L!Page(cs) = [c \in cs |-> row[c].at]
  BY DEF L!Page
<1>2. L!Page(cs) \in [cs -> L!Times]
  BY <1>1 DEF ListTypes
<1> QED
  BY <1>1, <1>2, PartialOf

(* An event puts its conversation in the list under its own time.           *)
LEMMA ShownListed ==
  ASSUME ListTypes, NEW e \in [conv : Convs, at : L!Times]
  PROVE  /\ L!Shows(e) \in L!PartialLists /\ DOMAIN L!Shows(e) = DOMAIN list \cup {e.conv}
         /\ L!Shows(e)[e.conv] = e.at /\ \A c \in DOMAIN list \ {e.conv} : L!Shows(e)[c] = list[c]
<1> DEFINE cs == DOMAIN list \cup {e.conv}
<1>1. cs \in SUBSET Convs /\ \A c \in DOMAIN list : list[c] \in L!Times
  BY PartialList DEF ListTypes
<1>2. L!Shows(e) = [c \in cs |-> IF c = e.conv THEN e.at ELSE list[c]]
  BY DEF L!Shows
<1>3. L!Shows(e) \in [cs -> L!Times]
  BY <1>1, <1>2
<1>4. L!Shows(e) \in L!PartialLists
  BY <1>1, <1>3, PartialOf
<1> QED
  BY <1>2, <1>4

(* The numbers that the rows may hold.                                      *)
LEMMA ListTimes ==
  /\ Cardinality(Convs) \in Nat /\ MaxPosts \in Nat /\ \A T : L!Cardinality(T) = Cardinality(T)
  /\ L!Times = 0 .. (Cardinality(Convs) + MaxPosts)
<1>1. Cardinality(Convs) \in Nat /\ MaxPosts \in Nat
  BY ListAssumption, FS_CardinalityType
<1>2. \A T : L!Cardinality(T) = Cardinality(T)
  BY DEF L!Cardinality, Cardinality
<1> QED
  BY <1>1, <1>2 DEF L!Times

(* A slot at rest, and one that has just been sent.                         *)
LEMMA IdleRequest ==
  /\ L!Idle \in ReqType /\ L!Idle.op = "none" /\ L!Idle.pc = "idle" /\ L!Idle.live = FALSE
  /\ DOMAIN L!Idle.page = {} /\ L!Idle.behind = {} /\ L!Idle.more = FALSE /\ L!Idle.next = L!Top
<1>1. L!Nothing \in L!PartialLists /\ DOMAIN L!Nothing = {}
  BY NothingListed
<1>2. L!Top \in L!Cursors /\ "all" \in L!Filters
  BY DEF L!Cursors, L!Filters
<1> HIDE DEF L!Nothing, L!Top
<1> QED
  BY <1>1, <1>2 DEF L!Idle, ReqType

SentOut(r, op, from, kind, typed) ==
  /\ request'[r].op = op /\ request'[r].pc = "up" /\ request'[r].live = TRUE
  /\ request'[r].from = from /\ request'[r].filter = kind /\ request'[r].term = typed
  /\ DOMAIN request'[r].page = {} /\ request'[r].behind = {}
SentFrom(base, op, from, kind, typed) ==
  /\ request' \in [Slots -> ReqType] /\ fetching' = TRUE
  /\ \E r \in Slots : /\ base[r].pc = "idle" /\ SentOut(r, op, from, kind, typed)
                      /\ \A s \in Slots \ {r} : request'[s] = base[s]
(* What is sent goes out in one slot, that was idle.                        *)
LEMMA SendingOut ==
  ASSUME NEW base \in [Slots -> ReqType], NEW op \in {"page", "search"}, NEW from \in L!Cursors,
         NEW kind \in L!Filters, NEW typed \in BOOLEAN, L!Sends(base, op, from, kind, typed)
  PROVE  SentFrom(base, op, from, kind, typed)
<1> DEFINE q == [L!Idle EXCEPT !.op = op, !.pc = "up", !.live = TRUE, !.from = from,
                               !.filter = kind, !.term = typed]
<1>1. PICK r \in Slots : base[r].pc = "idle" /\ request' = [base EXCEPT ![r] = q]
  BY DEF L!Sends
<1>2. /\ q.op = op /\ q.pc = "up" /\ q.live = TRUE /\ q.from = from /\ q.filter = kind /\ q.term = typed
      /\ DOMAIN q.page = {} /\ q.behind = {} /\ q \in ReqType
  <2>1. /\ L!Idle \in ReqType /\ DOMAIN L!Idle.page = {} /\ L!Idle.behind = {}
    BY IdleRequest
  <2> HIDE DEF L!Idle
  <2> QED
    BY <2>1 DEF ReqType
<1> HIDE DEF q
<1>3. request'[r] = q /\ request' \in [Slots -> ReqType] /\ \A s \in Slots \ {r} : request'[s] = base[s]
  BY <1>1, <1>2
<1>4. fetching' = TRUE
  BY DEF L!Sends
<1> QED
  BY <1>1, <1>2, <1>3, <1>4 DEF SentOut, SentFrom

(* Requests that are aborted and superseded.                                *)
CutOff(q, p) ==
  /\ q.op = p.op /\ q.pc = p.pc /\ q.live = FALSE /\ q.from = p.from /\ q.filter = p.filter /\ q.term = p.term
  /\ q.page = p.page /\ q.next = p.next /\ q.more = p.more /\ q.behind = p.behind
(* An abort cuts the pages that are under way, and no search.               *)
LEMMA Aborting ==
  ASSUME ListTypes
  PROVE  /\ L!Aborted \in [Slots -> ReqType]
         /\ \A r \in Slots : IF request[r].op = "page" THEN CutOff(L!Aborted[r], request[r])
                             ELSE L!Aborted[r] = request[r]
<1>1. request \in [Slots -> ReqType]
  BY DEF ListTypes
<1>2. ASSUME NEW p \in ReqType
      PROVE  [p EXCEPT !.live = FALSE] \in ReqType /\ CutOff([p EXCEPT !.live = FALSE], p)
  BY DEF ReqType, CutOff
<1>3. L!Aborted = [r \in Slots |-> IF request[r].op = "page" THEN [request[r] EXCEPT !.live = FALSE]
                                   ELSE request[r]]
  BY DEF L!Aborted
<1> QED
  BY <1>1, <1>2, <1>3

(* A new search takes the place of every earlier one.                       *)
LEMMA Superseding ==
  ASSUME NEW base \in [Slots -> ReqType]
  PROVE  /\ L!Superseded(base) \in [Slots -> ReqType]
         /\ \A r \in Slots : L!Superseded(base)[r] = IF base[r].op = "search" THEN L!Idle ELSE base[r]
<1>1. L!Superseded(base) = [r \in Slots |-> IF base[r].op = "search" THEN L!Idle ELSE base[r]]
  BY DEF L!Superseded
<1>2. L!Idle \in ReqType
  BY IdleRequest
<1> HIDE DEF L!Idle
<1> QED
  BY <1>1, <1>2

(* What becomes of the other slots when a request is sent.                  *)
Rested(s) ==
  \/ request'[s] = L!Idle
  \/ request[s].op = "page" /\ CutOff(request'[s], request[s])
  \/ request[s].op = "none" /\ request'[s] = request[s]

(* The top of the list is a cursor.                                         *)
LEMMA CursorTop == L!Top \in L!Cursors
BY DEF L!Cursors

(* The user's part: what changes, and what stays.                           *)
LEMMA Filters ==
  ASSUME ListTypes, NEW kind \in L!Filters, L!SetFilter(kind)
  PROVE  /\ ListTypes' /\ UNCHANGED <<row, pending, events, clock, deleting, term>>
         /\ DOMAIN list' = {} /\ cursor' = L!Top /\ more' = TRUE /\ filter' = kind /\ timer' = FALSE
         /\ found' = FALSE /\ doubled' = FALSE /\ overtaken' = {}
         /\ \E r \in Slots : /\ SentOut(r, IF term THEN "search" ELSE "page", L!Top, kind, term)
                             /\ \A s \in Slots \ {r} : Rested(s)
<1>1. /\ row' = row /\ pending' = pending /\ events' = events /\ clock' = clock /\ deleting' = deleting
      /\ term' = term /\ list' = L!Nothing /\ cursor' = L!Top /\ more' = TRUE /\ filter' = kind /\ timer' = FALSE
      /\ found' = FALSE /\ doubled' = FALSE /\ overtaken' = {}
  BY DEF L!SetFilter, L!Acts, L!server
<1>2. /\ L!Aborted \in [Slots -> ReqType]
      /\ \A r \in Slots : IF request[r].op = "page" THEN CutOff(L!Aborted[r], request[r])
                          ELSE L!Aborted[r] = request[r]
  BY Aborting
<1> DEFINE base == L!Superseded(L!Aborted)
<1>3. /\ base \in [Slots -> ReqType]
      /\ \A r \in Slots : base[r] = IF L!Aborted[r].op = "search" THEN L!Idle ELSE L!Aborted[r]
  BY <1>2, Superseding
<1>4. \A r \in Slots : request[r].op \in {"none", "page", "search"}
  BY DEF ListTypes, ReqType
<1>5. /\ request' \in [Slots -> ReqType] /\ fetching' = TRUE
      /\ \E r \in Slots : /\ SentOut(r, IF term THEN "search" ELSE "page", L!Top, kind, term)
                          /\ \A s \in Slots \ {r} : request'[s] = base[s]
  <2>1. term \in BOOLEAN
    BY DEF ListTypes
  <2>2. L!Sends(base, IF term THEN "search" ELSE "page", L!Top, kind, term)
    BY DEF L!SetFilter
  <2> DEFINE op == IF term THEN "search" ELSE "page"
  <2>3. op \in {"page", "search"} /\ L!Sends(base, op, L!Top, kind, term)
    BY <2>2
  <2> HIDE DEF base, op
  <2>4. SentFrom(base, op, L!Top, kind, term)
    BY <1>3, <2>1, <2>3, CursorTop, SendingOut
  <2> QED
    BY <2>4 DEF SentFrom, op
<1> HIDE DEF base
<1>6. PICK r \in Slots : /\ SentOut(r, IF term THEN "search" ELSE "page", L!Top, kind, term)
                         /\ \A s \in Slots \ {r} : request'[s] = base[s]
  BY <1>5
<1>7. \A s \in Slots \ {r} : Rested(s)
  BY <1>2, <1>3, <1>4, <1>6 DEF Rested, CutOff
<1>8. L!Nothing \in L!PartialLists /\ DOMAIN L!Nothing = {}
  BY NothingListed
<1>9. ListTypes'
  BY <1>1, <1>5, <1>8, CursorTop DEF ListTypes
<1> QED
  BY <1>1, <1>6, <1>7, <1>8, <1>9

(* Clearing the term: the list starts again from a first page, and nothing  *)
(* else is under way.                                                       *)
LEMMA Clears ==
  ASSUME ListTypes, L!ClearTerm
  PROVE  /\ ListTypes' /\ UNCHANGED <<row, pending, events, clock, deleting, filter>>
         /\ term /\ term' = FALSE
         /\ DOMAIN list' = {} /\ cursor' = L!Top /\ more' = TRUE /\ timer' = FALSE
         /\ found' = FALSE /\ doubled' = FALSE /\ overtaken' = {}
         /\ \E r \in Slots : /\ SentOut(r, "page", L!Top, filter, FALSE)
                             /\ \A s \in Slots \ {r} : Rested(s)
<1>1. /\ row' = row /\ pending' = pending /\ events' = events /\ clock' = clock /\ deleting' = deleting
      /\ filter' = filter /\ list' = L!Nothing /\ cursor' = L!Top /\ more' = TRUE /\ timer' = FALSE
      /\ term /\ term' = FALSE /\ found' = FALSE /\ doubled' = FALSE /\ overtaken' = {}
  BY DEF L!ClearTerm, L!Acts, L!server
<1>2. /\ L!Aborted \in [Slots -> ReqType]
      /\ \A r \in Slots : IF request[r].op = "page" THEN CutOff(L!Aborted[r], request[r])
                          ELSE L!Aborted[r] = request[r]
  BY Aborting
<1> DEFINE base == L!Superseded(L!Aborted)
<1>3. /\ base \in [Slots -> ReqType]
      /\ \A r \in Slots : base[r] = IF L!Aborted[r].op = "search" THEN L!Idle ELSE L!Aborted[r]
  BY <1>2, Superseding
<1>4. \A r \in Slots : request[r].op \in {"none", "page", "search"}
  BY DEF ListTypes, ReqType
<1>5. /\ request' \in [Slots -> ReqType] /\ fetching' = TRUE
      /\ \E r \in Slots : /\ SentOut(r, "page", L!Top, filter, FALSE)
                          /\ \A s \in Slots \ {r} : request'[s] = base[s]
  <2>1. PICK typed \in BOOLEAN : typed = FALSE
    OBVIOUS
  <2>2. L!Sends(base, "page", L!Top, filter, typed) /\ filter \in L!Filters
    BY <2>1 DEF L!ClearTerm, ListTypes
  <2>3. PICK op \in {"page", "search"} : op = "page"
    OBVIOUS
  <2> HIDE DEF base
  <2>4. L!Sends(base, op, L!Top, filter, typed)
    BY <2>2, <2>3
  <2>5. SentFrom(base, op, L!Top, filter, typed)
    BY <1>3, <2>2, <2>4, CursorTop, SendingOut
  <2> QED
    BY <2>1, <2>3, <2>5 DEF SentFrom
<1> HIDE DEF base
<1>6. PICK r \in Slots : /\ SentOut(r, "page", L!Top, filter, FALSE)
                         /\ \A s \in Slots \ {r} : request'[s] = base[s]
  BY <1>5
<1>7. \A s \in Slots \ {r} : Rested(s)
  BY <1>2, <1>3, <1>4, <1>6 DEF Rested, CutOff
<1>8. L!Nothing \in L!PartialLists /\ DOMAIN L!Nothing = {}
  BY NothingListed
<1>9. ListTypes'
  BY <1>1, <1>5, <1>8, CursorTop DEF ListTypes
<1> QED
  BY <1>1, <1>6, <1>7, <1>8, <1>9

(* Typing: the timer starts and the searches under way are dropped.         *)
LEMMA TypesTerm ==
  ASSUME ListTypes, L!Type
  PROVE  /\ ListTypes'
         /\ UNCHANGED <<row, pending, events, clock, deleting, list, cursor, more, filter, doubled, overtaken>>
         /\ term' = TRUE /\ timer' = TRUE /\ found' = FALSE
         /\ \A s \in Slots : request'[s] = IF request[s].op = "search" THEN L!Idle ELSE request[s]
<1>1. /\ row' = row /\ pending' = pending /\ events' = events /\ clock' = clock /\ deleting' = deleting
      /\ list' = list /\ cursor' = cursor /\ more' = more /\ filter' = filter /\ fetching' = fetching
      /\ doubled' = doubled /\ overtaken' = overtaken /\ term' = TRUE /\ timer' = TRUE /\ found' = FALSE
      /\ request' = L!Superseded(request)
  BY DEF L!Type, L!Acts, L!server
<1>2. request \in [Slots -> ReqType]
  BY DEF ListTypes
<1>3. /\ L!Superseded(request) \in [Slots -> ReqType]
      /\ \A r \in Slots : L!Superseded(request)[r] = IF request[r].op = "search" THEN L!Idle ELSE request[r]
  BY <1>2, Superseding
<1>4. ListTypes'
  BY <1>1, <1>3 DEF ListTypes
<1> QED
  BY <1>1, <1>3, <1>4

(* The timer runs out: one search goes out in place of the others.          *)
LEMMA Debounces ==
  ASSUME ListTypes, L!Debounced
  PROVE  /\ ListTypes'
         /\ UNCHANGED <<row, pending, events, clock, deleting, list, cursor, more, filter, term,
                        found, doubled, overtaken>>
         /\ timer /\ timer' = FALSE
         /\ \E r \in Slots : /\ SentOut(r, "search", L!Top, filter, TRUE)
                             /\ \A s \in Slots \ {r} :
                                  request'[s] = IF request[s].op = "search" THEN L!Idle ELSE request[s]
                             /\ request[r].pc = "idle" \/ request[r].op = "search"
<1>1. /\ row' = row /\ pending' = pending /\ events' = events /\ clock' = clock /\ deleting' = deleting
      /\ list' = list /\ cursor' = cursor /\ more' = more /\ filter' = filter /\ term' = term
      /\ found' = found /\ doubled' = doubled /\ overtaken' = overtaken /\ timer /\ timer' = FALSE
  BY DEF L!Debounced, L!server, L!history
<1> DEFINE base == L!Superseded(request)
<1>2. /\ base \in [Slots -> ReqType]
      /\ \A r \in Slots : base[r] = IF request[r].op = "search" THEN L!Idle ELSE request[r]
  BY Superseding DEF ListTypes
<1>3. /\ request' \in [Slots -> ReqType] /\ fetching' = TRUE
      /\ \E r \in Slots : /\ base[r].pc = "idle" /\ SentOut(r, "search", L!Top, filter, TRUE)
                          /\ \A s \in Slots \ {r} : request'[s] = base[s]
  <2>1. PICK typed \in BOOLEAN : typed = TRUE
    OBVIOUS
  <2>2. L!Sends(base, "search", L!Top, filter, typed) /\ filter \in L!Filters
    BY <2>1 DEF L!Debounced, ListTypes
  <2>3. PICK op \in {"page", "search"} : op = "search"
    OBVIOUS
  <2> HIDE DEF base
  <2>4. L!Sends(base, op, L!Top, filter, typed)
    BY <2>2, <2>3
  <2>5. SentFrom(base, op, L!Top, filter, typed)
    BY <1>2, <2>2, <2>4, CursorTop, SendingOut
  <2> QED
    BY <2>1, <2>3, <2>5 DEF SentFrom
<1> HIDE DEF base
<1>4. ListTypes'
  BY <1>1, <1>3 DEF ListTypes
<1> QED
  BY <1>1, <1>2, <1>3, <1>4

(* The next page is asked for in an idle slot, and a second page at a time  *)
(* is remembered.                                                           *)
LEMMA LoadsMore ==
  ASSUME ListTypes, L!LoadMore
  PROVE  /\ ListTypes'
         /\ UNCHANGED <<row, pending, events, clock, deleting, list, cursor, more, filter, term, timer,
                        found, overtaken>>
         /\ ~doubled' => ~doubled /\ \A s \in Slots : request[s].op = "page" => ~request[s].live
         /\ \E r \in Slots : /\ SentOut(r, "page", cursor, filter, term) /\ request[r].pc = "idle"
                             /\ \A s \in Slots \ {r} : request'[s] = request[s]
<1>1. /\ row' = row /\ pending' = pending /\ events' = events /\ clock' = clock /\ deleting' = deleting
      /\ list' = list /\ cursor' = cursor /\ more' = more /\ filter' = filter /\ term' = term
      /\ timer' = timer /\ found' = found /\ overtaken' = overtaken
      /\ doubled' = (doubled \/ \E s \in Slots : request[s].op = "page" /\ request[s].live)
  BY DEF L!LoadMore, L!Acts, L!server
<1>2. /\ request' \in [Slots -> ReqType] /\ fetching' = TRUE
      /\ \E r \in Slots : /\ request[r].pc = "idle" /\ SentOut(r, "page", cursor, filter, term)
                          /\ \A s \in Slots \ {r} : request'[s] = request[s]
  <2>1. /\ L!Sends(request, "page", cursor, filter, term) /\ filter \in L!Filters /\ term \in BOOLEAN
        /\ cursor \in L!Cursors /\ request \in [Slots -> ReqType]
    BY DEF L!LoadMore, ListTypes
  <2>2. PICK op \in {"page", "search"} : op = "page"
    OBVIOUS
  <2>3. L!Sends(request, op, cursor, filter, term)
    BY <2>1, <2>2
  <2>4. SentFrom(request, op, cursor, filter, term)
    BY <2>1, <2>3, SendingOut
  <2> QED
    BY <2>2, <2>4 DEF SentFrom
<1>3. doubled' \in BOOLEAN
  BY <1>1
<1>4. ListTypes'
  BY <1>1, <1>2, <1>3 DEF ListTypes
<1> QED
  BY <1>1, <1>2, <1>4

(* The server deletes a history: the row goes back to no message and no     *)
(* pin.                                                                     *)
LEMMA Deletes ==
  ASSUME ListTypes, NEW c \in Convs, L!DeleteHistory(c)
  PROVE  /\ ListTypes'
         /\ UNCHANGED <<events, clock, list, cursor, more, filter, term, timer, request, found, doubled, overtaken>>
         /\ row'[c].at = 0 /\ row'[c].pinned = FALSE /\ \A d \in Convs \ {c} : row'[d] = row[d]
         /\ pending' = {m \in pending : m.conv # c}
<1>1. /\ events' = events /\ clock' = clock /\ deleting' = deleting \cup {c}
      /\ list' = list /\ cursor' = cursor /\ more' = more /\ filter' = filter /\ term' = term /\ fetching' = fetching
      /\ timer' = timer /\ request' = request /\ found' = found /\ doubled' = doubled /\ overtaken' = overtaken
      /\ row' = [row EXCEPT ![c] = [at |-> 0, pinned |-> FALSE]] /\ pending' = {m \in pending : m.conv # c}
  BY DEF L!DeleteHistory, L!Acts, L!history
<1>2. 0 \in L!Times
  BY ListTimes
<1>3. /\ row' \in [Convs -> [at : L!Times, pinned : BOOLEAN]]
      /\ row'[c].at = 0 /\ row'[c].pinned = FALSE /\ \A d \in Convs \ {c} : row'[d] = row[d]
  BY <1>1, <1>2 DEF ListTypes
<1>4. ListTypes'
  BY <1>1, <1>3 DEF ListTypes
<1> QED
  BY <1>1, <1>3, <1>4

(* The page hears of it: the list is loaded again from its first page.      *)
LEMMA Deleted ==
  ASSUME ListTypes, NEW c \in Convs, L!HistoryDeleted(c)
  PROVE  /\ ListTypes' /\ UNCHANGED <<row, pending, events, clock, more, filter, term, timer, found>>
         /\ DOMAIN list' = DOMAIN list /\ \A d \in DOMAIN list \ {c} : list'[d] = list[d]
         /\ cursor' = L!Top /\ doubled' = FALSE
         /\ overtaken' = IF doubled THEN Convs ELSE overtaken \cup {c}
         /\ \E r \in Slots : /\ SentOut(r, "page", L!Top, filter, term)
                             /\ request[r].pc = "idle" \/ request[r].op = "page"
                             /\ \A s \in Slots \ {r} : Rested(s) \/ (request[s].op = "search" /\ request'[s] = request[s])
<1>1. /\ row' = row /\ pending' = pending /\ events' = events /\ clock' = clock /\ more' = more
      /\ filter' = filter /\ term' = term /\ timer' = timer /\ found' = found /\ deleting' = deleting \ {c}
      /\ cursor' = L!Top /\ doubled' = FALSE /\ overtaken' = IF doubled THEN Convs ELSE overtaken \cup {c}
      /\ list' = [d \in DOMAIN list |-> IF d = c THEN 0 ELSE list[d]]
  BY DEF L!HistoryDeleted
<1>2. /\ L!Aborted \in [Slots -> ReqType]
      /\ \A r \in Slots : IF request[r].op = "page" THEN CutOff(L!Aborted[r], request[r])
                          ELSE L!Aborted[r] = request[r]
  BY Aborting
<1>3. \A r \in Slots : request[r].op \in {"none", "page", "search"}
  BY DEF ListTypes, ReqType
<1>4. /\ request' \in [Slots -> ReqType] /\ fetching' = TRUE
      /\ \E r \in Slots : /\ L!Aborted[r].pc = "idle" /\ SentOut(r, "page", L!Top, filter, term)
                          /\ \A s \in Slots \ {r} : request'[s] = L!Aborted[s]
  <2>1. /\ L!Sends(L!Aborted, "page", L!Top, filter, term) /\ filter \in L!Filters /\ term \in BOOLEAN
    BY DEF L!HistoryDeleted, ListTypes
  <2>2. PICK op \in {"page", "search"} : op = "page"
    OBVIOUS
  <2>3. L!Sends(L!Aborted, op, L!Top, filter, term)
    BY <2>1, <2>2
  <2>4. SentFrom(L!Aborted, op, L!Top, filter, term)
    BY <1>2, <2>1, <2>3, CursorTop, SendingOut
  <2> QED
    BY <2>2, <2>4 DEF SentFrom
<1>5. PICK r \in Slots : /\ L!Aborted[r].pc = "idle" /\ SentOut(r, "page", L!Top, filter, term)
                         /\ \A s \in Slots \ {r} : request'[s] = L!Aborted[s]
  BY <1>4
<1>6. ASSUME NEW s \in Slots \ {r} PROVE Rested(s) \/ (request[s].op = "search" /\ request'[s] = request[s])
  <2>1. request'[s] = L!Aborted[s]
    BY <1>5
  <2>2. CASE request[s].op = "page"
    <3>1. CutOff(request'[s], request[s])
      BY <1>2, <2>1, <2>2
    <3>2. Rested(s)
      BY <2>2, <3>1, Zenon DEF Rested
    <3> QED
      BY <3>2
  <2>3. CASE request[s].op # "page"
    BY <1>2, <1>3, <2>1, <2>3 DEF Rested
  <2> QED
    BY <2>2, <2>3
<1>7. list' \in L!PartialLists
  <2>1. DOMAIN list \in SUBSET Convs /\ \A d \in DOMAIN list : list[d] \in L!Times
    BY PartialList DEF ListTypes
  <2>2. 0 \in L!Times
    BY ListTimes
  <2>3. list' \in [DOMAIN list -> L!Times]
    BY <1>1, <2>1, <2>2
  <2> QED
    BY <2>1, <2>3, PartialOf
<1>8. overtaken' \in SUBSET Convs /\ deleting' \in SUBSET Convs
  BY <1>1 DEF ListTypes
<1>9. ListTypes'
  BY <1>1, <1>4, <1>7, <1>8, CursorTop DEF ListTypes
<1>10. request[r].pc = "idle" \/ request[r].op = "page"
  BY <1>2, <1>5
<1> QED
  BY <1>1, <1>5, <1>6, <1>9, <1>10

(* The server's part, and what the page hears.                              *)
LEMMA Posts ==
  ASSUME ListTypes, NEW c \in Convs, L!Post(c)
  PROVE  /\ ListTypes'
         /\ UNCHANGED <<row, list, cursor, more, filter, term, timer, request, found, doubled, overtaken>>
         /\ clock' = clock + 1
         /\ \E m \in [conv : Convs, at : L!Times] :
              m.conv = c /\ m.at = clock + 1 /\ events' = events \cup {m} /\ pending' = pending \cup {m}
<1>1. /\ row' = row /\ deleting' = deleting /\ list' = list /\ cursor' = cursor /\ more' = more
      /\ filter' = filter /\ term' = term /\ fetching' = fetching /\ timer' = timer /\ request' = request
      /\ found' = found /\ doubled' = doubled /\ overtaken' = overtaken
      /\ clock' = clock + 1 /\ clock < L!Cardinality(Convs) + MaxPosts
      /\ events' = events \cup {[conv |-> c, at |-> clock']}
      /\ pending' = pending \cup {[conv |-> c, at |-> clock']}
  BY DEF L!Post, L!PageOnly, L!history
<1>2. clock' \in L!Times
  BY <1>1, ListTimes DEF ListTypes
<1> DEFINE m == [conv |-> c, at |-> clock']
<1>3. m \in [conv : Convs, at : L!Times] /\ m.conv = c /\ m.at = clock + 1
  BY <1>1, <1>2
<1>4. events' = events \cup {m} /\ pending' = pending \cup {m}
  BY <1>1
<1> HIDE DEF m
<1>5. ListTypes'
  BY <1>1, <1>2, <1>3, <1>4 DEF ListTypes
<1> QED
  BY <1>1, <1>3, <1>4, <1>5

(* The server writes the first of the messages it still owes a row.         *)
LEMMA Writes ==
  ASSUME ListTypes, L!WriteRow
  PROVE  /\ ListTypes'
         /\ UNCHANGED <<events, clock, list, cursor, more, filter, term, timer, request, found, doubled, overtaken>>
         /\ \E m \in pending : /\ m \in [conv : Convs, at : L!Times] /\ L!First(m, pending)
                               /\ pending' = pending \ {m} /\ row'[m.conv].at = m.at
                               /\ \A c \in Convs : row'[c].pinned = row[c].pinned
                               /\ \A c \in Convs \ {m.conv} : row'[c].at = row[c].at
<1>1. /\ deleting' = deleting /\ list' = list /\ cursor' = cursor /\ more' = more /\ clock' = clock
      /\ filter' = filter /\ term' = term /\ fetching' = fetching /\ timer' = timer /\ request' = request
      /\ found' = found /\ doubled' = doubled /\ overtaken' = overtaken /\ events' = events
  BY DEF L!WriteRow, L!PageOnly, L!history
<1>2. PICK m \in pending : /\ L!First(m, pending) /\ pending' = pending \ {m}
                           /\ row' = [row EXCEPT ![m.conv].at = m.at]
  BY DEF L!WriteRow
<1>3. m \in [conv : Convs, at : L!Times]
  BY DEF ListTypes
<1>4. /\ row' \in [Convs -> [at : L!Times, pinned : BOOLEAN]] /\ row'[m.conv].at = m.at
      /\ \A c \in Convs : row'[c].pinned = row[c].pinned
      /\ \A c \in Convs \ {m.conv} : row'[c].at = row[c].at
  BY <1>2, <1>3 DEF ListTypes
<1>5. ListTypes'
  BY <1>1, <1>2, <1>4 DEF ListTypes
<1> QED
  BY <1>1, <1>2, <1>3, <1>4, <1>5

(* A slot whose request has heard of more.                                  *)
Marked(q, p) ==
  /\ q.op = p.op /\ q.pc = p.pc /\ q.live = p.live /\ q.from = p.from /\ q.filter = p.filter /\ q.term = p.term
  /\ q.page = p.page /\ q.next = p.next /\ q.more = p.more /\ p.behind \subseteq q.behind
(* A request that is told of a conversation differs in this only.           *)
LEMMA Marking ==
  ASSUME NEW p \in ReqType, NEW c \in Convs
  PROVE  LET q == [p EXCEPT !.behind = @ \cup {c}] IN q \in ReqType /\ Marked(q, p) /\ c \in q.behind
<1> DEFINE q == [p EXCEPT !.behind = @ \cup {c}]
<1>1. q \in ReqType
  BY DEF ReqType
<1>2. Marked(q, p) /\ c \in q.behind
  BY DEF ReqType, Marked
<1> QED
  BY <1>1, <1>2

(* A pin: requests that have read without this conversation are behind on   *)
(* it.                                                                      *)
LEMMA Pins ==
  ASSUME ListTypes, NEW c \in Convs, L!Pin(c)
  PROVE  /\ ListTypes'
         /\ UNCHANGED <<pending, events, clock, list, cursor, more, filter, term, timer, found, doubled>>
         /\ \A d \in Convs : row'[d].at = row[d].at
         /\ \A d \in Convs \ {c} : row'[d] = row[d]
         /\ \A r \in Slots : /\ Marked(request'[r], request[r])
                             /\ request'[r] = request[r] \/ request[r].pc \in {"half", "down"}
                             /\ request[r].pc \in {"half", "down"} /\ c \notin DOMAIN request[r].page
                                  => c \in request'[r].behind
         /\ overtaken' = IF c \in DOMAIN list THEN overtaken ELSE overtaken \cup {c}
<1>1. /\ pending' = pending /\ events' = events /\ clock' = clock /\ deleting' = deleting /\ list' = list
      /\ cursor' = cursor /\ more' = more /\ fetching' = fetching /\ filter' = filter /\ term' = term
      /\ timer' = timer /\ found' = found /\ doubled' = doubled
      /\ overtaken' = IF c \in DOMAIN list THEN overtaken ELSE overtaken \cup {c}
      /\ row' = [row EXCEPT ![c].pinned = ~@]
      /\ request' = [r \in Slots |->
           IF request[r].pc \in {"half", "down"} /\ c \notin DOMAIN request[r].page
           THEN [request[r] EXCEPT !.behind = @ \cup {c}] ELSE request[r]]
  BY DEF L!Pin, L!Acts, L!PageOnly
<1>2. /\ row' \in [Convs -> [at : L!Times, pinned : BOOLEAN]]
      /\ \A d \in Convs : row'[d].at = row[d].at
      /\ \A d \in Convs \ {c} : row'[d] = row[d]
  BY <1>1 DEF ListTypes
<1>3. request \in [Slots -> ReqType]
  BY DEF ListTypes
<1>4. ASSUME NEW r \in Slots
      PROVE  /\ request'[r] \in ReqType /\ Marked(request'[r], request[r])
             /\ request'[r] = request[r] \/ request[r].pc \in {"half", "down"}
             /\ request[r].pc \in {"half", "down"} /\ c \notin DOMAIN request[r].page
                  => c \in request'[r].behind
  <2>1. CASE request[r].pc \in {"half", "down"} /\ c \notin DOMAIN request[r].page
    <3>1. request'[r] = [request[r] EXCEPT !.behind = @ \cup {c}] /\ request[r] \in ReqType
      BY <1>1, <1>3, <2>1
    <3>2. request'[r] \in ReqType /\ Marked(request'[r], request[r]) /\ c \in request'[r].behind
      BY <3>1, Marking
    <3> QED
      BY <2>1, <3>2
  <2>2. CASE ~(request[r].pc \in {"half", "down"} /\ c \notin DOMAIN request[r].page)
    <3>1. request'[r] = request[r]
      BY <1>1, <2>2
    <3> QED
      BY <1>3, <2>2, <3>1 DEF Marked
  <2> QED
    BY <2>1, <2>2
<1>5. request' \in [Slots -> ReqType]
  BY <1>1, <1>4
<1>6. ListTypes'
  BY <1>1, <1>2, <1>5 DEF ListTypes
<1> QED
  BY <1>1, <1>2, <1>4, <1>6

(* A message is heard: the list shows it, and requests that have read an    *)
(* older one are behind.                                                    *)
LEMMA HearsMessage ==
  ASSUME ListTypes, L!HandleMessage
  PROVE  /\ ListTypes'
         /\ UNCHANGED <<row, pending, clock, cursor, more, filter, term, timer, found, doubled, overtaken>>
         /\ \E e \in events :
              /\ e \in [conv : Convs, at : L!Times] /\ L!First(e, events) /\ events' = events \ {e}
              /\ DOMAIN list' = DOMAIN list \cup {e.conv} /\ list'[e.conv] = e.at
              /\ \A c \in DOMAIN list \ {e.conv} : list'[c] = list[c]
              /\ \A r \in Slots :
                   /\ Marked(request'[r], request[r])
                   /\ request'[r] = request[r] \/ request[r].pc \in {"half", "down"}
                   /\ /\ request[r].pc \in {"half", "down"}
                      /\ e.conv \in DOMAIN request[r].page => request[r].page[e.conv] < e.at
                      => e.conv \in request'[r].behind
<1>1. /\ row' = row /\ pending' = pending /\ clock' = clock /\ deleting' = deleting /\ cursor' = cursor
      /\ more' = more /\ fetching' = fetching /\ filter' = filter /\ term' = term /\ timer' = timer
      /\ found' = found /\ doubled' = doubled /\ overtaken' = overtaken
  BY DEF L!HandleMessage, L!server, L!history
<1>2. PICK e \in events :
        /\ L!First(e, events) /\ events' = events \ {e} /\ list' = L!Shows(e)
        /\ request' = [r \in Slots |->
             IF /\ request[r].pc \in {"half", "down"}
                /\ e.conv \in DOMAIN request[r].page => request[r].page[e.conv] < e.at
             THEN [request[r] EXCEPT !.behind = @ \cup {e.conv}] ELSE request[r]]
  BY DEF L!HandleMessage
<1>3. e \in [conv : Convs, at : L!Times] /\ request \in [Slots -> ReqType]
  BY DEF ListTypes
<1>4. /\ list' \in L!PartialLists /\ DOMAIN list' = DOMAIN list \cup {e.conv} /\ list'[e.conv] = e.at
      /\ \A c \in DOMAIN list \ {e.conv} : list'[c] = list[c]
  BY <1>2, <1>3, ShownListed
<1>5. ASSUME NEW r \in Slots
      PROVE  /\ request'[r] \in ReqType /\ Marked(request'[r], request[r])
             /\ request'[r] = request[r] \/ request[r].pc \in {"half", "down"}
             /\ /\ request[r].pc \in {"half", "down"}
                /\ e.conv \in DOMAIN request[r].page => request[r].page[e.conv] < e.at
                => e.conv \in request'[r].behind
  <2> DEFINE late == /\ request[r].pc \in {"half", "down"}
                     /\ e.conv \in DOMAIN request[r].page => request[r].page[e.conv] < e.at
  <2>1. CASE late
    <3>1. request'[r] = [request[r] EXCEPT !.behind = @ \cup {e.conv}] /\ request[r] \in ReqType /\ e.conv \in Convs
      BY <1>2, <1>3, <2>1
    <3>2. request'[r] \in ReqType /\ Marked(request'[r], request[r]) /\ e.conv \in request'[r].behind
      BY <3>1, Marking
    <3> QED
      BY <2>1, <3>2
  <2>2. CASE ~late
    <3>1. request'[r] = request[r]
      BY <1>2, <2>2
    <3>2. Marked(request'[r], request[r])
      BY <3>1 DEF Marked
    <3> QED
      BY <1>3, <2>2, <3>1, <3>2
  <2> QED
    BY <2>1, <2>2
<1>6. request' \in [Slots -> ReqType]
  BY <1>2, <1>5
<1>7. ListTypes'
  BY <1>1, <1>2, <1>4, <1>6 DEF ListTypes
<1>8. \A r \in Slots :
                   /\ Marked(request'[r], request[r])
                   /\ request'[r] = request[r] \/ request[r].pc \in {"half", "down"}
                   /\ /\ request[r].pc \in {"half", "down"}
                      /\ e.conv \in DOMAIN request[r].page => request[r].page[e.conv] < e.at
                      => e.conv \in request'[r].behind
  BY <1>5
<1> QED
  BY <1>1, <1>2, <1>3, <1>4, <1>7, <1>8

(* A request that is over.                                                  *)
LEMMA Doing ==
  ASSUME ListTypes, NEW r \in Slots, L!Done(r)
  PROVE  /\ request' \in [Slots -> ReqType] /\ request'[r] = L!Idle
         /\ \A s \in Slots \ {r} : request'[s] = request[s]
<1>1. request' = [request EXCEPT ![r] = L!Idle] /\ request \in [Slots -> ReqType]
  BY DEF L!Done, ListTypes
<1>2. L!Idle \in ReqType
  BY IdleRequest
<1> HIDE DEF L!Idle
<1> QED
  BY <1>1, <1>2

(* A page arrives: it is the list, or goes over it, by where the cursor is. *)
LEMMA PageComes ==
  ASSUME ListTypes, NEW r \in Slots, L!PageArrives(r)
  PROVE  /\ ListTypes'
         /\ UNCHANGED <<row, pending, events, clock, filter, term, timer, doubled>>
         /\ request[r].op = "page" /\ request[r].pc = "down" /\ request[r].live
         /\ list' = IF cursor = L!Top THEN request[r].page ELSE L!Over(list, request[r].page)
         /\ cursor' = request[r].next /\ more' = request[r].more
         /\ overtaken' = IF cursor = L!Top THEN request[r].behind ELSE overtaken
         /\ found' => found /\ cursor # L!Top
         /\ request'[r] = L!Idle /\ \A s \in Slots \ {r} : request'[s] = request[s]
<1>1. /\ row' = row /\ pending' = pending /\ events' = events /\ clock' = clock /\ deleting' = deleting
      /\ filter' = filter /\ term' = term /\ timer' = timer /\ doubled' = doubled /\ fetching' = FALSE
      /\ request[r].op = "page" /\ request[r].pc = "down" /\ request[r].live
      /\ list' = IF cursor = L!Top THEN request[r].page ELSE L!Over(list, request[r].page)
      /\ cursor' = request[r].next /\ more' = request[r].more /\ found' = (found /\ cursor # L!Top)
      /\ overtaken' = IF cursor = L!Top THEN request[r].behind ELSE overtaken
  BY DEF L!PageArrives, L!Arrived, L!server
<1>2. /\ request' \in [Slots -> ReqType] /\ request'[r] = L!Idle
      /\ \A s \in Slots \ {r} : request'[s] = request[s]
  BY Doing DEF L!PageArrives
<1>3. /\ request[r].page \in L!PartialLists /\ request[r].next \in L!Cursors /\ request[r].more \in BOOLEAN
      /\ request[r].behind \in SUBSET Convs
  BY DEF ListTypes, ReqType
<1>4. L!Over(list, request[r].page) \in L!PartialLists
  BY <1>3, OverListed DEF ListTypes
<1>5. found' \in BOOLEAN
  BY <1>1
<1>6. ListTypes'
  BY <1>1, <1>2, <1>3, <1>4, <1>5 DEF ListTypes
<1> QED
  BY <1>1, <1>2, <1>6

(* An aborted request ends and leaves the list alone.                       *)
LEMMA AbortedGoes ==
  ASSUME ListTypes, NEW r \in Slots, L!AbortedEnds(r)
  PROVE  /\ ListTypes'
         /\ UNCHANGED <<row, pending, events, clock, list, cursor, more, filter, term, timer, found, doubled,
                        overtaken>>
         /\ request'[r] = L!Idle /\ \A s \in Slots \ {r} : request'[s] = request[s]
<1>1. /\ row' = row /\ pending' = pending /\ events' = events /\ clock' = clock /\ deleting' = deleting
      /\ list' = list /\ cursor' = cursor /\ more' = more /\ fetching' = FALSE
      /\ filter' = filter /\ term' = term /\ timer' = timer /\ found' = found /\ doubled' = doubled
      /\ overtaken' = overtaken
  BY DEF L!AbortedEnds, L!server, L!history
<1>2. /\ request' \in [Slots -> ReqType] /\ request'[r] = L!Idle
      /\ \A s \in Slots \ {r} : request'[s] = request[s]
  BY Doing DEF L!AbortedEnds
<1>3. ListTypes'
  BY <1>1, <1>2 DEF ListTypes
<1> QED
  BY <1>1, <1>2, <1>3

(* A search arrives: its hits go over the list.                             *)
LEMMA SearchComes ==
  ASSUME ListTypes, NEW r \in Slots, L!SearchArrives(r)
  PROVE  /\ ListTypes'
         /\ UNCHANGED <<row, pending, events, clock, cursor, more, filter, term, timer, doubled>>
         /\ request[r].op = "search" /\ request[r].pc = "down"
         /\ list' = L!Over(list, request[r].page) /\ overtaken' = overtaken \cup request[r].behind
         /\ request'[r] = L!Idle /\ \A s \in Slots \ {r} : request'[s] = request[s]
<1>1. /\ row' = row /\ pending' = pending /\ events' = events /\ clock' = clock /\ deleting' = deleting
      /\ cursor' = cursor /\ more' = more /\ filter' = filter /\ term' = term /\ timer' = timer
      /\ doubled' = doubled /\ fetching' = FALSE /\ found' = TRUE
      /\ request[r].op = "search" /\ request[r].pc = "down"
      /\ list' = L!Over(list, request[r].page) /\ overtaken' = overtaken \cup request[r].behind
  BY DEF L!SearchArrives, L!server
<1>2. /\ request' \in [Slots -> ReqType] /\ request'[r] = L!Idle
      /\ \A s \in Slots \ {r} : request'[s] = request[s]
  BY Doing DEF L!SearchArrives
<1>3. request[r].page \in L!PartialLists /\ request[r].behind \in SUBSET Convs
  BY DEF ListTypes, ReqType
<1>4. L!Over(list, request[r].page) \in L!PartialLists
  BY <1>3, OverListed DEF ListTypes
<1>5. ListTypes'
  BY <1>1, <1>2, <1>3, <1>4 DEF ListTypes
<1> QED
  BY <1>1, <1>2, <1>5

(* A request fails and leaves the list alone.                               *)
LEMMA FailsThen ==
  ASSUME ListTypes, NEW r \in Slots, L!Fails(r)
  PROVE  /\ ListTypes'
         /\ UNCHANGED <<row, pending, events, clock, list, cursor, more, filter, term, timer, found, doubled,
                        overtaken>>
         /\ request'[r] = L!Idle /\ \A s \in Slots \ {r} : request'[s] = request[s]
<1>1. /\ row' = row /\ pending' = pending /\ events' = events /\ clock' = clock /\ deleting' = deleting
      /\ list' = list /\ cursor' = cursor /\ more' = more /\ fetching' = FALSE
      /\ filter' = filter /\ term' = term /\ timer' = timer /\ found' = found /\ doubled' = doubled
      /\ overtaken' = overtaken
  BY DEF L!Fails, L!Acts, L!server, L!history
<1>2. /\ request' \in [Slots -> ReqType] /\ request'[r] = L!Idle
      /\ \A s \in Slots \ {r} : request'[s] = request[s]
  BY Doing DEF L!Fails
<1>3. ListTypes'
  BY <1>1, <1>2 DEF ListTypes
<1> QED
  BY <1>1, <1>2, <1>3

(* The order of the rows.                                                   *)
LEMMA LaterOrders ==
  ASSUME ListTypes
  PROVE  /\ \A c \in Convs : c \in Nat /\ row[c].at \in Nat /\ ~L!Later(c, c)
         /\ \A c, d \in Convs : c = d \/ L!Later(c, d) \/ L!Later(d, c)
         /\ \A c, d, e \in Convs : L!Later(c, d) /\ L!Later(d, e) => L!Later(c, e)
<1>1. \A c \in Convs : c \in Nat /\ row[c].at \in Nat
  BY ListAssumption, ListTimes DEF ListTypes
<1> QED
  BY <1>1 DEF L!Later

(* A page that is not all there is ends with a row that all the rest come   *)
(* after.                                                                   *)
LEMMA PageEnds ==
  ASSUME ListTypes, NEW r \in Slots, NEW rest \in SUBSET Convs, L!FirstOf(r, rest) # rest,
         NEW last, last = CHOOSE c \in L!FirstOf(r, rest) : \A d \in L!FirstOf(r, rest) : ~L!Later(c, d)
  PROVE  last \in L!FirstOf(r, rest) /\ \A c \in rest \ L!FirstOf(r, rest) : L!Later(last, c)
<1> DEFINE Above(d) == {e \in rest : L!Later(e, d)}
           head == L!FirstOf(r, rest)
<1>1. /\ \A c \in rest : c \in Nat /\ row[c].at \in Nat /\ ~L!Later(c, c)
      /\ \A c, d \in rest : c = d \/ L!Later(c, d) \/ L!Later(d, c)
      /\ \A c, d, e \in rest : L!Later(c, d) /\ L!Later(d, e) => L!Later(c, e)
  BY LaterOrders
<1>2. IsFiniteSet(rest)
  BY ListAssumption, FS_Subset
<1>3. \A d : IsFiniteSet(Above(d)) /\ Cardinality(Above(d)) \in Nat /\ Above(d) \subseteq rest
  <2> TAKE d
  <2>1. Above(d) \subseteq rest
    OBVIOUS
  <2>2. IsFiniteSet(Above(d))
    BY <1>2, <2>1, FS_Subset
  <2> QED
    BY <2>1, <2>2, FS_CardinalityType
<1>4. \A c : c \in head <=> c \in rest /\ Cardinality(Above(c)) < Limit
  <2>1. head = {c \in rest : request[r].op = "search" \/ Cardinality(Above(c)) < Limit}
    BY ListTimes DEF L!FirstOf
  <2>2. request[r].op # "search"
    BY <2>1
  <2> QED
    BY <2>1, <2>2
<1>5. \A c, d \in rest : L!Later(c, d) =>
        /\ c \in Above(d) /\ c \notin Above(c) /\ Above(c) \subseteq Above(d)
  BY <1>1
<1>6. rest # {} /\ Limit \in Nat /\ Limit >= 1
  <2>1. rest # {}
    BY <1>4
  <2> QED
    BY <2>1, ListAssumption
<1> HIDE DEF Above, head
<1>7. head # {}
  <2> DEFINE N == {Cardinality(Above(d)) : d \in rest}
  <2>1. N \in SUBSET Nat /\ N # {}
    BY <1>3, <1>6
  <2>2. PICK k \in N : \A n \in N : k <= n
    BY <2>1, Smallest
  <2>3. PICK n \in rest : k = Cardinality(Above(n))
    BY <2>2
  <2>4. ASSUME Above(n) # {} PROVE FALSE
    <3>1. PICK d \in Above(n) : TRUE
      BY <2>4
    <3>2. d \in rest /\ L!Later(d, n)
      BY <1>3, <3>1 DEF Above
    <3>3. Above(d) \subseteq Above(n) \ {d}
      BY <1>5, <3>2
    <3>4. /\ IsFiniteSet(Above(n) \ {d}) /\ Cardinality(Above(n) \ {d}) = Cardinality(Above(n)) - 1
      BY <1>3, <3>1, FS_RemoveElement
    <3>5. Cardinality(Above(d)) <= Cardinality(Above(n) \ {d})
      BY <3>3, <3>4, FS_Subset
    <3>6. Cardinality(Above(d)) \in N
      BY <3>2
    <3>7. k <= Cardinality(Above(d)) /\ k \in Nat
      BY <2>1, <2>2, <3>6
    <3> HIDE DEF N
    <3> QED
      BY <1>3, <2>3, <3>4, <3>5, <3>7
  <2>5. Cardinality(Above(n)) = 0
    BY <1>3, <2>4, FS_EmptySet
  <2> QED
    BY <1>4, <1>6, <2>5
<1>8. \E c \in head : \A d \in head : ~L!Later(c, d)
  <2> DEFINE N == {row[c].at : c \in head}
  <2>0. \A c \in head : c \in rest /\ c \in Nat /\ row[c].at \in Nat
    BY <1>1, <1>4
  <2>1. N \in SUBSET Nat /\ N # {}
    BY <1>7, <2>0
  <2>2. PICK k \in N : \A n \in N : k <= n
    BY <2>1, Smallest
  <2> DEFINE T == {c \in head : row[c].at = k}
  <2>3. T \in SUBSET Nat /\ T # {}
    BY <2>0, <2>2
  <2>4. PICK m \in T : \A n \in T : m <= n
    BY <2>3, Smallest
  <2>5. m \in head /\ row[m].at = k
    BY <2>4
  <2>6. ASSUME NEW d \in head, L!Later(m, d) PROVE FALSE
    <3>1. k <= row[d].at /\ row[d].at \in Nat /\ k \in Nat /\ d \in Nat /\ m \in Nat
      BY <2>0, <2>1, <2>2, <2>5
    <3>2. row[d].at = k /\ m > d
      BY <2>5, <2>6, <3>1 DEF L!Later
    <3>3. d \in T
      BY <3>2
    <3> QED
      BY <2>4, <3>1, <3>2, <3>3
  <2> QED
    BY <2>5, <2>6
<1>9. last \in head /\ \A d \in head : ~L!Later(last, d)
  BY <1>8 DEF head
<1>10. ASSUME NEW c \in rest \ head PROVE L!Later(last, c)
  <2>1. last \in rest /\ last # c
    BY <1>4, <1>9, <1>10
  <2>2. ASSUME L!Later(c, last) PROVE FALSE
    <3>1. Above(c) \subseteq Above(last)
      BY <1>5, <1>10, <2>1, <2>2
    <3>2. Cardinality(Above(c)) <= Cardinality(Above(last))
      BY <1>3, <3>1, FS_Subset
    <3>3. Cardinality(Above(last)) < Limit
      BY <1>4, <1>9
    <3>4. Cardinality(Above(c)) < Limit
      BY <1>3, <1>6, <3>2, <3>3
    <3> QED
      BY <1>4, <1>10, <3>4
  <2> QED
    BY <1>1, <1>10, <2>1, <2>2
<1> QED
  BY <1>9, <1>10 DEF head

(* The first half of a page is read.                                        *)
LEMMA PinnedRead ==
  ASSUME ListTypes, NEW r \in Slots, L!ReadPinned(r)
  PROVE  /\ ListTypes'
         /\ UNCHANGED <<row, pending, events, clock, list, cursor, more, filter, term, timer, found, doubled,
                        overtaken>>
         /\ request[r].pc = "up" /\ \A s \in Slots \ {r} : request'[s] = request[s]
         /\ request'[r].op = request[r].op /\ request'[r].pc = "half" /\ request'[r].live = request[r].live
         /\ request'[r].from = request[r].from /\ request'[r].filter = request[r].filter
         /\ request'[r].term = request[r].term
         /\ request'[r].behind = L!Unwritten
         /\ DOMAIN request'[r].page = {c \in Convs : L!Asked(r, c) /\ row[c].pinned /\ request[r].from = L!Top}
         /\ \A c \in DOMAIN request'[r].page : request'[r].page[c] = row[c].at
<1> DEFINE cs == {c \in Convs : L!Asked(r, c) /\ row[c].pinned /\ request[r].from = L!Top}
<1>1. /\ row' = row /\ pending' = pending /\ events' = events /\ clock' = clock /\ deleting' = deleting
      /\ list' = list /\ cursor' = cursor /\ more' = more /\ fetching' = fetching
      /\ filter' = filter /\ term' = term /\ timer' = timer /\ found' = found /\ doubled' = doubled
      /\ overtaken' = overtaken /\ request[r].pc = "up"
      /\ request' = [request EXCEPT ![r].pc = "half", ![r].behind = L!Unwritten, ![r].page = L!Page(cs)]
  BY DEF L!ReadPinned, L!PageOnly, L!server, L!history
<1>2. cs \in SUBSET Convs
  OBVIOUS
<1> HIDE DEF cs
<1>3. /\ L!Page(cs) \in L!PartialLists /\ DOMAIN L!Page(cs) = cs
      /\ \A c \in cs : L!Page(cs)[c] = row[c].at
  BY <1>2, PageListed
<1>4. L!Unwritten \in SUBSET Convs
  <2>1. \A m \in pending : m.conv \in Convs
    BY DEF ListTypes
  <2> QED
    BY <2>1 DEF L!Unwritten
<1>5. request \in [Slots -> ReqType] /\ request[r] \in ReqType
  BY DEF ListTypes
<1> DEFINE q == request'[r]
<1>6. /\ q \in ReqType /\ q.op = request[r].op /\ q.pc = "half" /\ q.live = request[r].live
      /\ q.from = request[r].from /\ q.filter = request[r].filter /\ q.term = request[r].term
      /\ q.behind = L!Unwritten /\ q.page = L!Page(cs)
  BY <1>1, <1>3, <1>4, <1>5 DEF ReqType
<1>7. \A s \in Slots \ {r} : request'[s] = request[s]
  BY <1>1, <1>5
<1>8. request' \in [Slots -> ReqType]
  BY <1>1, <1>5, <1>6, <1>7
<1>9. ListTypes'
  BY <1>1, <1>8 DEF ListTypes
<1> QED
  BY <1>1, <1>3, <1>6, <1>7, <1>9 DEF cs

(* The second half is read: what follows the cursor, as far as the page     *)
(* goes.                                                                    *)
Rest(r) == {c \in Convs : L!Asked(r, c) /\ ~row[c].pinned /\ L!After(c, request[r].from)}
(* The second read of a page: the first of the rows that come after its     *)
(* cursor, and the cursor of the page that follows.                         *)
LEMMA RowsRead ==
  ASSUME ListTypes, NEW r \in Slots, L!ReadRows(r)
  PROVE  /\ ListTypes'
         /\ UNCHANGED <<row, pending, events, clock, list, cursor, more, filter, term, timer, found, doubled,
                        overtaken>>
         /\ request[r].pc = "half" /\ \A s \in Slots \ {r} : request'[s] = request[s]
         /\ request'[r].op = request[r].op /\ request'[r].pc = "down" /\ request'[r].live = request[r].live
         /\ request'[r].from = request[r].from /\ request'[r].filter = request[r].filter
         /\ request'[r].term = request[r].term
         /\ request[r].behind \subseteq request'[r].behind
         /\ request'[r].more = (L!FirstOf(r, Rest(r)) # Rest(r))
         /\ \A c \in DOMAIN request[r].page : c \in DOMAIN request'[r].page /\ request'[r].page[c] = request[r].page[c]
         /\ \A c \in L!FirstOf(r, Rest(r)) \ DOMAIN request[r].page :
              c \in DOMAIN request'[r].page /\ request'[r].page[c] = row[c].at
         /\ DOMAIN request'[r].page = DOMAIN request[r].page \cup L!FirstOf(r, Rest(r))
         /\ ~request'[r].more => request'[r].next = L!Top
         /\ request'[r].more => \E last \in L!FirstOf(r, Rest(r)) :
              /\ request'[r].next = L!Encoded(last) /\ \A c \in Rest(r) \ L!FirstOf(r, Rest(r)) : L!Later(last, c)
<1> DEFINE rest == Rest(r)
           head == L!FirstOf(r, rest)
           last == CHOOSE c \in head : \A d \in head : ~L!Later(c, d)
           next == IF head = rest THEN L!Top ELSE L!Encoded(last)
           long == head # rest
           old == request[r]
<1>1. /\ row' = row /\ pending' = pending /\ events' = events /\ clock' = clock /\ deleting' = deleting
      /\ list' = list /\ cursor' = cursor /\ more' = more /\ fetching' = fetching
      /\ filter' = filter /\ term' = term /\ timer' = timer /\ found' = found /\ doubled' = doubled
      /\ overtaken' = overtaken /\ request[r].pc = "half"
  BY DEF L!ReadRows, L!PageOnly, L!server, L!history
<1>a. request' = [request EXCEPT ![r].pc = "down",
                       ![r].page = L!Over(@, L!Page(head)), ![r].behind = @ \cup L!Unwritten,
                       ![r].more = long, ![r].next = next]
  BY DEF L!ReadRows, Rest
<1>2. rest \in SUBSET Convs /\ head \subseteq rest
  BY DEF Rest, L!FirstOf
<1>3. head # rest => last \in head /\ \A c \in rest \ head : L!Later(last, c)
  <2> HIDE DEF rest
  <2> SUFFICES ASSUME head # rest PROVE last \in head /\ \A c \in rest \ head : L!Later(last, c)
    OBVIOUS
  <2>1. PICK w : w = last
    OBVIOUS
  <2> HIDE DEF last
  <2>2. w \in head /\ \A c \in rest \ head : L!Later(w, c)
    BY <1>2, <2>1, PageEnds DEF last
  <2> QED
    BY <2>1, <2>2
<1>4. old \in ReqType /\ request \in [Slots -> ReqType] /\ old.page \in L!PartialLists
  BY DEF ListTypes, ReqType
<1> HIDE DEF rest, head, last, old
<1>5. /\ L!Page(head) \in L!PartialLists /\ DOMAIN L!Page(head) = head
      /\ \A c \in head : L!Page(head)[c] = row[c].at
  <2>1. head \in SUBSET Convs
    BY <1>2
  <2> QED
    BY <2>1, PageListed
<1> DEFINE page0 == L!Over(old.page, L!Page(head))
<1>6. /\ page0 \in L!PartialLists /\ DOMAIN page0 = DOMAIN old.page \cup head
      /\ \A c \in DOMAIN old.page : page0[c] = old.page[c]
      /\ \A c \in head \ DOMAIN old.page : page0[c] = row[c].at
  <2>1. PICK f \in L!PartialLists, g \in L!PartialLists : f = old.page /\ g = L!Page(head)
    BY <1>4, <1>5
  <2>2. /\ L!Over(f, g) \in L!PartialLists /\ DOMAIN L!Over(f, g) = DOMAIN f \cup DOMAIN g
        /\ \A c \in DOMAIN f : L!Over(f, g)[c] = f[c]
        /\ \A c \in DOMAIN g \ DOMAIN f : L!Over(f, g)[c] = g[c]
    BY OverListed
  <2>3. page0 = L!Over(f, g)
    BY <2>1
  <2> HIDE DEF page0
  <2> QED
    BY <1>5, <2>1, <2>2, <2>3
<1>7. L!Unwritten \in SUBSET Convs
  <2>1. \A m \in pending : m.conv \in Convs
    BY DEF ListTypes
  <2> QED
    BY <2>1 DEF L!Unwritten
<1>8. next \in L!Cursors
  <2>1. CASE head = rest
    BY <2>1, CursorTop
  <2>2. CASE head # rest
    <3>1. last \in Convs /\ row[last].at \in L!Times
      BY <1>2, <1>3, <2>2 DEF ListTypes
    <3> QED
      BY <2>2, <3>1 DEF L!Encoded, L!Cursors
  <2> QED
    BY <2>1, <2>2
<1>9. long \in BOOLEAN
  OBVIOUS
<1> DEFINE told == old.behind \cup L!Unwritten
<1>10. request' = [request EXCEPT ![r].pc = "down", ![r].page = page0, ![r].behind = told,
                                  ![r].more = long, ![r].next = next]
  BY <1>a DEF old
<1>11. told \in SUBSET Convs /\ old.behind \subseteq told
  BY <1>4, <1>7 DEF ReqType
<1> HIDE DEF page0, next, long, told
<1> DEFINE q == request'[r]
<1>12. /\ q \in ReqType /\ q.op = old.op /\ q.pc = "down" /\ q.live = old.live
       /\ q.from = old.from /\ q.filter = old.filter /\ q.term = old.term
       /\ q.behind = told /\ q.page = page0 /\ q.more = long /\ q.next = next
  BY <1>4, <1>6, <1>8, <1>9, <1>10, <1>11 DEF ReqType, old
<1>13. request'[r] = q /\ (\A s \in Slots \ {r} : request'[s] = request[s]) /\ request' \in [Slots -> ReqType]
  BY <1>4, <1>10, <1>12
<1> HIDE DEF q
<1>14. ListTypes'
  BY <1>1, <1>13 DEF ListTypes
<1>15. q.more = (head # rest)
  BY <1>12 DEF long
<1>16. ~q.more => q.next = L!Top
  BY <1>12 DEF long, next
<1>17. q.more => last \in head /\ q.next = L!Encoded(last) /\ \A c \in rest \ head : L!Later(last, c)
  BY <1>3, <1>12 DEF long, next
<1> QED
  BY <1>1, <1>6, <1>11, <1>12, <1>13, <1>14, <1>15, <1>16, <1>17 DEF head, rest, old

(* Messages of a conversation that its row has still to show, and one whose *)
(* events the page has all heard.                                           *)
Owed(c) == {m \in pending : m.conv = c}
Heard(c) == \A e \in events : e.conv # c

(* A time that the list may show for a conversation: that of its newest     *)
(* message, wherever this still is.                                         *)
FitsWith(owed, at, v) == IF owed = {} THEN at \in {0, v}
                         ELSE \E m \in owed : m.at = v /\ \A n \in owed : n.at <= v
Fits(c, v) == FitsWith(Owed(c), row[c].at, v)

(* Every message has a time of its own, and nothing is newer than the clock. *)
MessageTimes ==
  /\ \A m, n \in pending \cup events : m.at = n.at => m = n
  /\ \A m \in pending \cup events : m.at \in 1 .. clock
  /\ \A c \in Convs : row[c].at <= clock
  /\ \A r \in Slots : \A c \in DOMAIN request[r].page : request[r].page[c] <= clock

(* The last event of a conversation is its newest message.                  *)
LastEvent(e) == e \in events /\ \A f \in events : f.conv = e.conv => f.at <= e.at
NewestFits ==
  \A e \in events : LastEvent(e) =>
    /\ Fits(e.conv, e.at) /\ row[e.conv].at <= e.at
    /\ \A r \in Slots : e.conv \in DOMAIN request[r].page => request[r].page[e.conv] <= e.at

(* The write of a row keeps what fits.                                      *)
LEMMA WriteFits ==
  ASSUME ListTypes, MessageTimes, NEW m \in pending, L!First(m, pending), pending' = pending \ {m},
         row'[m.conv].at = m.at, NEW v, Fits(m.conv, v)
  PROVE  FitsWith(Owed(m.conv)', row'[m.conv].at, v)
<1>0. \A n \in pending : n.at \in Nat
  BY ListTimes DEF ListTypes
<1>1. m \in Owed(m.conv)
  BY DEF Owed
<1>2. PICK k \in Owed(m.conv) : k.at = v /\ \A n \in Owed(m.conv) : n.at <= v
  BY <1>1 DEF Fits, FitsWith
<1>3. k \in pending /\ k.conv = m.conv /\ Owed(m.conv) \subseteq pending
  BY DEF Owed
<1>4. Owed(m.conv)' = Owed(m.conv) \ {m}
  BY DEF Owed
<1>5. CASE k = m
  <2>1. \A n \in Owed(m.conv) : n.at = m.at
    BY <1>0, <1>2, <1>3, <1>5 DEF L!First
  <2>2. \A n \in Owed(m.conv) : n = m
    BY <1>3, <2>1 DEF MessageTimes
  <2>3. Owed(m.conv)' = {}
    BY <1>4, <2>2
  <2> QED
    BY <1>2, <1>5, <2>3 DEF FitsWith
<1>6. CASE k # m
  BY <1>2, <1>4, <1>6 DEF FitsWith
<1> QED
  BY <1>5, <1>6

(* What has not been touched still fits.                                    *)
LEMMA OtherFits ==
  ASSUME NEW c \in Convs, row'[c].at = row[c].at, Owed(c)' = Owed(c), NEW v
  PROVE  Fits(c, v) => FitsWith(Owed(c)', row'[c].at, v)
BY DEF Fits

(* Pages that come from other pages, and from the rows.                     *)
PagesFrom ==
  \A r \in Slots : \A c \in DOMAIN request'[r].page : c \in Convs /\
    \/ request'[r].page[c] = row[c].at
    \/ \E s \in Slots : c \in DOMAIN request[s].page /\ request'[r].page[c] = request[s].page[c]
(* A step that neither posts, writes nor hears a message keeps the times.   *)
LEMMA QuietTimes ==
  ASSUME ListTypes, MessageTimes, NewestFits, UNCHANGED <<pending, events, clock>>,
         \A c \in Convs : row'[c].at = row[c].at, PagesFrom
  PROVE  MessageTimes' /\ NewestFits'
<1>0. pending' = pending /\ events' = events /\ clock' = clock /\ \A e \in events : e.conv \in Convs
  BY DEF ListTypes
<1>1. MessageTimes'
  <2>1. \A r \in Slots : \A c \in DOMAIN request'[r].page : request'[r].page[c] <= clock
    BY DEF MessageTimes, PagesFrom
  <2> QED
    BY <1>0, <2>1 DEF MessageTimes
<1>2. ASSUME NEW e \in events, LastEvent(e)'
      PROVE  /\ Fits(e.conv, e.at)' /\ row'[e.conv].at <= e.at
             /\ \A r \in Slots : e.conv \in DOMAIN request'[r].page => request'[r].page[e.conv] <= e.at
  <2>1. LastEvent(e)
    BY <1>0, <1>2 DEF LastEvent
  <2>2. /\ Fits(e.conv, e.at) /\ row[e.conv].at <= e.at
        /\ \A r \in Slots : e.conv \in DOMAIN request[r].page => request[r].page[e.conv] <= e.at
    BY <2>1 DEF NewestFits
  <2>3. Owed(e.conv)' = Owed(e.conv)
    BY <1>0 DEF Owed
  <2>4. FitsWith(Owed(e.conv)', row'[e.conv].at, e.at)
    BY <1>0, <2>2, <2>3, OtherFits
  <2>5. row'[e.conv].at <= e.at
    BY <1>0, <2>2
  <2>6. \A r \in Slots : e.conv \in DOMAIN request'[r].page => request'[r].page[e.conv] <= e.at
    BY <2>2 DEF PagesFrom
  <2> QED
    BY <2>4, <2>5, <2>6 DEF Fits
<1> QED
  BY <1>0, <1>1, <1>2 DEF NewestFits

(* A new message is the newest of all.                                      *)
LEMMA PostTimes ==
  ASSUME ListTypes, MessageTimes, NewestFits, NEW c \in Convs, L!Post(c)
  PROVE  MessageTimes' /\ NewestFits'
<1>0. PICK m \in [conv : Convs, at : L!Times] :
        /\ row' = row /\ request' = request /\ clock' = clock + 1
        /\ m.conv = c /\ m.at = clock + 1 /\ events' = events \cup {m} /\ pending' = pending \cup {m}
  BY Posts
<1>1. /\ clock \in Nat /\ \A n \in pending \cup events : n.conv \in Convs /\ n.at \in Nat
      /\ \A d \in Convs : row[d].at \in Nat
      /\ \A r \in Slots : \A d \in DOMAIN request[r].page : request[r].page[d] \in Nat
  <2>1. L!Times \subseteq Nat
    BY ListTimes
  <2>2. \A r \in Slots : request[r].page \in L!PartialLists
    BY DEF ListTypes, ReqType
  <2>3. \A r \in Slots : \A d \in DOMAIN request[r].page : request[r].page[d] \in Nat
    BY <2>1, <2>2, PartialList
  <2> QED
    BY <2>1, <2>3 DEF ListTypes
<1>2. MessageTimes'
  BY <1>0, <1>1 DEF MessageTimes
<1>3. ASSUME NEW e \in events', LastEvent(e)'
      PROVE  /\ Fits(e.conv, e.at)' /\ row'[e.conv].at <= e.at
             /\ \A r \in Slots : e.conv \in DOMAIN request'[r].page => request'[r].page[e.conv] <= e.at
  <2>1. CASE e = m
    <3>1. m \in Owed(c)' /\ \A n \in Owed(c)' : n.at <= m.at
      BY <1>0, <1>1 DEF Owed, MessageTimes
    <3>2. FitsWith(Owed(e.conv)', row'[e.conv].at, e.at)
      BY <1>0, <2>1, <3>1 DEF FitsWith
    <3>3. row'[c].at <= m.at
      BY <1>0, <1>1 DEF MessageTimes
    <3>4. \A r \in Slots : c \in DOMAIN request'[r].page => request'[r].page[c] <= m.at
      BY <1>0, <1>1 DEF MessageTimes
    <3> QED
      BY <1>0, <2>1, <3>2, <3>3, <3>4 DEF Fits
  <2>2. CASE e # m
    <3>1. e \in events /\ e.conv # c /\ e.at <= clock
      BY <1>0, <1>1, <1>3, <2>2 DEF LastEvent, MessageTimes
    <3>2. LastEvent(e)
      BY <1>0, <1>3, <3>1 DEF LastEvent
    <3>3. /\ Fits(e.conv, e.at) /\ row[e.conv].at <= e.at
          /\ \A r \in Slots : e.conv \in DOMAIN request[r].page => request[r].page[e.conv] <= e.at
      BY <3>1, <3>2 DEF NewestFits
    <3>4. Owed(e.conv)' = Owed(e.conv)
      BY <1>0, <3>1 DEF Owed
    <3> QED
      BY <1>0, <3>3, <3>4 DEF Fits
  <2> QED
    BY <2>1, <2>2
<1> QED
  BY <1>2, <1>3 DEF NewestFits

(* The write of a row keeps the times.                                      *)
LEMMA WriteTimes ==
  ASSUME ListTypes, MessageTimes, NewestFits, L!WriteRow
  PROVE  MessageTimes' /\ NewestFits'
<1>0. PICK m \in pending : /\ m \in [conv : Convs, at : L!Times] /\ L!First(m, pending)
                           /\ pending' = pending \ {m} /\ row'[m.conv].at = m.at
                           /\ \A c \in Convs \ {m.conv} : row'[c].at = row[c].at
                           /\ events' = events /\ clock' = clock /\ request' = request
  BY Writes
<1>1. \A n \in pending \cup events : n.conv \in Convs /\ n.at \in Nat
  BY ListTimes DEF ListTypes
<1>2. MessageTimes'
  BY <1>0, <1>1 DEF MessageTimes
<1>3. ASSUME NEW e \in events, LastEvent(e)'
      PROVE  /\ Fits(e.conv, e.at)' /\ row'[e.conv].at <= e.at
             /\ \A r \in Slots : e.conv \in DOMAIN request'[r].page => request'[r].page[e.conv] <= e.at
  <2>1. LastEvent(e)
    BY <1>0, <1>3 DEF LastEvent
  <2>2. /\ Fits(e.conv, e.at) /\ row[e.conv].at <= e.at
        /\ \A r \in Slots : e.conv \in DOMAIN request[r].page => request[r].page[e.conv] <= e.at
    BY <2>1 DEF NewestFits
  <2>3. CASE e.conv = m.conv
    <3>1. FitsWith(Owed(m.conv)', row'[m.conv].at, e.at)
      BY <1>0, <2>2, <2>3, WriteFits
    <3>2. m \in Owed(e.conv)
      BY <2>3 DEF Owed
    <3>3. m.at <= e.at
      BY <2>2, <3>2 DEF Fits, FitsWith
    <3> QED
      BY <1>0, <2>2, <2>3, <3>1, <3>3 DEF Fits
  <2>4. CASE e.conv # m.conv
    <3>1. Owed(e.conv)' = Owed(e.conv)
      BY <1>0, <2>4 DEF Owed
    <3>2. row'[e.conv].at = row[e.conv].at /\ e.conv \in Convs
      BY <1>0, <1>1, <2>4
    <3> QED
      BY <1>0, <2>2, <3>1, <3>2 DEF Fits
  <2> QED
    BY <2>3, <2>4
<1> QED
  BY <1>0, <1>2, <1>3 DEF NewestFits

(* The deletion of a history keeps the times.                               *)
LEMMA DeleteTimes ==
  ASSUME ListTypes, MessageTimes, NewestFits, NEW c \in Convs, L!DeleteHistory(c)
  PROVE  MessageTimes' /\ NewestFits'
<1>0. /\ events' = events /\ clock' = clock /\ request' = request /\ row'[c].at = 0
      /\ \A d \in Convs \ {c} : row'[d] = row[d] /\ pending' = {m \in pending : m.conv # c}
  BY Deletes
<1>1. /\ clock \in Nat /\ \A n \in pending \cup events : n.conv \in Convs /\ n.at \in Nat
  BY ListTimes DEF ListTypes
<1>2. pending' = {m \in pending : m.conv # c} /\ pending' \subseteq pending
  BY Deletes
<1>3. MessageTimes'
  BY <1>0, <1>1, <1>2 DEF MessageTimes
<1>4. ASSUME NEW e \in events, LastEvent(e)'
      PROVE  /\ Fits(e.conv, e.at)' /\ row'[e.conv].at <= e.at
             /\ \A r \in Slots : e.conv \in DOMAIN request'[r].page => request'[r].page[e.conv] <= e.at
  <2>1. LastEvent(e)
    BY <1>0, <1>4 DEF LastEvent
  <2>2. /\ Fits(e.conv, e.at) /\ row[e.conv].at <= e.at
        /\ \A r \in Slots : e.conv \in DOMAIN request[r].page => request[r].page[e.conv] <= e.at
    BY <2>1 DEF NewestFits
  <2>3. CASE e.conv = c
    <3>1. Owed(c)' = {}
      BY <1>2 DEF Owed
    <3> QED
      BY <1>0, <1>1, <2>2, <2>3, <3>1 DEF Fits, FitsWith
  <2>4. CASE e.conv # c
    <3>1. Owed(e.conv)' = Owed(e.conv)
      BY <1>2, <2>4 DEF Owed
    <3>2. row'[e.conv].at = row[e.conv].at /\ e.conv \in Convs
      BY <1>0, <1>1, <2>4
    <3> QED
      BY <1>0, <2>2, <3>1, <3>2 DEF Fits
  <2> QED
    BY <2>3, <2>4
<1> QED
  BY <1>0, <1>3, <1>4 DEF NewestFits

(* Hearing a message keeps the times.                                       *)
LEMMA HearTimes ==
  ASSUME ListTypes, MessageTimes, NewestFits, L!HandleMessage
  PROVE  MessageTimes' /\ NewestFits'
<1>0. PICK e \in events :
        /\ e \in [conv : Convs, at : L!Times] /\ L!First(e, events) /\ events' = events \ {e}
        /\ row' = row /\ pending' = pending /\ clock' = clock
        /\ \A r \in Slots : Marked(request'[r], request[r])
  BY HearsMessage
<1>1. \A r \in Slots : request'[r].page = request[r].page
  BY <1>0 DEF Marked
<1>2. MessageTimes'
  BY <1>0, <1>1 DEF MessageTimes
<1>3. ASSUME NEW f \in events', LastEvent(f)'
      PROVE  /\ Fits(f.conv, f.at)' /\ row'[f.conv].at <= f.at
             /\ \A r \in Slots : f.conv \in DOMAIN request'[r].page => request'[r].page[f.conv] <= f.at
  <2>1. f \in events /\ LastEvent(f)
    BY <1>0, <1>3 DEF LastEvent, L!First
  <2>2. /\ Fits(f.conv, f.at) /\ row[f.conv].at <= f.at
        /\ \A r \in Slots : f.conv \in DOMAIN request[r].page => request[r].page[f.conv] <= f.at
    BY <2>1 DEF NewestFits
  <2>3. Owed(f.conv)' = Owed(f.conv)
    BY <1>0 DEF Owed
  <2> QED
    BY <1>0, <1>1, <2>2, <2>3 DEF Fits
<1> QED
  BY <1>2, <1>3 DEF NewestFits

(* The pages after a step that reads none.                                  *)
PageKept(s) == DOMAIN request'[s].page = {} \/ request'[s].page = request[s].page
(* Pages that are kept or emptied come from other pages.                    *)
LEMMA KeptPages ==
  ASSUME ListTypes, \A s \in Slots : PageKept(s)
  PROVE  PagesFrom
<1>1. \A s \in Slots : \A c \in DOMAIN request[s].page : c \in Convs
  <2>1. \A s \in Slots : request[s].page \in L!PartialLists
    BY DEF ListTypes, ReqType
  <2> QED
    BY <2>1, PartialList
<1> QED
  BY <1>1 DEF PageKept, PagesFrom

(* A slot at rest keeps or empties its page.                                *)
LEMMA RestedKept ==
  ASSUME NEW s \in Slots, Rested(s) \/ request'[s] = L!Idle \/ request'[s] = request[s]
  PROVE  PageKept(s)
<1>1. DOMAIN L!Idle.page = {}
  BY IdleRequest
<1> HIDE DEF L!Idle
<1> QED
  BY <1>1 DEF Rested, CutOff, PageKept

(* Every step of the list keeps the times.                                  *)
LEMMA TimesStep ==
  ASSUME ListTypes, MessageTimes, NewestFits, L!Next
  PROVE  MessageTimes' /\ NewestFits'
<1>1. ASSUME UNCHANGED <<row, pending, events, clock>>, \A s \in Slots : PageKept(s)
      PROVE  MessageTimes' /\ NewestFits'
  BY <1>1, KeptPages, QuietTimes
<1>2. ASSUME NEW kind \in L!Filters, L!SetFilter(kind) PROVE MessageTimes' /\ NewestFits'
  <2>1. PICK r \in Slots : /\ SentOut(r, IF term THEN "search" ELSE "page", L!Top, kind, term)
                           /\ \A s \in Slots \ {r} : Rested(s)
    BY <1>2, Filters
  <2>2. PageKept(r)
    BY <2>1 DEF SentOut, PageKept
  <2>3. \A s \in Slots \ {r} : PageKept(s)
    BY <2>1, RestedKept
  <2> QED
    BY <1>1, <1>2, <2>2, <2>3, Filters
<1>3. ASSUME L!Type PROVE MessageTimes' /\ NewestFits'
  BY <1>1, <1>3, TypesTerm, RestedKept
<1>4. ASSUME L!Debounced PROVE MessageTimes' /\ NewestFits'
  <2>1. PICK r \in Slots : /\ SentOut(r, "search", L!Top, filter, TRUE)
                           /\ \A s \in Slots \ {r} :
                                request'[s] = IF request[s].op = "search" THEN L!Idle ELSE request[s]
    BY <1>4, Debounces
  <2>2. PageKept(r)
    BY <2>1 DEF SentOut, PageKept
  <2>3. \A s \in Slots \ {r} : PageKept(s)
    BY <2>1, RestedKept
  <2> QED
    BY <1>1, <1>4, <2>2, <2>3, Debounces
<1>5. ASSUME L!ClearTerm PROVE MessageTimes' /\ NewestFits'
  <2>1. PICK r \in Slots : /\ SentOut(r, "page", L!Top, filter, FALSE)
                           /\ \A s \in Slots \ {r} : Rested(s)
    BY <1>5, Clears
  <2>2. PageKept(r)
    BY <2>1 DEF SentOut, PageKept
  <2>3. \A s \in Slots \ {r} : PageKept(s)
    BY <2>1, RestedKept
  <2> QED
    BY <1>1, <1>5, <2>2, <2>3, Clears
<1>6. ASSUME L!LoadMore PROVE MessageTimes' /\ NewestFits'
  <2>1. PICK r \in Slots : /\ SentOut(r, "page", cursor, filter, term)
                           /\ \A s \in Slots \ {r} : request'[s] = request[s]
    BY <1>6, LoadsMore
  <2>2. PageKept(r)
    BY <2>1 DEF SentOut, PageKept
  <2>3. \A s \in Slots \ {r} : PageKept(s)
    BY <2>1, RestedKept
  <2> QED
    BY <1>1, <1>6, <2>2, <2>3, LoadsMore
<1>7. ASSUME NEW c \in Convs, L!HistoryDeleted(c) PROVE MessageTimes' /\ NewestFits'
  <2>1. PICK r \in Slots :
          /\ SentOut(r, "page", L!Top, filter, term)
          /\ \A s \in Slots \ {r} : Rested(s) \/ (request[s].op = "search" /\ request'[s] = request[s])
    BY <1>7, Deleted
  <2>2. PageKept(r)
    BY <2>1 DEF SentOut, PageKept
  <2>3. \A s \in Slots \ {r} : PageKept(s)
    BY <2>1, RestedKept
  <2> QED
    BY <1>1, <1>7, <2>2, <2>3, Deleted
<1>8. ASSUME NEW c \in Convs, L!DeleteHistory(c) \/ L!Post(c) PROVE MessageTimes' /\ NewestFits'
  BY <1>8, DeleteTimes, PostTimes
<1>9. ASSUME NEW c \in Convs, L!Pin(c) PROVE MessageTimes' /\ NewestFits'
  <2>1. /\ UNCHANGED <<pending, events, clock>> /\ \A d \in Convs : row'[d].at = row[d].at
        /\ \A s \in Slots : Marked(request'[s], request[s])
    BY <1>9, Pins
  <2>2. \A s \in Slots : PageKept(s)
    BY <2>1 DEF Marked, PageKept
  <2> QED
    BY <2>1, <2>2, KeptPages, QuietTimes
<1>10. ASSUME L!WriteRow \/ L!HandleMessage PROVE MessageTimes' /\ NewestFits'
  BY <1>10, WriteTimes, HearTimes
<1>11. ASSUME NEW r \in Slots, L!ReadPinned(r) PROVE MessageTimes' /\ NewestFits'
  <2>1. /\ UNCHANGED <<row, pending, events, clock>> /\ \A s \in Slots \ {r} : request'[s] = request[s]
        /\ DOMAIN request'[r].page \subseteq Convs
        /\ \A c \in DOMAIN request'[r].page : request'[r].page[c] = row[c].at
    BY <1>11, PinnedRead
  <2>2. \A s \in Slots : \A c \in DOMAIN request[s].page : c \in Convs
    <3>1. \A s \in Slots : request[s].page \in L!PartialLists
      BY DEF ListTypes, ReqType
    <3> QED
      BY <3>1, PartialList
  <2>3. PagesFrom
    BY <2>1, <2>2 DEF PagesFrom
  <2> QED
    BY <2>1, <2>3, QuietTimes
<1>12. ASSUME NEW r \in Slots, L!ReadRows(r) PROVE MessageTimes' /\ NewestFits'
  <2> DEFINE head == L!FirstOf(r, Rest(r))
  <2>1. /\ UNCHANGED <<row, pending, events, clock>> /\ \A s \in Slots \ {r} : request'[s] = request[s]
        /\ DOMAIN request'[r].page = DOMAIN request[r].page \cup head
        /\ \A c \in DOMAIN request[r].page : request'[r].page[c] = request[r].page[c]
        /\ \A c \in head \ DOMAIN request[r].page : request'[r].page[c] = row[c].at
    BY <1>12, RowsRead
  <2>2. \A s \in Slots : \A c \in DOMAIN request[s].page : c \in Convs
    <3>1. \A s \in Slots : request[s].page \in L!PartialLists
      BY DEF ListTypes, ReqType
    <3> QED
      BY <3>1, PartialList
  <2>3. head \subseteq Convs
    BY DEF L!FirstOf, Rest
  <2> HIDE DEF head
  <2>4. PagesFrom
    BY <2>1, <2>2, <2>3 DEF PagesFrom
  <2> QED
    BY <2>1, <2>4, QuietTimes
<1>13. ASSUME NEW r \in Slots,
              L!PageArrives(r) \/ L!AbortedEnds(r) \/ L!SearchArrives(r) \/ L!Fails(r)
       PROVE  MessageTimes' /\ NewestFits'
  <2>1. /\ UNCHANGED <<row, pending, events, clock>> /\ request'[r] = L!Idle
        /\ \A s \in Slots \ {r} : request'[s] = request[s]
    BY <1>13, PageComes, AbortedGoes, SearchComes, FailsThen
  <2> QED
    BY <1>1, <2>1, RestedKept
<1> QED
  BY <1>2, <1>3, <1>4, <1>5, <1>6, <1>7, <1>8, <1>9, <1>10, <1>11, <1>12, <1>13 DEF L!Next

(* Requests, alive and dead.                                                *)
Live(r) == request[r].live /\ request[r].op = "page"
SlotShape(q, kind, typed) ==
  /\ q.pc = "idle" <=> q.op = "none"
  /\ q.op = "none" => ~q.live
  /\ q.op = "search" => q.live /\ typed /\ q.term /\ q.filter = kind /\ q.from = L!Top
  /\ q.op = "page" /\ q.live => q.filter = kind /\ (~typed => ~q.term)
  /\ q.pc = "half" /\ q.from # L!Top => DOMAIN q.page = {}

(* Pages of the list are loaded one at a time, each from the cursor of now, *)
(* unless the guard of loadMore let two through.                            *)
OnePage ==
  ~doubled => /\ \A r, s \in Slots : Live(r) /\ Live(s) => r = s
              /\ \A r \in Slots : Live(r) => request[r].from = cursor
RequestShapes == /\ timer => term
                 /\ \A r \in Slots : SlotShape(request[r], filter, term)
                 /\ OnePage

(* A slot with nothing to show as yet.                                      *)
Calm(s) == request'[s].pc = "up" \/ (~(request'[s].live /\ request'[s].op = "page") /\ request'[s].op # "search")

(* An idle slot has the shape of any filter and term.                       *)
LEMMA IdleShape ==
  ASSUME NEW s \in Slots, request'[s] = L!Idle, NEW kind, NEW typed
  PROVE  SlotShape(request'[s], kind, typed) /\ Calm(s) /\ ~request'[s].live
<1>1. L!Idle.op = "none" /\ L!Idle.pc = "idle" /\ L!Idle.live = FALSE
  BY IdleRequest
<1> HIDE DEF L!Idle
<1> QED
  BY <1>1 DEF SlotShape, Calm

(* So has a slot that an abort has put to rest.                             *)
LEMMA RestedShape ==
  ASSUME ListTypes, NEW s \in Slots, SlotShape(request[s], filter, term), Rested(s), NEW kind, NEW typed
  PROVE  SlotShape(request'[s], kind, typed) /\ Calm(s) /\ ~request'[s].live
<1>1. CASE request'[s] = L!Idle
  BY <1>1, IdleShape
<1>2. CASE request[s].op = "page" /\ CutOff(request'[s], request[s])
  BY <1>2 DEF CutOff, SlotShape, Calm
<1>3. CASE request[s].op = "none" /\ request'[s] = request[s]
  BY <1>3 DEF SlotShape, Calm
<1> QED
  BY <1>1, <1>2, <1>3 DEF Rested

(* A request that goes out has the shape of the filter and the term it goes *)
(* out with.                                                                *)
LEMMA SentShape ==
  ASSUME NEW r \in Slots, NEW op, NEW from, NEW kind, NEW typed, SentOut(r, op, from, kind, typed),
         op = "page" \/ (op = "search" /\ from = L!Top /\ typed)
  PROVE  SlotShape(request'[r], kind, typed) /\ Calm(r) /\ request'[r].from = from /\ request'[r].op = op
BY DEF SentOut, SlotShape, Calm

(* A change of the filter keeps the shapes, and leaves no search and no     *)
(* page that has read.                                                      *)
LEMMA FilterShapes ==
  ASSUME ListTypes, RequestShapes, NEW kind \in L!Filters, L!SetFilter(kind)
  PROVE  RequestShapes' /\ \A s \in Slots : Calm(s)
<1>0. /\ cursor' = L!Top /\ filter' = kind /\ timer' = FALSE /\ term' = term /\ term \in BOOLEAN
  BY Filters DEF ListTypes
<1> DEFINE op == IF term THEN "search" ELSE "page"
<1>1. PICK r \in Slots : SentOut(r, op, L!Top, kind, term) /\ \A s \in Slots \ {r} : Rested(s)
  BY Filters
<1>2. op = "page" \/ (op = "search" /\ L!Top = L!Top /\ term)
  OBVIOUS
<1> HIDE DEF op
<1>3. /\ SlotShape(request'[r], kind, term) /\ Calm(r) /\ request'[r].from = L!Top
  BY <1>1, <1>2, SentShape
<1>4. \A s \in Slots \ {r} : SlotShape(request'[s], kind, term) /\ Calm(s) /\ ~request'[s].live
  BY <1>1, RestedShape DEF RequestShapes
<1>5. OnePage'
  BY <1>0, <1>3, <1>4 DEF OnePage, Live
<1>6. \A s \in Slots : SlotShape(request'[s], filter', term')
  BY <1>0, <1>3, <1>4
<1> QED
  BY <1>0, <1>3, <1>4, <1>5, <1>6 DEF RequestShapes

(* So does clearing the term.                                               *)
LEMMA ClearShapes ==
  ASSUME ListTypes, RequestShapes, L!ClearTerm
  PROVE  RequestShapes' /\ \A s \in Slots : Calm(s)
<1>0. /\ cursor' = L!Top /\ filter' = filter /\ timer' = FALSE /\ term' = FALSE
  BY Clears
<1>1. PICK typed \in BOOLEAN : typed = FALSE
  OBVIOUS
<1>2. PICK r \in Slots : SentOut(r, "page", L!Top, filter, typed) /\ \A s \in Slots \ {r} : Rested(s)
  BY <1>1, Clears
<1>3. /\ SlotShape(request'[r], filter, typed) /\ Calm(r) /\ request'[r].from = L!Top
  BY <1>2, SentShape
<1>4. \A s \in Slots \ {r} : SlotShape(request'[s], filter, typed) /\ Calm(s) /\ ~request'[s].live
  BY <1>2, RestedShape DEF RequestShapes
<1>5. OnePage'
  BY <1>0, <1>3, <1>4 DEF OnePage, Live
<1>6. \A s \in Slots : SlotShape(request'[s], filter', term')
  BY <1>0, <1>1, <1>3, <1>4
<1> QED
  BY <1>0, <1>3, <1>4, <1>5, <1>6 DEF RequestShapes

(* Typing keeps the shapes, and leaves no search.                           *)
LEMMA TypeShapes ==
  ASSUME ListTypes, RequestShapes, L!Type
  PROVE  RequestShapes' /\ \A s \in Slots : request'[s] = request[s] \/ Calm(s)
<1>0. /\ cursor' = cursor /\ filter' = filter /\ doubled' = doubled /\ term' = TRUE
      /\ \A s \in Slots : request'[s] = IF request[s].op = "search" THEN L!Idle ELSE request[s]
  BY TypesTerm
<1>1. PICK typed \in BOOLEAN : typed = TRUE
  OBVIOUS
<1>2. ASSUME NEW s \in Slots
      PROVE  /\ SlotShape(request'[s], filter, typed) /\ (request'[s] = request[s] \/ Calm(s))
             /\ request'[s] = request[s] \/ ~request'[s].live
  <2>1. CASE request[s].op = "search"
    <3>1. request'[s] = L!Idle
      BY <1>0, <2>1
    <3> QED
      BY <3>1, IdleShape
  <2>2. CASE request[s].op # "search"
    BY <1>0, <1>1, <2>2 DEF RequestShapes, SlotShape
  <2> QED
    BY <2>1, <2>2
<1>3. OnePage'
  BY <1>0, <1>2 DEF RequestShapes, OnePage, Live
<1>4. \A s \in Slots : SlotShape(request'[s], filter', term')
  BY <1>0, <1>1, <1>2
<1> QED
  BY <1>0, <1>2, <1>3, <1>4 DEF RequestShapes

(* The timer keeps the shapes, and runs while there is a term.              *)
LEMMA DebounceShapes ==
  ASSUME ListTypes, RequestShapes, L!Debounced
  PROVE  RequestShapes' /\ term /\ \A s \in Slots : request'[s] = request[s] \/ Calm(s)
<1>0. /\ cursor' = cursor /\ filter' = filter /\ doubled' = doubled /\ term' = term /\ term /\ timer' = FALSE
  BY Debounces DEF RequestShapes
<1>1. PICK typed \in BOOLEAN : typed = TRUE
  OBVIOUS
<1>2. PICK r \in Slots : /\ SentOut(r, "search", L!Top, filter, typed)
                         /\ \A s \in Slots \ {r} :
                              request'[s] = IF request[s].op = "search" THEN L!Idle ELSE request[s]
  BY <1>1, Debounces
<1>3. SlotShape(request'[r], filter, typed) /\ Calm(r) /\ request'[r].op = "search"
  <2>1. PICK op : op = "search"
    OBVIOUS
  <2> QED
    BY <1>1, <1>2, <2>1, SentShape
<1>4. ASSUME NEW s \in Slots \ {r}
      PROVE  /\ SlotShape(request'[s], filter, typed) /\ (request'[s] = request[s] \/ Calm(s))
             /\ request'[s] = request[s] \/ ~request'[s].live
  <2>1. CASE request[s].op = "search"
    <3>1. request'[s] = L!Idle
      BY <1>2, <2>1
    <3> QED
      BY <3>1, IdleShape
  <2>2. CASE request[s].op # "search"
    BY <1>1, <1>2, <2>2 DEF RequestShapes, SlotShape
  <2> QED
    BY <2>1, <2>2
<1>5. OnePage'
  BY <1>0, <1>3, <1>4 DEF RequestShapes, OnePage, Live
<1>6. \A s \in Slots : SlotShape(request'[s], filter', term')
  BY <1>0, <1>1, <1>3, <1>4 DEF SlotShape
<1> QED
  BY <1>0, <1>3, <1>4, <1>5, <1>6 DEF RequestShapes

(* The next page keeps the shapes.                                          *)
LEMMA LoadMoreShapes ==
  ASSUME ListTypes, RequestShapes, L!LoadMore
  PROVE  RequestShapes' /\ \A s \in Slots : request'[s] = request[s] \/ Calm(s)
<1>0. /\ cursor' = cursor /\ filter' = filter /\ term' = term /\ timer' = timer
      /\ ~doubled' => ~doubled /\ \A s \in Slots : request[s].op = "page" => ~request[s].live
  BY LoadsMore
<1>1. PICK r \in Slots : SentOut(r, "page", cursor, filter, term) /\ \A s \in Slots \ {r} : request'[s] = request[s]
  BY LoadsMore
<1>2. /\ SlotShape(request'[r], filter, term) /\ Calm(r) /\ request'[r].from = cursor
  BY <1>1, SentShape
<1>3. OnePage'
  BY <1>0, <1>1, <1>2 DEF OnePage, Live
<1>4. \A s \in Slots : SlotShape(request'[s], filter', term')
  BY <1>0, <1>1, <1>2 DEF RequestShapes
<1> QED
  BY <1>0, <1>1, <1>2, <1>3, <1>4 DEF RequestShapes

(* The reload after a deletion keeps the shapes, and searches go on.        *)
LEMMA DeletedShapes ==
  ASSUME ListTypes, RequestShapes, NEW c \in Convs, L!HistoryDeleted(c)
  PROVE  /\ RequestShapes'
         /\ \A s \in Slots : Calm(s) \/ (request[s].op = "search" /\ request'[s] = request[s])
<1>0. /\ cursor' = L!Top /\ filter' = filter /\ term' = term /\ timer' = timer
  BY Deleted
<1>1. PICK r \in Slots :
        /\ SentOut(r, "page", L!Top, filter, term)
        /\ \A s \in Slots \ {r} : Rested(s) \/ (request[s].op = "search" /\ request'[s] = request[s])
  BY Deleted
<1>2. /\ SlotShape(request'[r], filter, term) /\ Calm(r) /\ request'[r].from = L!Top
  BY <1>1, SentShape
<1>3. \A s \in Slots \ {r} :
        /\ SlotShape(request'[s], filter, term) /\ (Calm(s) \/ (request[s].op = "search" /\ request'[s] = request[s]))
        /\ ~request'[s].live \/ request'[s].op = "search"
  BY <1>1, RestedShape DEF RequestShapes
<1>4. OnePage'
  BY <1>0, <1>2, <1>3 DEF OnePage, Live
<1>5. \A s \in Slots : SlotShape(request'[s], filter', term')
  BY <1>0, <1>2, <1>3
<1> QED
  BY <1>0, <1>2, <1>3, <1>4, <1>5 DEF RequestShapes

(* Slots that only hear of more, or rest.                                   *)
LEMMA MarkedShapes ==
  ASSUME RequestShapes, UNCHANGED <<filter, term, timer>>, NEW r,
         \A s \in Slots : s # r => Marked(request'[s], request[s]),
         r \in Slots => Marked(request'[r], request[r]) \/ request'[r] = L!Idle,
         (UNCHANGED <<cursor, doubled>>) \/ (r \in Slots /\ Live(r) /\ request'[r] = L!Idle /\ doubled' = doubled)
  PROVE  RequestShapes'
<1>0. filter' = filter /\ term' = term /\ timer' = timer
  OBVIOUS
<1>1. ASSUME NEW s \in Slots
      PROVE  /\ SlotShape(request'[s], filter, term)
             /\ \/ ~request'[s].live
                \/ request'[s].live = request[s].live /\ request'[s].op = request[s].op /\ request'[s].from = request[s].from
  <2>1. CASE Marked(request'[s], request[s])
    <3>1. SlotShape(request[s], filter, term)
      BY DEF RequestShapes
    <3> QED
      BY <2>1, <3>1 DEF Marked, SlotShape
  <2>2. CASE request'[s] = L!Idle
    BY <2>2, IdleShape
  <2> QED
    BY <2>1, <2>2
<1>2. OnePage'
  <2>1. CASE UNCHANGED <<cursor, doubled>>
    BY <1>1, <2>1 DEF RequestShapes, OnePage, Live
  <2>2. CASE r \in Slots /\ Live(r) /\ request'[r] = L!Idle /\ doubled' = doubled
    <3>1. ~request'[r].live
      BY <2>2, IdleShape
    <3> QED
      BY <1>1, <2>2, <3>1 DEF RequestShapes, OnePage, Live
  <2> QED
    BY <2>1, <2>2
<1>3. \A s \in Slots : SlotShape(request'[s], filter', term')
  BY <1>0, <1>1
<1> QED
  BY <1>0, <1>2, <1>3 DEF RequestShapes

(* The two reads of a request keep the shapes.                              *)
LEMMA ReadShapes ==
  ASSUME ListTypes, RequestShapes, NEW r \in Slots, L!ReadPinned(r) \/ L!ReadRows(r)
  PROVE  RequestShapes'
<1>0. /\ cursor' = cursor /\ filter' = filter /\ term' = term /\ timer' = timer /\ doubled' = doubled
      /\ \A s \in Slots \ {r} : request'[s] = request[s]
      /\ request'[r].op = request[r].op /\ request'[r].live = request[r].live
      /\ request'[r].from = request[r].from /\ request'[r].filter = request[r].filter
      /\ request'[r].term = request[r].term
  BY PinnedRead, RowsRead
<1>1. /\ request'[r].pc \in {"half", "down"} /\ request[r].pc \in {"up", "half"}
      /\ request'[r].pc = "half" /\ request'[r].from # L!Top => DOMAIN request'[r].page = {}
  <2>1. CASE L!ReadPinned(r)
    <3>1. /\ request[r].pc = "up" /\ request'[r].pc = "half" /\ request'[r].from = request[r].from
          /\ DOMAIN request'[r].page = {c \in Convs : L!Asked(r, c) /\ row[c].pinned /\ request[r].from = L!Top}
      BY <2>1, PinnedRead
    <3> QED
      BY <3>1
  <2>2. CASE L!ReadRows(r)
    <3>1. request[r].pc = "half" /\ request'[r].pc = "down"
      BY <2>2, RowsRead
    <3> QED
      BY <3>1
  <2> QED
    BY <2>1, <2>2
<1>2. SlotShape(request'[r], filter, term)
  <2>1. SlotShape(request[r], filter, term)
    BY DEF RequestShapes
  <2> QED
    BY <1>0, <1>1, <2>1 DEF SlotShape
<1>3. OnePage'
  BY <1>0 DEF RequestShapes, OnePage, Live
<1>4. \A s \in Slots : SlotShape(request'[s], filter', term')
  BY <1>0, <1>2 DEF RequestShapes
<1> QED
  BY <1>0, <1>3, <1>4 DEF RequestShapes

(* Every step of the list keeps the shapes of its requests.                 *)
LEMMA ShapesStep ==
  ASSUME ListTypes, RequestShapes, L!Next
  PROVE  RequestShapes'
<1>1. ASSUME (\E kind \in L!Filters : L!SetFilter(kind)) \/ L!Type \/ L!Debounced \/ L!ClearTerm \/ L!LoadMore
      PROVE  RequestShapes'
  BY <1>1, FilterShapes, TypeShapes, DebounceShapes, ClearShapes, LoadMoreShapes
<1>2. ASSUME NEW r \in Slots, L!ReadPinned(r) \/ L!ReadRows(r) PROVE RequestShapes'
  BY <1>2, ReadShapes
<1>3. ASSUME NEW c \in Convs, L!HistoryDeleted(c) PROVE RequestShapes'
  BY <1>3, DeletedShapes
<1>4. ASSUME UNCHANGED <<filter, term, timer, cursor, doubled>>, \A s \in Slots : Marked(request'[s], request[s])
      PROVE  RequestShapes'
  BY <1>4, MarkedShapes
<1>5. \A s \in Slots : Marked(request[s], request[s])
  BY DEF Marked
<1>6. ASSUME NEW c \in Convs, L!DeleteHistory(c) \/ L!Post(c) \/ L!Pin(c) PROVE RequestShapes'
  <2>1. CASE L!DeleteHistory(c)
    <3>1. UNCHANGED <<filter, term, timer, cursor, doubled, request>>
      BY <2>1, Deletes
    <3> QED
      BY <1>4, <1>5, <3>1
  <2>2. CASE L!Post(c)
    <3>1. UNCHANGED <<filter, term, timer, cursor, doubled, request>>
      BY <2>2, Posts
    <3> QED
      BY <1>4, <1>5, <3>1
  <2>3. CASE L!Pin(c)
    BY <1>4, <2>3, Pins
  <2> QED
    BY <1>6, <2>1, <2>2, <2>3
<1>7. ASSUME L!WriteRow \/ L!HandleMessage PROVE RequestShapes'
  <2>1. CASE L!WriteRow
    <3>1. UNCHANGED <<filter, term, timer, cursor, doubled, request>>
      BY <2>1, Writes
    <3> QED
      BY <1>4, <1>5, <3>1
  <2>2. CASE L!HandleMessage
    BY <1>4, <2>2, HearsMessage
  <2> QED
    BY <1>7, <2>1, <2>2
<1>8. ASSUME NEW r \in Slots, L!PageArrives(r) PROVE RequestShapes'
  <2>1. /\ UNCHANGED <<filter, term, timer, doubled>> /\ request'[r] = L!Idle
        /\ \A s \in Slots \ {r} : request'[s] = request[s] /\ request[r].op = "page" /\ request[r].live
    BY <1>8, PageComes
  <2>2. Live(r)
    BY <1>8, PageComes DEF Live
  <2>3. \A s \in Slots : s # r => Marked(request'[s], request[s])
    BY <1>5, <2>1
  <2> QED
    BY <2>1, <2>2, <2>3, MarkedShapes
<1>9. ASSUME NEW r \in Slots, L!AbortedEnds(r) \/ L!SearchArrives(r) \/ L!Fails(r) PROVE RequestShapes'
  <2>1. /\ UNCHANGED <<filter, term, timer, doubled, cursor>> /\ request'[r] = L!Idle
        /\ \A s \in Slots \ {r} : request'[s] = request[s]
    BY <1>9, AbortedGoes, SearchComes, FailsThen
  <2>2. \A s \in Slots : s # r => Marked(request'[s], request[s])
    BY <1>5, <2>1
  <2> QED
    BY <2>1, <2>2, MarkedShapes
<1> QED
  BY <1>1, <1>2, <1>3, <1>6, <1>7, <1>8, <1>9 DEF L!Next

(* A search brings every hit, but for those that changed under it; once it  *)
(* is there they stay.                                                      *)
SearchBrings(r) ==
  request[r].op = "search" => \A c \in Hits : L!InFilter(c) =>
    \/ c \in DOMAIN request[r].page \/ c \in request[r].behind
    \/ request[r].pc = "up" \/ (request[r].pc = "half" /\ ~row[c].pinned)
HitsShown == term /\ found => \A c \in Hits \ overtaken : L!InFilter(c) => c \in DOMAIN list
SearchInv == HitsShown /\ \A r \in Slots : SearchBrings(r)

(* While the filter stays, so does what it lets through.                    *)
LEMMA SameFilter ==
  ASSUME NEW c, filter' = filter
  PROVE  L!InFilter(c)' <=> L!InFilter(c)
BY DEF L!InFilter

(* A slot that is no search, or has read nothing, has nothing to bring.     *)
LEMMA CalmSearch ==
  ASSUME NEW r \in Slots, Calm(r)
  PROVE  SearchBrings(r)'
BY DEF Calm, SearchBrings

(* The list keeps what it has.                                              *)
LEMMA HitsStay ==
  ASSUME HitsShown, term' => term, found' => found, filter' = filter, DOMAIN list \subseteq DOMAIN list',
         overtaken \subseteq overtaken'
  PROVE  HitsShown'
BY SameFilter DEF HitsShown

(* Whose rows are pinned is what a search may miss.                         *)
LEMMA SearchStays ==
  ASSUME ListTypes, NEW r \in Slots, SearchBrings(r), Marked(request'[r], request[r]), filter' = filter,
         \A c \in Hits : row'[c].pinned => row[c].pinned
  PROVE  SearchBrings(r)'
BY SameFilter DEF SearchBrings, Marked

(* The reads of a request keep what the searches bring.                     *)
LEMMA SearchRead ==
  ASSUME ListTypes, RequestShapes, SearchInv, NEW r \in Slots, L!ReadPinned(r) \/ L!ReadRows(r)
  PROVE  SearchInv'
<1>0. /\ filter' = filter /\ row' = row /\ list' = list /\ term' = term /\ found' = found /\ overtaken' = overtaken
      /\ \A s \in Slots \ {r} : request'[s] = request[s]
      /\ request'[r].op = request[r].op
  BY PinnedRead, RowsRead
<1>1. HitsShown'
  BY <1>0, HitsStay DEF SearchInv
<1>2. ASSUME NEW s \in Slots \ {r} PROVE SearchBrings(s)'
  <2>1. SearchBrings(s) /\ request'[s] = request[s]
    BY <1>0 DEF SearchInv
  <2> QED
    BY <1>0, <2>1, SameFilter DEF SearchBrings
<1>3. ASSUME request[r].op = "search", NEW c \in Hits, L!InFilter(c)
      PROVE  L!Asked(r, c) /\ c \in Convs /\ request[r].from = L!Top
  <2>1. /\ request[r].from = L!Top /\ request[r].filter = filter
    BY <1>3 DEF RequestShapes, SlotShape
  <2>2. c \in Convs
    BY ListAssumption
  <2> QED
    BY <1>3, <2>1, <2>2 DEF L!Asked, L!InFilter
<1>4. SearchBrings(r)'
  <2> SUFFICES ASSUME request[r].op = "search", NEW c \in Hits, L!InFilter(c)
               PROVE  \/ c \in DOMAIN request'[r].page \/ c \in request'[r].behind
                      \/ request'[r].pc = "up" \/ (request'[r].pc = "half" /\ ~row[c].pinned)
    BY <1>0, SameFilter DEF SearchBrings
  <2>1. L!Asked(r, c) /\ c \in Convs /\ request[r].from = L!Top
    BY <1>3
  <2>2. CASE L!ReadPinned(r)
    <3>1. /\ request'[r].pc = "half"
          /\ DOMAIN request'[r].page = {d \in Convs : L!Asked(r, d) /\ row[d].pinned /\ request[r].from = L!Top}
      BY <2>2, PinnedRead
    <3> QED
      BY <2>1, <3>1
  <2>3. CASE L!ReadRows(r)
    <3>1. /\ request[r].pc = "half" /\ request[r].behind \subseteq request'[r].behind
          /\ DOMAIN request'[r].page = DOMAIN request[r].page \cup L!FirstOf(r, Rest(r))
      BY <2>3, RowsRead
    <3>2. c \in DOMAIN request[r].page \/ c \in request[r].behind \/ ~row[c].pinned
      BY <3>1 DEF SearchInv, SearchBrings
    <3>3. ASSUME ~row[c].pinned PROVE c \in L!FirstOf(r, Rest(r))
      BY <2>1, <3>3 DEF Rest, L!FirstOf, L!After
    <3> QED
      BY <3>1, <3>2, <3>3
  <2> QED
    BY <2>2, <2>3
<1> QED
  BY <1>1, <1>2, <1>4 DEF SearchInv

(* Every step of the list keeps the hits: they are shown, or a search       *)
(* brings them.                                                             *)
LEMMA SearchStep ==
  ASSUME ListTypes, RequestShapes, SearchInv, L!Next
  PROVE  SearchInv'
<1>0. HitsShown /\ \A s \in Slots : SearchBrings(s)
  BY DEF SearchInv
<1>1. \A s \in Slots : Marked(request[s], request[s])
  BY DEF Marked
<1>2. ASSUME filter' = filter, \A c \in Hits : row'[c].pinned => row[c].pinned,
             \A s \in Slots : request'[s] = request[s] \/ Calm(s)
      PROVE  \A s \in Slots : SearchBrings(s)'
  <2>1. ASSUME NEW s \in Slots, request'[s] = request[s] PROVE SearchBrings(s)'
    BY <1>0, <1>1, <1>2, <2>1, SearchStays
  <2> QED
    BY <1>2, <2>1, CalmSearch
<1>3. ASSUME NEW kind \in L!Filters, L!SetFilter(kind) PROVE SearchInv'
  <2>1. found' = FALSE /\ \A s \in Slots : Calm(s)
    BY <1>3, Filters, FilterShapes
  <2> QED
    BY <2>1, CalmSearch DEF SearchInv, HitsShown
<1>4. ASSUME L!Type PROVE SearchInv'
  <2>1. /\ found' = FALSE /\ filter' = filter /\ row' = row /\ \A s \in Slots : request'[s] = request[s] \/ Calm(s)
    BY <1>4, TypesTerm, TypeShapes
  <2> QED
    BY <1>2, <2>1 DEF SearchInv, HitsShown
<1>5. ASSUME L!Debounced PROVE SearchInv'
  <2>1. /\ UNCHANGED <<filter, row, term, found, overtaken, list>>
        /\ \A s \in Slots : request'[s] = request[s] \/ Calm(s)
    BY <1>5, Debounces, DebounceShapes
  <2> QED
    BY <1>0, <1>2, <2>1, HitsStay DEF SearchInv
<1>6. ASSUME L!ClearTerm PROVE SearchInv'
  <2>1. found' = FALSE /\ \A s \in Slots : Calm(s)
    BY <1>6, Clears, ClearShapes
  <2> QED
    BY <2>1, CalmSearch DEF SearchInv, HitsShown
<1>7. ASSUME L!LoadMore PROVE SearchInv'
  <2>1. /\ UNCHANGED <<filter, row, term, found, overtaken, list>>
        /\ \A s \in Slots : request'[s] = request[s] \/ Calm(s)
    BY <1>7, LoadsMore, LoadMoreShapes
  <2> QED
    BY <1>0, <1>2, <2>1, HitsStay DEF SearchInv
<1>8. ASSUME NEW c \in Convs, L!DeleteHistory(c) PROVE SearchInv'
  <2>1. /\ UNCHANGED <<filter, term, found, overtaken, list, request>> /\ row'[c].pinned = FALSE
        /\ \A d \in Convs \ {c} : row'[d] = row[d]
    BY <1>8, Deletes
  <2>2. \A d \in Hits : row'[d].pinned => row[d].pinned
    BY <2>1, ListAssumption
  <2> QED
    BY <1>0, <1>2, <2>1, <2>2, HitsStay DEF SearchInv
<1>9. ASSUME NEW c \in Convs, L!HistoryDeleted(c) PROVE SearchInv'
  <2>1. /\ UNCHANGED <<filter, row, term, found>> /\ DOMAIN list' = DOMAIN list
        /\ overtaken' = IF doubled THEN Convs ELSE overtaken \cup {c}
        /\ \A s \in Slots : request'[s] = request[s] \/ Calm(s)
    BY <1>9, Deleted, DeletedShapes
  <2>2. overtaken \subseteq overtaken'
    BY <2>1 DEF ListTypes
  <2> QED
    BY <1>0, <1>2, <2>1, <2>2, HitsStay DEF SearchInv
<1>10. ASSUME NEW c \in Convs, L!Post(c) PROVE SearchInv'
  <2>1. UNCHANGED <<filter, row, term, found, overtaken, list, request>>
    BY <1>10, Posts
  <2> QED
    BY <1>0, <1>2, <2>1, HitsStay DEF SearchInv
<1>11. ASSUME NEW c \in Convs, L!Pin(c) PROVE SearchInv'
  <2>1. /\ UNCHANGED <<filter, term, found, list>>
        /\ \A d \in Convs \ {c} : row'[d] = row[d]
        /\ \A r \in Slots : /\ Marked(request'[r], request[r])
                            /\ request[r].pc \in {"half", "down"} /\ c \notin DOMAIN request[r].page
                                 => c \in request'[r].behind
        /\ overtaken \subseteq overtaken'
    BY <1>11, Pins
  <2>2. ASSUME NEW r \in Slots, request[r].op = "search", NEW d \in Hits, L!InFilter(d)
        PROVE  \/ d \in DOMAIN request'[r].page \/ d \in request'[r].behind
               \/ request'[r].pc = "up" \/ (request'[r].pc = "half" /\ ~row'[d].pinned)
    <3>1. /\ request'[r].page = request[r].page /\ request'[r].pc = request[r].pc
          /\ request[r].behind \subseteq request'[r].behind
      BY <2>1 DEF Marked
    <3>2. \/ d \in DOMAIN request[r].page \/ d \in request[r].behind
          \/ request[r].pc = "up" \/ (request[r].pc = "half" /\ ~row[d].pinned)
      BY <1>0, <2>2 DEF SearchBrings
    <3>3. d \in Convs
      BY ListAssumption
    <3>4. d = c \/ row'[d] = row[d]
      BY <2>1, <3>3
    <3> QED
      BY <2>1, <3>1, <3>2, <3>4
  <2>3. \A r \in Slots : request'[r].op = request[r].op
    BY <2>1 DEF Marked
  <2>4. \A r \in Slots : SearchBrings(r)'
    BY <2>1, <2>2, <2>3, SameFilter DEF SearchBrings
  <2> QED
    BY <1>0, <2>1, <2>4, HitsStay DEF SearchInv
<1>12. ASSUME L!WriteRow PROVE SearchInv'
  <2>1. UNCHANGED <<filter, term, found, overtaken, list, request>> /\ \A c \in Convs : row'[c].pinned = row[c].pinned
    BY <1>12, Writes
  <2>2. \A d \in Hits : row'[d].pinned => row[d].pinned
    BY <2>1, ListAssumption
  <2> QED
    BY <1>0, <1>2, <2>1, <2>2, HitsStay DEF SearchInv
<1>13. ASSUME L!HandleMessage PROVE SearchInv'
  <2>1. /\ UNCHANGED <<row, filter, term, found, overtaken>> /\ DOMAIN list \subseteq DOMAIN list'
        /\ \A s \in Slots : Marked(request'[s], request[s])
    BY <1>13, HearsMessage
  <2>2. \A s \in Slots : SearchBrings(s)'
    BY <1>0, <2>1, SearchStays
  <2> QED
    BY <1>0, <2>1, <2>2, HitsStay DEF SearchInv
<1>14. ASSUME NEW r \in Slots, L!ReadPinned(r) \/ L!ReadRows(r) PROVE SearchInv'
  BY <1>14, SearchRead
<1>15. ASSUME NEW r \in Slots, L!PageArrives(r) PROVE SearchInv'
  <2>1. /\ UNCHANGED <<filter, row, term>> /\ request'[r] = L!Idle
        /\ \A s \in Slots \ {r} : request'[s] = request[s]
        /\ found' => found /\ cursor # L!Top
        /\ list' = IF cursor = L!Top THEN request[r].page ELSE L!Over(list, request[r].page)
        /\ overtaken' = IF cursor = L!Top THEN request[r].behind ELSE overtaken
    BY <1>15, PageComes
  <2>2. Calm(r)
    BY <2>1, IdleShape
  <2>3. \A s \in Slots : SearchBrings(s)'
    BY <1>2, <2>1, <2>2
  <2>4. request[r].page \in L!PartialLists /\ list \in L!PartialLists
    BY DEF ListTypes, ReqType
  <2>5. DOMAIN L!Over(list, request[r].page) = DOMAIN list \cup DOMAIN request[r].page
    BY <2>4, OverListed
  <2>6. ASSUME found' PROVE HitsShown'
    BY <1>0, <2>1, <2>5, <2>6, HitsStay
  <2>7. ASSUME ~found' PROVE HitsShown'
    BY <2>7 DEF HitsShown
  <2> QED
    BY <2>3, <2>6, <2>7 DEF SearchInv
<1>16. ASSUME NEW r \in Slots, L!SearchArrives(r) PROVE SearchInv'
  <2>1. /\ UNCHANGED <<filter, row, term>> /\ request'[r] = L!Idle
        /\ \A s \in Slots \ {r} : request'[s] = request[s]
        /\ request[r].op = "search" /\ request[r].pc = "down"
        /\ list' = L!Over(list, request[r].page) /\ overtaken' = overtaken \cup request[r].behind
    BY <1>16, SearchComes
  <2>2. Calm(r)
    BY <2>1, IdleShape
  <2>3. \A s \in Slots : SearchBrings(s)'
    BY <1>2, <2>1, <2>2
  <2>4. request[r].page \in L!PartialLists /\ list \in L!PartialLists
    BY DEF ListTypes, ReqType
  <2>5. DOMAIN list' = DOMAIN list \cup DOMAIN request[r].page
    BY <2>1, <2>4, OverListed
  <2>6. \A c \in Hits : L!InFilter(c) => c \in DOMAIN request[r].page \/ c \in request[r].behind
    BY <1>0, <2>1 DEF SearchBrings
  <2>7. HitsShown'
    BY <2>1, <2>5, <2>6, SameFilter DEF HitsShown
  <2> QED
    BY <2>3, <2>7 DEF SearchInv
<1>17. ASSUME NEW r \in Slots, L!AbortedEnds(r) \/ L!Fails(r) PROVE SearchInv'
  <2>1. /\ UNCHANGED <<filter, row, term, found, list, overtaken>> /\ request'[r] = L!Idle
        /\ \A s \in Slots \ {r} : request'[s] = request[s]
    BY <1>17, AbortedGoes, FailsThen
  <2>2. Calm(r)
    BY <2>1, IdleShape
  <2>3. \A s \in Slots : SearchBrings(s)'
    BY <1>2, <2>1, <2>2
  <2> QED
    BY <1>0, <2>1, <2>3, HitsStay DEF SearchInv
<1> QED
  BY <1>3, <1>4, <1>5, <1>6, <1>7, <1>8, <1>9, <1>10, <1>11, <1>12, <1>13, <1>14, <1>15, <1>16, <1>17 DEF L!Next

(* A conversation that is not in the list and need not be.                  *)
Waits(c, following, from) ==
  Owed(c) = {} /\ ~row[c].pinned /\ (row[c].at = 0 \/ (following /\ L!After(c, from)))
ListedRight(c) == IF c \in DOMAIN list THEN Fits(c, list[c]) ELSE Waits(c, more, cursor)
ListRight ==
  ~term /\ ~doubled /\ (~more \/ cursor # L!Top) =>
    \A c \in Convs \ overtaken : L!InFilter(c) /\ Heard(c) => ListedRight(c)

(* What a first page and a later one, read and on its way, will make of a   *)
(* conversation.                                                            *)
FirstRight(r, c) ==
  \/ c \in request[r].behind
  \/ c \in DOMAIN request[r].page /\ Fits(c, request[r].page[c])
  \/ /\ c \notin DOMAIN request[r].page /\ Owed(c) = {} /\ ~row[c].pinned
     /\ request[r].pc = "down" => Waits(c, request[r].more, request[r].next)
NextRight(r, c) ==
  \/ c \in DOMAIN list \/ c \in overtaken
  \/ c \in DOMAIN request[r].page /\ Fits(c, request[r].page[c])
  \/ c \notin DOMAIN request[r].page /\ Waits(c, request[r].more, request[r].next)
PageRight(r, c) ==
  /\ request[r].pc \in {"half", "down"} /\ cursor = L!Top => FirstRight(r, c)
  /\ request[r].pc = "down" /\ cursor # L!Top => NextRight(r, c)
PagesRight ==
  ~term /\ ~doubled =>
    \A r \in Slots : Live(r) => \A c \in Convs : L!InFilter(c) /\ Heard(c) => PageRight(r, c)

(* A conversation that a step leaves alone.                                 *)
ConvStays(c) == row'[c] = row[c] /\ Owed(c)' = Owed(c)
(* A conversation that a step leaves alone goes on waiting.                 *)
LEMMA WaitStays ==
  ASSUME NEW c \in Convs, ConvStays(c), NEW following, NEW from, Waits(c, following, from)
  PROVE  /\ Owed(c)' = {} /\ ~row'[c].pinned
         /\ row'[c].at = 0 \/ (following /\ (from = L!Top \/ (row'[c].at # 0 /\ (row'[c].at < from[1]
                                \/ (row'[c].at = from[1] /\ c < from[2])))))
BY DEF Waits, ConvStays, L!After

(* A conversation that a step leaves alone stays right in the list.         *)
LEMMA ListedStays ==
  ASSUME NEW c \in Convs, ConvStays(c), UNCHANGED <<more, cursor>>, c \in DOMAIN list' <=> c \in DOMAIN list,
         c \in DOMAIN list => list'[c] = list[c], ListedRight(c)
  PROVE  ListedRight(c)'
<1>1. CASE c \in DOMAIN list
  BY <1>1 DEF ListedRight, ConvStays, Fits
<1>2. CASE c \notin DOMAIN list
  BY <1>2 DEF ListedRight, ConvStays, Waits, L!After
<1> QED
  BY <1>1, <1>2

(* A conversation that a step leaves alone stays right in a page.           *)
LEMMA PageStays ==
  ASSUME NEW c \in Convs, NEW r \in Slots, ConvStays(c), Marked(request'[r], request[r]), cursor' = cursor,
         DOMAIN list \subseteq DOMAIN list', overtaken \subseteq overtaken', PageRight(r, c)
  PROVE  PageRight(r, c)'
<1>1. /\ request'[r].pc = request[r].pc /\ request'[r].page = request[r].page /\ request'[r].more = request[r].more
      /\ request'[r].next = request[r].next /\ request[r].behind \subseteq request'[r].behind
  BY DEF Marked
<1>2. Waits(c, request[r].more, request[r].next) => Waits(c, request[r].more, request[r].next)'
  BY <1>1 DEF Waits, ConvStays, L!After
<1>3. ASSUME c \in DOMAIN request[r].page, Fits(c, request[r].page[c]) PROVE Fits(c, request[r].page[c])'
  BY <1>1, <1>3 DEF Fits, ConvStays
<1>4. FirstRight(r, c) => FirstRight(r, c)'
  BY <1>1, <1>2, <1>3 DEF FirstRight, ConvStays
<1>5. NextRight(r, c) => NextRight(r, c)'
  BY <1>1, <1>2, <1>3 DEF NextRight
<1> QED
  BY <1>1, <1>4, <1>5 DEF PageRight

(* A step that concerns one conversation.                                   *)
LEMMA OneChanges ==
  ASSUME ListTypes, ListRight, PagesRight, UNCHANGED <<cursor, more, filter, term, doubled>>, NEW c \in Convs,
         \A d \in Convs \ {c} : /\ ConvStays(d) /\ (Heard(d)' => Heard(d))
                                /\ (d \in DOMAIN list' <=> d \in DOMAIN list)
                                /\ d \in DOMAIN list => list'[d] = list[d],
         overtaken \subseteq overtaken', DOMAIN list \subseteq DOMAIN list',
         \A r \in Slots : Marked(request'[r], request[r]),
         ~term /\ ~doubled /\ (~more \/ cursor # L!Top) /\ c \notin overtaken' /\ L!InFilter(c) /\ Heard(c)'
           => ListedRight(c)',
         ~term /\ ~doubled /\ L!InFilter(c) /\ Heard(c)' => \A r \in Slots : Live(r) => PageRight(r, c)'
  PROVE  ListRight' /\ PagesRight'
<1>0. cursor' = cursor /\ more' = more /\ term' = term /\ doubled' = doubled /\ filter' = filter
  OBVIOUS
<1>1. ASSUME ~term, ~doubled, ~more \/ cursor # L!Top, NEW d \in Convs \ overtaken', L!InFilter(d), Heard(d)'
      PROVE  ListedRight(d)'
  <2>1. CASE d = c
    BY <1>1, <2>1
  <2>2. CASE d # c
    <3>1. ListedRight(d)
      BY <1>1, <2>2 DEF ListRight
    <3> QED
      BY <1>0, <2>2, <3>1, ListedStays
  <2> QED
    BY <2>1, <2>2
<1>2. ListRight'
  BY <1>0, <1>1, SameFilter DEF ListRight
<1>3. \A r \in Slots : Live(r)' => Live(r)
  BY DEF Marked, Live
<1>4. ASSUME ~term, ~doubled, NEW r \in Slots, Live(r), NEW d \in Convs, L!InFilter(d), Heard(d)'
      PROVE  PageRight(r, d)'
  <2>1. CASE d = c
    BY <1>4, <2>1
  <2>2. CASE d # c
    <3>1. PageRight(r, d)
      BY <1>4, <2>2 DEF PagesRight
    <3> QED
      BY <1>0, <2>2, <3>1, PageStays
  <2> QED
    BY <2>1, <2>2
<1>5. PagesRight'
  BY <1>0, <1>3, <1>4, SameFilter DEF PagesRight
<1> QED
  BY <1>2, <1>5

(* A step that concerns requests only.                                      *)
LEMMA RequestsChange ==
  ASSUME ListTypes, ListRight, PagesRight, UNCHANGED <<row, pending, events, list, cursor, more, filter, term, overtaken>>,
         ~doubled' => ~doubled, \A s \in Slots : request'[s] = request[s] \/ Calm(s)
  PROVE  ListRight' /\ PagesRight'
<1>0. /\ cursor' = cursor /\ more' = more /\ term' = term /\ filter' = filter /\ list' = list
      /\ row' = row /\ pending' = pending /\ events' = events /\ overtaken' = overtaken
  OBVIOUS
<1>1. \A c \in Convs : ConvStays(c) /\ (Heard(c)' => Heard(c))
  BY <1>0 DEF ConvStays, Owed, Heard
<1>2. ListRight'
  BY <1>0, <1>1, SameFilter, ListedStays DEF ListRight
<1>3. ASSUME ~term, ~doubled, NEW r \in Slots, Live(r)', NEW c \in Convs, L!InFilter(c), Heard(c)'
      PROVE  PageRight(r, c)'
  <2>1. CASE request'[r] = request[r]
    <3>1. Live(r) /\ Marked(request'[r], request[r])
      BY <1>3, <2>1 DEF Live, Marked
    <3>2. PageRight(r, c)
      BY <1>1, <1>3, <3>1 DEF PagesRight
    <3> QED
      BY <1>0, <1>1, <3>1, <3>2, PageStays
  <2>2. CASE Calm(r)
    <3>1. request'[r].pc = "up"
      BY <1>3, <2>2 DEF Calm, Live
    <3> QED
      BY <3>1 DEF PageRight
  <2> QED
    BY <2>1, <2>2
<1>4. PagesRight'
  BY <1>0, <1>3, SameFilter DEF PagesRight
<1> QED
  BY <1>2, <1>4

(* A new message has an event on its way, and so nothing to be right about. *)
LEMMA PostRight ==
  ASSUME ListTypes, ListRight, PagesRight, NEW c \in Convs, L!Post(c)
  PROVE  ListRight' /\ PagesRight'
<1>1. PICK m \in [conv : Convs, at : L!Times] :
        /\ UNCHANGED <<row, list, cursor, more, filter, term, request, doubled, overtaken>>
        /\ m.conv = c /\ events' = events \cup {m} /\ pending' = pending \cup {m}
  BY Posts
<1>2. ~Heard(c)'
  BY <1>1 DEF Heard
<1>3. \A d \in Convs \ {c} : ConvStays(d) /\ (Heard(d)' => Heard(d))
  BY <1>1 DEF ConvStays, Owed, Heard
<1>4. \A r \in Slots : Marked(request'[r], request[r])
  BY <1>1 DEF Marked
<1> QED
  BY <1>1, <1>2, <1>3, <1>4, OneChanges

(* The write of a row keeps the list and its pages right.                   *)
LEMMA WriteRight ==
  ASSUME ListTypes, MessageTimes, RequestShapes, ListRight, PagesRight, L!WriteRow
  PROVE  ListRight' /\ PagesRight'
<1>1. PICK m \in pending : /\ m \in [conv : Convs, at : L!Times] /\ L!First(m, pending)
                           /\ pending' = pending \ {m} /\ row'[m.conv].at = m.at
                           /\ \A d \in Convs : row'[d].pinned = row[d].pinned
                           /\ \A d \in Convs \ {m.conv} : row'[d].at = row[d].at
                           /\ UNCHANGED <<events, list, cursor, more, filter, term, request, doubled, overtaken>>
  BY Writes
<1> DEFINE c == m.conv
<1>2. c \in Convs /\ m \in Owed(c)
  BY <1>1 DEF Owed
<1> HIDE DEF c
<1>3. \A d \in Convs \ {c} : ConvStays(d) /\ (Heard(d)' => Heard(d))
  <2>1. row \in [Convs -> [at : L!Times, pinned : BOOLEAN]] /\ row' \in [Convs -> [at : L!Times, pinned : BOOLEAN]]
    BY Writes DEF ListTypes
  <2>2. \A d \in Convs \ {c} : row'[d] = row[d]
    BY <1>1, <2>1 DEF c
  <2>3. \A d \in Convs \ {c} : Owed(d)' = Owed(d)
    BY <1>1 DEF Owed, c
  <2> QED
    BY <1>1, <2>2, <2>3 DEF ConvStays, Heard
<1>4. \A r \in Slots : Marked(request'[r], request[r])
  BY <1>1 DEF Marked
<1>5. ASSUME NEW v, Fits(c, v) PROVE FitsWith(Owed(c)', row'[c].at, v)
  BY <1>1, <1>5, WriteFits DEF c
<1>6. \A following, from : ~Waits(c, following, from)
  BY <1>2 DEF Waits
<1>7. Heard(c)' => Heard(c)
  BY <1>1 DEF Heard
<1>8. ASSUME ~term, ~doubled, ~more \/ cursor # L!Top, c \notin overtaken', L!InFilter(c), Heard(c)'
      PROVE  ListedRight(c)' /\ c \in DOMAIN list
  <2>1. ListedRight(c)
    BY <1>1, <1>2, <1>7, <1>8 DEF ListRight
  <2>2. c \in DOMAIN list /\ Fits(c, list[c])
    BY <1>6, <2>1 DEF ListedRight
  <2>3. FitsWith(Owed(c)', row'[c].at, list[c])
    BY <1>5, <2>2
  <2> QED
    BY <1>1, <2>2, <2>3 DEF ListedRight, Fits
<1>9. ASSUME ~term, ~doubled, L!InFilter(c), Heard(c)', NEW r \in Slots, Live(r) PROVE PageRight(r, c)'
  <2>1. PageRight(r, c)
    BY <1>2, <1>7, <1>9 DEF PagesRight
  <2>2. ASSUME c \in DOMAIN request[r].page, Fits(c, request[r].page[c])
        PROVE  Fits(c, request[r].page[c])'
    BY <1>1, <1>5, <2>2 DEF Fits
  <2>3. request' = request /\ cursor' = cursor /\ overtaken' = overtaken /\ list' = list
    BY <1>1
  <2>4. FirstRight(r, c) => FirstRight(r, c)'
    BY <1>2, <2>2, <2>3 DEF FirstRight
  <2>5. cursor # L!Top => NextRight(r, c)'
    BY <1>8, <1>9, <2>3 DEF NextRight
  <2> QED
    BY <2>1, <2>3, <2>4, <2>5 DEF PageRight
<1> QED
  BY <1>1, <1>2, <1>3, <1>4, <1>8, <1>9, OneChanges

(* The deletion of a history keeps them right: its row shows nothing.       *)
LEMMA DeleteRight ==
  ASSUME ListTypes, ListRight, PagesRight, NEW c \in Convs, L!DeleteHistory(c)
  PROVE  ListRight' /\ PagesRight'
<1>1. /\ UNCHANGED <<events, list, cursor, more, filter, term, request, doubled, overtaken>>
      /\ row'[c].at = 0 /\ row'[c].pinned = FALSE /\ \A d \in Convs \ {c} : row'[d] = row[d]
  BY Deletes
<1>2. Owed(c)' = {} /\ \A d \in Convs \ {c} : Owed(d)' = Owed(d)
  <2>1. pending' = {m \in pending : m.conv # c}
    BY Deletes
  <2> QED
    BY <2>1 DEF Owed
<1>3. \A d \in Convs \ {c} : ConvStays(d) /\ (Heard(d)' => Heard(d))
  BY <1>1, <1>2 DEF ConvStays, Heard
<1>4. \A r \in Slots : Marked(request'[r], request[r])
  BY <1>1 DEF Marked
<1>5. \A v : FitsWith(Owed(c)', row'[c].at, v)
  BY <1>1, <1>2 DEF FitsWith
<1>6. ListedRight(c)'
  BY <1>1, <1>2, <1>5 DEF ListedRight, Waits, Fits
<1>7. ASSUME NEW r \in Slots PROVE PageRight(r, c)'
  BY <1>1, <1>2, <1>5 DEF PageRight, FirstRight, NextRight, Waits, Fits
<1> QED
  BY <1>1, <1>3, <1>4, <1>6, <1>7, OneChanges

(* A pin keeps them right: a page that missed it is behind, and so is the   *)
(* list.                                                                    *)
LEMMA PinRight ==
  ASSUME ListTypes, ListRight, PagesRight, NEW c \in Convs, L!Pin(c)
  PROVE  ListRight' /\ PagesRight'
<1>1. /\ UNCHANGED <<pending, events, list, cursor, more, filter, term, doubled>> /\ row'[c].at = row[c].at
      /\ \A d \in Convs \ {c} : row'[d] = row[d]
      /\ \A r \in Slots : /\ Marked(request'[r], request[r])
                          /\ request[r].pc \in {"half", "down"} /\ c \notin DOMAIN request[r].page
                               => c \in request'[r].behind
      /\ overtaken' = IF c \in DOMAIN list THEN overtaken ELSE overtaken \cup {c}
  BY Pins
<1>2. (\A d \in Convs : Owed(d)' = Owed(d)) /\ \A d \in Convs : Heard(d)' => Heard(d)
  BY <1>1 DEF Owed, Heard
<1>3. \A d \in Convs \ {c} : ConvStays(d) /\ (Heard(d)' => Heard(d))
  BY <1>1, <1>2 DEF ConvStays
<1>4. ASSUME ~term, ~doubled, ~more \/ cursor # L!Top, c \notin overtaken', L!InFilter(c), Heard(c)'
      PROVE  ListedRight(c)'
  <2>1. c \in DOMAIN list /\ c \notin overtaken
    BY <1>1, <1>4
  <2>2. Fits(c, list[c])
    BY <1>2, <1>4, <2>1 DEF ListRight, ListedRight
  <2> QED
    BY <1>1, <1>2, <2>1, <2>2 DEF ListedRight, Fits
<1>5. ASSUME ~term, ~doubled, L!InFilter(c), Heard(c)', NEW r \in Slots, Live(r) PROVE PageRight(r, c)'
  <2>1. PageRight(r, c)
    BY <1>2, <1>5 DEF PagesRight
  <2>2. /\ request'[r].pc = request[r].pc /\ request'[r].page = request[r].page /\ request[r].behind \subseteq request'[r].behind
        /\ request[r].pc \in {"half", "down"} /\ c \notin DOMAIN request[r].page => c \in request'[r].behind
    BY <1>1 DEF Marked
  <2>3. cursor' = cursor /\ list' = list /\ row'[c].at = row[c].at /\ Owed(c)' = Owed(c)
    BY <1>1, <1>2
  <2>4. request[r].pc \in {"half", "down"} /\ FirstRight(r, c) => FirstRight(r, c)'
    BY <2>2, <2>3 DEF FirstRight, Fits
  <2>5. NextRight(r, c)'
    BY <1>1 DEF NextRight
  <2> QED
    BY <2>1, <2>2, <2>3, <2>4, <2>5 DEF PageRight
<1>6. overtaken \subseteq overtaken'
  BY <1>1
<1> QED
  BY <1>1, <1>3, <1>4, <1>5, <1>6, OneChanges

(* A message heard keeps them right: the list shows it, and a page with an  *)
(* older one is behind.                                                     *)
LEMMA HearRight ==
  ASSUME ListTypes, MessageTimes, NewestFits, ListRight, PagesRight, L!HandleMessage
  PROVE  ListRight' /\ PagesRight'
<1>1. PICK e \in events :
        /\ UNCHANGED <<row, pending, cursor, more, filter, term, doubled, overtaken>>
        /\ e \in [conv : Convs, at : L!Times] /\ events' = events \ {e}
        /\ DOMAIN list' = DOMAIN list \cup {e.conv} /\ list'[e.conv] = e.at
        /\ \A c \in DOMAIN list \ {e.conv} : list'[c] = list[c]
        /\ \A r \in Slots :
             /\ Marked(request'[r], request[r])
             /\ /\ request[r].pc \in {"half", "down"}
                /\ e.conv \in DOMAIN request[r].page => request[r].page[e.conv] < e.at
                => e.conv \in request'[r].behind
  BY HearsMessage
<1> DEFINE c == e.conv
<1>2. c \in Convs /\ (\A d \in Convs : Owed(d)' = Owed(d)) /\ \A d \in Convs \ {c} : Heard(d)' => Heard(d)
  BY <1>1 DEF Owed, Heard
<1>3. \A d \in Convs \ {c} : ConvStays(d)
  BY <1>1, <1>2 DEF ConvStays
<1>4. ASSUME Heard(c)'
      PROVE  /\ FitsWith(Owed(c)', row'[c].at, e.at)
             /\ \A r \in Slots : c \in DOMAIN request[r].page => request[r].page[c] <= e.at
  <2>1. e.at \in Nat
    BY <1>1, ListTimes
  <2>2. \A f \in events : f.conv = c => f = e
    BY <1>1, <1>4 DEF Heard
  <2>3. LastEvent(e)
    BY <2>1, <2>2 DEF LastEvent
  <2> QED
    BY <1>1, <1>2, <2>3 DEF NewestFits, Fits
<1> HIDE DEF c
<1>5. Heard(c)' => ListedRight(c)'
  BY <1>1, <1>4 DEF ListedRight, Fits, c
<1>6. ASSUME NEW r \in Slots, Heard(c)' PROVE PageRight(r, c)'
  <2>1. NextRight(r, c)'
    BY <1>1 DEF NextRight, c
  <2>2. request'[r].pc = request[r].pc /\ request'[r].page = request[r].page
    BY <1>1 DEF Marked
  <2>3. ASSUME request[r].pc \in {"half", "down"} PROVE FirstRight(r, c)'
    <3>1. CASE c \in DOMAIN request[r].page => request[r].page[c] < e.at
      <4>1. c \in request'[r].behind
        BY <1>1, <2>3, <3>1 DEF c
      <4> QED
        BY <4>1 DEF FirstRight
    <3>2. CASE c \in DOMAIN request[r].page /\ ~(request[r].page[c] < e.at)
      <4>1. request[r].page[c] \in Nat /\ e.at \in Nat
        <5>1. request[r].page \in L!PartialLists
          BY DEF ListTypes, ReqType
        <5> QED
          BY <1>1, <3>2, <5>1, PartialList, ListTimes
      <4>2. request[r].page[c] = e.at
        BY <1>4, <1>6, <3>2, <4>1
      <4>3. FitsWith(Owed(c)', row'[c].at, e.at)
        BY <1>4, <1>6
      <4> QED
        BY <2>2, <3>2, <4>2, <4>3 DEF FirstRight, Fits
    <3> QED
      BY <3>1, <3>2
  <2> QED
    BY <2>1, <2>2, <2>3 DEF PageRight
<1>7. \A d \in Convs \ {c} : (d \in DOMAIN list' <=> d \in DOMAIN list) /\ (d \in DOMAIN list => list'[d] = list[d])
  BY <1>1 DEF c
<1> QED
  BY <1>1, <1>2, <1>3, <1>5, <1>6, <1>7, OneChanges

(* A page that is being read is asked for what the list shows.              *)
LEMMA AskedRight ==
  ASSUME RequestShapes, ~term, ~doubled, NEW r \in Slots, Live(r), NEW c \in Convs
  PROVE  request[r].from = cursor /\ (L!Asked(r, c) <=> L!InFilter(c))
<1>1. /\ request[r].from = cursor /\ request[r].filter = filter /\ ~request[r].term
  BY DEF RequestShapes, OnePage, SlotShape, Live
<1> QED
  BY <1>1 DEF L!Asked, L!InFilter

(* What an unheard message owes a row is known to be behind it.             *)
LEMMA OwedKnown ==
  ASSUME NEW c \in Convs, Heard(c), Owed(c) # {}
  PROVE  c \in L!Unwritten
BY DEF Heard, Owed, L!Unwritten

(* Reading only concerns the slot that is read.                             *)
LEMMA ReadRight ==
  ASSUME ListTypes, ListRight, PagesRight, UNCHANGED <<row, pending, events, list, cursor, more, filter, term, doubled, overtaken>>,
         NEW r \in Slots, \A s \in Slots \ {r} : request'[s] = request[s], Live(r)' => Live(r),
         ~term /\ ~doubled /\ Live(r) => \A c \in Convs : L!InFilter(c) /\ Heard(c) => PageRight(r, c)'
  PROVE  ListRight' /\ PagesRight'
<1>0. /\ cursor' = cursor /\ more' = more /\ term' = term /\ filter' = filter /\ list' = list
      /\ row' = row /\ pending' = pending /\ events' = events /\ overtaken' = overtaken /\ doubled' = doubled
  OBVIOUS
<1>1. \A c \in Convs : ConvStays(c) /\ (Heard(c)' <=> Heard(c))
  BY <1>0 DEF ConvStays, Owed, Heard
<1>2. ListRight'
  BY <1>0, <1>1, SameFilter, ListedStays DEF ListRight
<1>3. ASSUME ~term, ~doubled, NEW s \in Slots, Live(s)', NEW c \in Convs, L!InFilter(c), Heard(c)'
      PROVE  PageRight(s, c)'
  <2>1. CASE s = r
    BY <1>1, <1>3, <2>1
  <2>2. CASE s # r
    <3>1. request'[s] = request[s]
      BY <2>2
    <3>2. Live(s) /\ Marked(request'[s], request[s])
      BY <1>3, <3>1 DEF Live, Marked
    <3>3. PageRight(s, c)
      BY <1>1, <1>3, <3>2 DEF PagesRight
    <3> QED
      BY <1>0, <1>1, <3>2, <3>3, PageStays
  <2> QED
    BY <2>1, <2>2
<1>4. PagesRight'
  BY <1>0, <1>3, SameFilter DEF PagesRight
<1> QED
  BY <1>2, <1>4

(* The first read of a page brings the pinned rows as they are.             *)
LEMMA PinnedRight ==
  ASSUME ListTypes, RequestShapes, ListRight, PagesRight, NEW r \in Slots, L!ReadPinned(r)
  PROVE  ListRight' /\ PagesRight'
<1>1. /\ UNCHANGED <<row, pending, events, list, cursor, more, filter, term, doubled, overtaken>>
      /\ \A s \in Slots \ {r} : request'[s] = request[s]
      /\ request'[r].op = request[r].op /\ request'[r].pc = "half" /\ request'[r].live = request[r].live
      /\ request'[r].behind = L!Unwritten
      /\ DOMAIN request'[r].page = {c \in Convs : L!Asked(r, c) /\ row[c].pinned /\ request[r].from = L!Top}
      /\ \A c \in DOMAIN request'[r].page : request'[r].page[c] = row[c].at
  BY PinnedRead
<1>2. Live(r)' => Live(r)
  BY <1>1 DEF Live
<1>3. ASSUME ~term, ~doubled, Live(r), NEW c \in Convs, L!InFilter(c), Heard(c)
      PROVE  PageRight(r, c)'
  <2>1. request[r].from = cursor /\ L!Asked(r, c)
    BY <1>3, AskedRight
  <2>2. Owed(c)' = Owed(c) /\ row' = row /\ cursor' = cursor
    BY <1>1 DEF Owed
  <2>3. ASSUME cursor = L!Top PROVE FirstRight(r, c)'
    <3>1. CASE Owed(c) # {}
      BY <1>1, <1>3, <3>1, OwedKnown DEF FirstRight
    <3>2. CASE Owed(c) = {} /\ row[c].pinned
      <4>1. c \in DOMAIN request'[r].page /\ request'[r].page[c] = row[c].at
        BY <1>1, <2>1, <2>3, <3>2
      <4> QED
        BY <2>2, <3>2, <4>1 DEF FirstRight, Fits, FitsWith
    <3>3. CASE Owed(c) = {} /\ ~row[c].pinned
      BY <1>1, <2>2, <3>3 DEF FirstRight
    <3> QED
      BY <3>1, <3>2, <3>3
  <2> QED
    BY <1>1, <2>2, <2>3 DEF PageRight
<1> QED
  BY <1>1, <1>2, <1>3, ReadRight

(* Rows that the page cuts off are found by the next one.                   *)
LEMMA CutOffFollows ==
  ASSUME ListTypes, NEW last \in Convs, NEW c \in Convs, L!Later(last, c), row[c].at # 0
  PROVE  L!After(c, L!Encoded(last))
<1>1. /\ c \in Nat /\ last \in Nat /\ row[c].at \in Nat /\ row[last].at \in Nat
  BY LaterOrders
<1>2. row[last].at # 0 /\ (row[c].at < row[last].at \/ (row[c].at = row[last].at /\ c < last))
  BY <1>1 DEF L!Later
<1>3. L!Encoded(last) = <<row[last].at, last>>
  BY <1>2 DEF L!Encoded
<1> QED
  BY <1>2, <1>3 DEF L!After

(* The second read brings the rows after the cursor as they are, and those  *)
(* it leaves come after its last.                                           *)
LEMMA RowsRight ==
  ASSUME ListTypes, RequestShapes, ListRight, PagesRight, NEW r \in Slots, L!ReadRows(r)
  PROVE  ListRight' /\ PagesRight'
<1> DEFINE rest == Rest(r)
           head == L!FirstOf(r, rest)
<1>1. /\ UNCHANGED <<row, pending, events, list, cursor, more, filter, term, doubled, overtaken>>
      /\ request[r].pc = "half" /\ \A s \in Slots \ {r} : request'[s] = request[s]
      /\ request'[r].op = request[r].op /\ request'[r].pc = "down" /\ request'[r].live = request[r].live
      /\ request[r].behind \subseteq request'[r].behind
      /\ request'[r].more = (head # rest)
      /\ \A c \in DOMAIN request[r].page : c \in DOMAIN request'[r].page /\ request'[r].page[c] = request[r].page[c]
      /\ \A c \in head \ DOMAIN request[r].page : c \in DOMAIN request'[r].page /\ request'[r].page[c] = row[c].at
      /\ DOMAIN request'[r].page = DOMAIN request[r].page \cup head
      /\ request'[r].more => \E last \in head :
           /\ request'[r].next = L!Encoded(last) /\ \A c \in rest \ head : L!Later(last, c)
  BY RowsRead
<1>2. Live(r)' => Live(r)
  BY <1>1 DEF Live
<1>3. head \subseteq Convs
  BY DEF Rest, L!FirstOf
<1>4. ASSUME NEW c \in rest, Owed(c) = {}, ~row[c].pinned, c \notin DOMAIN request[r].page
      PROVE  \/ c \in DOMAIN request'[r].page /\ Fits(c, request[r].page[c])'
             \/ c \notin DOMAIN request'[r].page /\ Waits(c, request[r].more, request[r].next)'
  <2>0. row' = row /\ Owed(c)' = {}
    BY <1>1, <1>4 DEF Owed
  <2>1. CASE c \in head
    <3>1. c \in DOMAIN request'[r].page /\ request'[r].page[c] = row[c].at
      BY <1>1, <1>4, <2>1
    <3> QED
      BY <2>0, <3>1 DEF Fits, FitsWith
  <2>2. CASE c \notin head
    <3>1. c \notin DOMAIN request'[r].page /\ request'[r].more
      BY <1>1, <1>4, <2>2
    <3>2. PICK last \in head : request'[r].next = L!Encoded(last) /\ L!Later(last, c)
      BY <1>1, <1>4, <2>2, <3>1
    <3>3. c \in Convs /\ last \in Convs
      BY <1>3 DEF Rest
    <3>4. row[c].at = 0 \/ L!After(c, request'[r].next)
      BY <3>2, <3>3, CutOffFollows
    <3>5. Waits(c, request[r].more, request[r].next)'
      BY <1>4, <2>0, <3>1, <3>4 DEF Waits, L!After
    <3> QED
      BY <3>1, <3>5
  <2> QED
    BY <2>1, <2>2
<1> HIDE DEF head
<1>5. ASSUME ~term, ~doubled, Live(r), NEW c \in Convs, L!InFilter(c), Heard(c)
      PROVE  PageRight(r, c)'
  <2>1. request[r].from = cursor /\ L!Asked(r, c)
    BY <1>5, AskedRight
  <2>2. Owed(c)' = Owed(c) /\ row' = row /\ cursor' = cursor /\ list' = list /\ overtaken' = overtaken
    BY <1>1 DEF Owed
  <2>3. ASSUME cursor = L!Top PROVE FirstRight(r, c)'
    <3>1. FirstRight(r, c)
      BY <1>1, <1>5, <2>3 DEF PagesRight, PageRight
    <3>2. CASE c \in request[r].behind
      BY <1>1, <3>2 DEF FirstRight
    <3>3. CASE c \in DOMAIN request[r].page /\ Fits(c, request[r].page[c])
      <4>1. c \in DOMAIN request'[r].page /\ request'[r].page[c] = request[r].page[c]
        BY <1>1, <3>3
      <4> QED
        BY <2>2, <3>3, <4>1 DEF FirstRight, Fits
    <3>4. CASE c \notin DOMAIN request[r].page /\ Owed(c) = {} /\ ~row[c].pinned
      <4>1. c \in rest
        BY <2>1, <2>3, <3>4 DEF Rest, L!After
      <4> QED
        BY <1>4, <2>2, <3>4, <4>1 DEF FirstRight
    <3> QED
      BY <3>1, <3>2, <3>3, <3>4 DEF FirstRight
  <2>4. ASSUME cursor # L!Top PROVE NextRight(r, c)'
    <3>1. CASE c \in DOMAIN list \/ c \in overtaken
      BY <2>2, <3>1 DEF NextRight
    <3>2. CASE c \notin DOMAIN list /\ c \notin overtaken
      <4>1. Waits(c, more, cursor)
        BY <1>5, <2>4, <3>2 DEF ListRight, ListedRight
      <4>2. DOMAIN request[r].page = {}
        BY <1>1, <2>1, <2>4 DEF RequestShapes, SlotShape
      <4>3. CASE row[c].at = 0
        <5>1. CASE c \in DOMAIN request'[r].page
          <6>1. c \in head
            BY <1>1, <4>2, <5>1
          <6>2. request'[r].page[c] = row[c].at
            BY <1>1, <4>2, <6>1
          <6> QED
            BY <2>2, <4>1, <5>1, <6>2 DEF NextRight, Fits, FitsWith, Waits
        <5>2. CASE c \notin DOMAIN request'[r].page
          BY <2>2, <4>1, <4>3, <5>2 DEF NextRight, Waits
        <5> QED
          BY <5>1, <5>2
      <4>4. CASE row[c].at # 0
        <5>1. c \in rest /\ Owed(c) = {} /\ ~row[c].pinned
          BY <2>1, <4>1, <4>4 DEF Rest, Waits
        <5> QED
          BY <1>4, <4>2, <5>1 DEF NextRight
      <4> QED
        BY <4>3, <4>4
    <3> QED
      BY <3>1, <3>2
  <2> QED
    BY <2>2, <2>3, <2>4 DEF PageRight
<1> QED
  BY <1>1, <1>2, <1>5, ReadRight

(* The only live page of the list arrives.                                  *)
LEMMA ArriveRight ==
  ASSUME ListTypes, RequestShapes, ListRight, PagesRight, NEW r \in Slots, L!PageArrives(r)
  PROVE  ListRight' /\ PagesRight'
<1>1. /\ UNCHANGED <<row, pending, events, filter, term, doubled>>
      /\ request[r].pc = "down"
      /\ list' = IF cursor = L!Top THEN request[r].page ELSE L!Over(list, request[r].page)
      /\ cursor' = request[r].next /\ more' = request[r].more
      /\ overtaken' = IF cursor = L!Top THEN request[r].behind ELSE overtaken
      /\ request'[r] = L!Idle /\ \A s \in Slots \ {r} : request'[s] = request[s]
  BY PageComes
<1>2. Live(r)
  BY PageComes DEF Live
<1>3. /\ list \in L!PartialLists /\ request[r].page \in L!PartialLists
  BY DEF ListTypes, ReqType
<1> DEFINE over == L!Over(list, request[r].page)
<1>4. /\ DOMAIN over = DOMAIN list \cup DOMAIN request[r].page
      /\ \A c \in DOMAIN list : over[c] = list[c]
      /\ \A c \in DOMAIN request[r].page \ DOMAIN list : over[c] = request[r].page[c]
  BY <1>3, OverListed
<1>5. list' = IF cursor = L!Top THEN request[r].page ELSE over
  BY <1>1
<1> HIDE DEF over
<1>6. \A c \in Convs : Owed(c)' = Owed(c) /\ (Heard(c)' => Heard(c))
  BY <1>1 DEF Owed, Heard
<1>7. row' = row /\ term' = term /\ doubled' = doubled /\ filter' = filter
  BY <1>1
<1>8. ASSUME ~term, ~doubled, NEW c \in Convs \ overtaken', L!InFilter(c), Heard(c)'
      PROVE  ListedRight(c)'
  <2>0. PageRight(r, c)
    BY <1>2, <1>6, <1>8 DEF PagesRight
  <2>a. ASSUME Waits(c, request[r].more, request[r].next) PROVE Waits(c, more, cursor)'
    BY <1>1, <1>6, <2>a DEF Waits, L!After
  <2>1. CASE cursor = L!Top
    <3>1. FirstRight(r, c) /\ c \notin request[r].behind /\ list' = request[r].page
      BY <1>1, <1>8, <2>0, <2>1 DEF PageRight
    <3>2. CASE c \in DOMAIN request[r].page
      <4>1. Fits(c, request[r].page[c])
        BY <3>1, <3>2 DEF FirstRight
      <4> QED
        BY <1>6, <1>7, <3>1, <3>2, <4>1 DEF ListedRight, Fits
    <3>3. CASE c \notin DOMAIN request[r].page
      <4>1. Waits(c, request[r].more, request[r].next)
        BY <1>1, <3>1, <3>3 DEF FirstRight
      <4> QED
        BY <2>a, <3>1, <3>3, <4>1 DEF ListedRight
    <3> QED
      BY <3>2, <3>3
  <2>2. CASE cursor # L!Top
    <3>1. /\ NextRight(r, c) /\ c \notin overtaken /\ list' = over /\ ListedRight(c)
      BY <1>1, <1>5, <1>6, <1>8, <2>0, <2>2 DEF PageRight, ListRight
    <3>2. CASE c \in DOMAIN list
      <4>1. Fits(c, list[c]) /\ c \in DOMAIN list' /\ list'[c] = list[c]
        BY <1>4, <3>1, <3>2 DEF ListedRight
      <4> QED
        BY <1>6, <1>7, <4>1 DEF ListedRight, Fits
    <3>3. CASE c \notin DOMAIN list /\ c \in DOMAIN request[r].page
      <4>1. Fits(c, request[r].page[c]) /\ c \in DOMAIN list' /\ list'[c] = request[r].page[c]
        BY <1>4, <3>1, <3>3 DEF NextRight
      <4> QED
        BY <1>6, <1>7, <4>1 DEF ListedRight, Fits
    <3>4. CASE c \notin DOMAIN list /\ c \notin DOMAIN request[r].page
      <4>1. Waits(c, request[r].more, request[r].next) /\ c \notin DOMAIN list'
        BY <1>4, <3>1, <3>4 DEF NextRight
      <4> QED
        BY <2>a, <4>1 DEF ListedRight
    <3> QED
      BY <3>2, <3>3, <3>4
  <2> QED
    BY <2>1, <2>2
<1>9. ListRight'
  BY <1>7, <1>8, SameFilter DEF ListRight
<1>10. ~doubled => \A s \in Slots : ~Live(s)'
  <2>1. ~request'[r].live
    BY <1>1, IdleShape
  <2>2. ~doubled => \A s \in Slots \ {r} : ~Live(s)
    BY <1>2 DEF RequestShapes, OnePage
  <2> QED
    BY <1>1, <2>1, <2>2 DEF Live
<1>11. PagesRight'
  BY <1>7, <1>10 DEF PagesRight
<1> QED
  BY <1>9, <1>11

(* The list that loses a history is read again from its top.                *)
LEMMA DeletedRight ==
  ASSUME ListTypes, RequestShapes, ListRight, PagesRight, NEW c \in Convs, L!HistoryDeleted(c)
  PROVE  ListRight' /\ PagesRight'
<1>1. /\ UNCHANGED <<row, pending, events, more, filter, term>>
      /\ DOMAIN list' = DOMAIN list /\ \A d \in DOMAIN list \ {c} : list'[d] = list[d]
      /\ cursor' = L!Top /\ overtaken' = IF doubled THEN Convs ELSE overtaken \cup {c}
      /\ \A s \in Slots : Calm(s) \/ (request[s].op = "search" /\ request'[s] = request[s])
  BY Deleted, DeletedShapes
<1>2. \A d \in Convs : Owed(d)' = Owed(d) /\ (Heard(d)' => Heard(d))
  BY <1>1 DEF Owed, Heard
<1>3. ASSUME ~term, ~more, NEW d \in Convs \ overtaken', L!InFilter(d), Heard(d)'
      PROVE  ListedRight(d)'
  <2>1. ~doubled /\ d \notin overtaken /\ d # c
    BY <1>1, <1>3
  <2>2. ListedRight(d)
    BY <1>2, <1>3, <2>1 DEF ListRight
  <2>3. CASE d \in DOMAIN list
    BY <1>1, <1>2, <2>1, <2>2, <2>3 DEF ListedRight, Fits
  <2>4. CASE d \notin DOMAIN list
    BY <1>1, <1>2, <1>3, <2>2, <2>4 DEF ListedRight, Waits
  <2> QED
    BY <2>3, <2>4
<1>4. ListRight'
  BY <1>1, <1>3, SameFilter DEF ListRight
<1>5. \A s \in Slots : Live(s)' => request'[s].pc = "up"
  BY <1>1 DEF Calm, Live
<1>6. PagesRight'
  BY <1>5 DEF PagesRight, PageRight
<1> QED
  BY <1>4, <1>6

(* Every step of the list keeps the list and its pages right.               *)
LEMMA RightStep ==
  ASSUME ListTypes, MessageTimes, NewestFits, RequestShapes, ListRight, PagesRight, L!Next
  PROVE  ListRight' /\ PagesRight'
<1>1. ASSUME cursor' = L!Top, more' = TRUE, \A s \in Slots : Calm(s) PROVE ListRight' /\ PagesRight'
  <2>1. ListRight'
    BY <1>1 DEF ListRight
  <2>2. \A s \in Slots : Live(s)' => request'[s].pc = "up"
    BY <1>1 DEF Calm, Live
  <2> QED
    BY <2>1, <2>2 DEF PagesRight, PageRight
<1>2. ASSUME term' = TRUE PROVE ListRight' /\ PagesRight'
  BY <1>2 DEF ListRight, PagesRight
<1>3. ASSUME (\E kind \in L!Filters : L!SetFilter(kind)) \/ L!ClearTerm PROVE ListRight' /\ PagesRight'
  BY <1>1, <1>3, Filters, FilterShapes, Clears, ClearShapes
<1>4. ASSUME L!Type \/ L!Debounced PROVE ListRight' /\ PagesRight'
  <2>1. CASE L!Type
    BY <1>2, <2>1, TypesTerm
  <2>2. CASE L!Debounced
    <3>1. term /\ term' = term /\ term \in BOOLEAN
      BY <2>2, Debounces, DebounceShapes DEF ListTypes
    <3> QED
      BY <1>2, <3>1
  <2> QED
    BY <1>4, <2>1, <2>2
<1>5. ASSUME L!LoadMore PROVE ListRight' /\ PagesRight'
  <2>1. UNCHANGED <<row, pending, events, list, cursor, more, filter, term, overtaken>> /\ (~doubled' => ~doubled)
    BY <1>5, LoadsMore
  <2> QED
    BY <1>5, <2>1, LoadMoreShapes, RequestsChange
<1>6. ASSUME NEW c \in Convs, L!DeleteHistory(c) \/ L!HistoryDeleted(c) \/ L!Post(c) \/ L!Pin(c)
      PROVE  ListRight' /\ PagesRight'
  BY <1>6, DeleteRight, DeletedRight, PostRight, PinRight
<1>7. ASSUME L!WriteRow \/ L!HandleMessage PROVE ListRight' /\ PagesRight'
  BY <1>7, WriteRight, HearRight
<1>8. ASSUME NEW r \in Slots, L!ReadPinned(r) \/ L!ReadRows(r) \/ L!PageArrives(r) PROVE ListRight' /\ PagesRight'
  BY <1>8, PinnedRight, RowsRight, ArriveRight
<1>9. ASSUME NEW r \in Slots, L!AbortedEnds(r) \/ L!Fails(r) PROVE ListRight' /\ PagesRight'
  <2>1. /\ UNCHANGED <<row, pending, events, list, cursor, more, filter, term, overtaken, doubled>>
        /\ request'[r] = L!Idle /\ \A s \in Slots \ {r} : request'[s] = request[s]
    BY <1>9, AbortedGoes, FailsThen
  <2>2. Calm(r)
    BY <2>1, IdleShape
  <2> QED
    BY <2>1, <2>2, RequestsChange
<1>10. ASSUME NEW r \in Slots, L!SearchArrives(r) PROVE ListRight' /\ PagesRight'
  <2>1. request[r].op = "search" /\ term' = term
    BY <1>10, SearchComes
  <2>2. term
    BY <2>1 DEF RequestShapes, SlotShape
  <2> QED
    BY <2>1, <2>2 DEF ListRight, PagesRight
<1> QED
  BY <1>3, <1>4, <1>5, <1>6, <1>7, <1>8, <1>9, <1>10 DEF L!Next

ListInv == /\ ListTypes /\ MessageTimes /\ NewestFits /\ RequestShapes
           /\ ListRight /\ PagesRight /\ SearchInv

(* Every step keeps the shapes.                                             *)
LEMMA ListTypesStep ==
  ASSUME ListTypes, L!Next
  PROVE  ListTypes'
<1>1. ASSUME NEW c \in Convs, L!DeleteHistory(c) \/ L!HistoryDeleted(c) \/ L!Post(c) \/ L!Pin(c) PROVE ListTypes'
  BY <1>1, Deletes, Deleted, Posts, Pins
<1>2. ASSUME NEW r \in Slots,
             \/ L!ReadPinned(r) \/ L!ReadRows(r) \/ L!PageArrives(r) \/ L!AbortedEnds(r)
             \/ L!SearchArrives(r) \/ L!Fails(r)
      PROVE  ListTypes'
  BY <1>2, PinnedRead, RowsRead, PageComes, AbortedGoes, SearchComes, FailsThen
<1>3. ASSUME \/ \E kind \in L!Filters : L!SetFilter(kind)
             \/ L!Type \/ L!Debounced \/ L!ClearTerm \/ L!LoadMore \/ L!WriteRow \/ L!HandleMessage
      PROVE  ListTypes'
  BY <1>3, Filters, TypesTerm, Debounces, Clears, LoadsMore, Writes, HearsMessage
<1> QED
  BY <1>1, <1>2, <1>3 DEF L!Next

(* The invariant of the list is inductive.                                  *)
LEMMA ListStep ==
  ASSUME ListInv, L!Next
  PROVE  ListInv'
<1>1. ListTypes'
  BY ListTypesStep DEF ListInv
<1>2. MessageTimes' /\ NewestFits'
  BY TimesStep DEF ListInv
<1>3. RequestShapes'
  BY ShapesStep DEF ListInv
<1>4. ListRight' /\ PagesRight'
  BY RightStep DEF ListInv
<1>5. SearchInv'
  BY SearchStep DEF ListInv
<1> QED
  BY <1>1, <1>2, <1>3, <1>4, <1>5 DEF ListInv

(* It holds at the start.                                                   *)
LEMMA ListInit ==
  ASSUME L!Init
  PROVE  ListInv
<1>1. /\ row = [c \in Convs |-> [at |-> Start[c], pinned |-> FALSE]]
      /\ pending = {} /\ events = {} /\ clock = Cardinality(Convs) /\ deleting = {}
      /\ list = L!Nothing /\ cursor = L!Top /\ more = TRUE /\ filter = "all"
      /\ term = FALSE /\ timer = FALSE /\ fetching = TRUE /\ found = FALSE /\ doubled = FALSE /\ overtaken = {}
  BY ListTimes DEF L!Init
<1> DEFINE q == [L!Idle EXCEPT !.op = "page", !.pc = "up", !.live = TRUE]
<1>2. PICK r \in Slots : request = [s \in Slots |-> IF s = r THEN q ELSE L!Idle]
  BY DEF L!Init
<1>3. /\ L!Idle \in ReqType /\ L!Idle.op = "none" /\ L!Idle.pc = "idle" /\ L!Idle.live = FALSE
      /\ DOMAIN L!Idle.page = {} /\ L!Idle.behind = {} /\ L!Idle.from = L!Top /\ L!Idle.filter = "all"
      /\ L!Idle.term = FALSE
  <2>1. L!Idle.from = L!Top /\ L!Idle.filter = "all" /\ L!Idle.term = FALSE
    BY DEF L!Idle
  <2> HIDE DEF L!Idle
  <2> QED
    BY <2>1, IdleRequest
<1> HIDE DEF L!Idle
<1>4. /\ q \in ReqType /\ q.op = "page" /\ q.pc = "up" /\ q.live = TRUE /\ q.from = L!Top
      /\ q.filter = "all" /\ q.term = FALSE /\ DOMAIN q.page = {}
  BY <1>3 DEF ReqType
<1> HIDE DEF q
<1>5. request[r] = q /\ (\A s \in Slots \ {r} : request[s] = L!Idle) /\ request \in [Slots -> ReqType]
  BY <1>2, <1>3, <1>4
<1>6. /\ \A c \in Convs : Start[c] \in L!Times /\ Start[c] <= Cardinality(Convs)
      /\ Cardinality(Convs) \in L!Times
  BY ListAssumption, ListTimes
<1>7. ListTypes
  <2>1. row \in [Convs -> [at : L!Times, pinned : BOOLEAN]]
    BY <1>1, <1>6
  <2>2. L!Nothing \in L!PartialLists
    BY NothingListed
  <2>3. filter \in L!Filters
    BY <1>1 DEF L!Filters
  <2> HIDE DEF L!Nothing, L!Top
  <2> QED
    BY <1>1, <1>5, <1>6, <2>1, <2>2, <2>3, CursorTop DEF ListTypes
<1>8. MessageTimes
  <2>1. \A c \in Convs : row[c].at <= clock
    BY <1>1, <1>6
  <2>2. \A s \in Slots : DOMAIN request[s].page = {}
    BY <1>3, <1>4, <1>5
  <2> QED
    BY <1>1, <2>1, <2>2 DEF MessageTimes
<1>9. NewestFits /\ ListRight
  BY <1>1 DEF NewestFits, ListRight
<1>10. RequestShapes
  <2>1. \A s \in Slots : SlotShape(request[s], filter, term)
    BY <1>1, <1>3, <1>4, <1>5 DEF SlotShape
  <2>2. OnePage
    BY <1>1, <1>3, <1>4, <1>5 DEF OnePage, Live
  <2> QED
    BY <1>1, <2>1, <2>2 DEF RequestShapes
<1>11. PagesRight
  BY <1>3, <1>4, <1>5 DEF PagesRight, PageRight, Live
<1>12. SearchInv
  BY <1>1, <1>3, <1>4, <1>5 DEF SearchInv, HitsShown, SearchBrings
<1> QED
  BY <1>7, <1>8, <1>9, <1>10, <1>11, <1>12 DEF ListInv

(* What the user sees when all is quiet follows.                            *)
LEMMA ListSees ==
  ASSUME ListInv
  PROVE  L!TypeOK /\ L!ListWhole /\ L!SearchWhole
<1>0. ListTypes /\ ListRight /\ SearchInv
  BY DEF ListInv
<1>1. L!TypeOK
  BY <1>0 DEF ListTypes, ReqType, L!TypeOK
<1>2. L!ListWhole
  <2> SUFFICES ASSUME L!Quiet, ~term, ~doubled, NEW c \in Convs \ overtaken,
                      L!Worthy(c), L!InFilter(c), L!Loaded(c)
               PROVE  c \in DOMAIN list /\ row[c].at \in {0, list[c]}
    BY DEF L!ListWhole
  <2>1. Owed(c) = {} /\ Heard(c)
    BY DEF L!Quiet, Owed, Heard
  <2>2. ListedRight(c)
    BY <1>0, <2>1 DEF ListRight, L!Loaded
  <2>3. CASE c \in DOMAIN list
    BY <2>1, <2>2, <2>3 DEF ListedRight, Fits, FitsWith
  <2>4. CASE c \notin DOMAIN list
    BY <2>2, <2>4 DEF ListedRight, Waits, L!Worthy, L!Loaded
  <2> QED
    BY <2>3, <2>4
<1>3. L!SearchWhole
  BY <1>0 DEF SearchInv, HitsShown, L!SearchWhole
<1> QED
  BY <1>1, <1>2, <1>3

(* A list that stands still.                                                *)
LEMMA ListStutters ==
  ASSUME ListInv, UNCHANGED listVars
  PROVE  ListInv'
<1>0. /\ row' = row /\ pending' = pending /\ events' = events /\ clock' = clock /\ deleting' = deleting
      /\ list' = list /\ cursor' = cursor /\ more' = more /\ fetching' = fetching /\ filter' = filter
      /\ term' = term /\ timer' = timer /\ request' = request /\ found' = found /\ doubled' = doubled
      /\ overtaken' = overtaken
  BY DEF listVars
<1>1. ListTypes'
  BY <1>0 DEF ListInv, ListTypes
<1>2. MessageTimes' /\ NewestFits'
  <2>1. \A s \in Slots : PageKept(s)
    BY <1>0 DEF PageKept
  <2> QED
    BY <1>0, <2>1, KeptPages, QuietTimes DEF ListInv
<1>3. RequestShapes'
  BY <1>0 DEF ListInv, RequestShapes, OnePage, Live
<1>4. ListRight' /\ PagesRight'
  BY <1>0, RequestsChange DEF ListInv
<1>5. SearchInv'
  <2>1. \A s \in Slots : Marked(request'[s], request[s])
    BY <1>0 DEF Marked
  <2> QED
    BY <1>0, <2>1, HitsStay, SearchStays DEF ListInv, SearchInv
<1> QED
  BY <1>1, <1>2, <1>3, <1>4, <1>5 DEF ListInv

-----------------------------------------------------------------------------
(* The panel beside a conversation, and its explorers.                      *)

PanelConv == PanelConvs \cup {Nil}
AskType == [conv : PanelConv, view : Views \cup {Nil}, from : Int, reset : BOOLEAN]
LoadType == [conv : PanelConvs, from : Nat, n : Nat]
ChangeType == [pc : {"idle", "asked", "answered", "failed"}, conv : PanelConv, prev : BOOLEAN]

LogTypes ==
  /\ log \in [PanelConvs -> Seq(Kinds)] /\ unheard \subseteq PanelConvs
  /\ wire \subseteq PanelConvs \X Nat /\ \A e \in wire : e[2] \in 1 .. Len(log[e[1]])
  /\ conv \in PanelConvs
ExplorerTypes ==
  /\ viewed \in Views \cup {Nil} /\ {hasMore, isLoading, failed, banner} \subseteq BOOLEAN
  /\ nextCursor \in Nat /\ current \in Slots \cup {Nil} /\ asks \in [Slots -> AskType]
  /\ \A s \in Slots : asks[s].conv = Nil => asks[s] = P!NoAsk
(* The requests for a preview have numbers, of which there is no end in     *)
(* sight but a bound.                                                       *)
PreviewTypes ==
  /\ isOpen \in BOOLEAN /\ loaded \in PanelConv
  /\ preview \in [Views -> [conv : PanelConv, top : Nat, error : BOOLEAN]]
  /\ loads \in [Views -> SUBSET LoadType] /\ settled \in [Views -> Nat] /\ crossed \in [Views -> BOOLEAN]
  /\ \A v \in Views : /\ \E m \in Nat : \A l \in loads[v] : l.n <= m
                      /\ \A l \in loads[v] : l.from <= Len(log[l.conv])
PreferenceTypes ==
  /\ meta \in [conv : PanelConv, pref : BOOLEAN] /\ metaLoad \in [conv : PanelConv, from : BOOLEAN]
  /\ metaLoad.conv = Nil => metaLoad = P!NoLoad
  /\ pref \in [PanelConvs -> BOOLEAN] /\ change \in ChangeType /\ slipped \in BOOLEAN
  /\ change.pc # "idle" => change.conv \in PanelConvs
PanelTypes == LogTypes /\ ExplorerTypes /\ PreviewTypes /\ PreferenceTypes

(* A set of numbers that has a bound has a largest one.                     *)
LEMMA Largest ==
  ASSUME NEW N \in SUBSET Nat, N # {}, NEW top \in Nat, \A n \in N : n <= top
  PROVE  P!Max(N) \in N /\ \A n \in N : n <= P!Max(N)
<1> DEFINE D == {top - n : n \in N}
<1>0. \A n \in N : n \in Nat /\ n <= top /\ top - n \in Nat
  OBVIOUS
<1>1. D \in SUBSET Nat /\ D # {}
  BY <1>0
<1>2. PICK d \in D : \A e \in D : d <= e
  BY <1>1, Smallest
<1>3. PICK m \in N : d = top - m
  BY <1>2
<1>4. \A n \in N : m >= n
  BY <1>2, <1>3
<1> HIDE DEF D
<1> QED
  BY <1>4 DEF P!Max

(* What a message holds of a kind is a number, and nothing is no attachment. *)
LEMMA HoldsSome ==
  /\ \A k, v : P!Holds(k, v) \in {0, 1, 2}
  /\ \A c, v, i : P!Holds(log[c][i], v) = 0 => P!Attachments(c, v, i) = {}
<1>1. \A k, v : P!Holds(k, v) \in {0, 1, 2}
  BY DEF P!Holds
<1>2. ASSUME NEW c, NEW v, NEW i, P!Holds(log[c][i], v) = 0 PROVE P!Attachments(c, v, i) = {}
  BY <1>2 DEF P!Attachments
<1> QED
  BY <1>1, <1>2

(* What a conversation has stays.                                           *)
LogGrows ==
  \A d \in PanelConvs :
    /\ Len(log[d]) \in Nat /\ Len(log'[d]) \in Nat /\ Len(log[d]) <= Len(log'[d])
    /\ \A i \in 1 .. Len(log[d]) : log'[d][i] = log[d][i]
(* A step that leaves the messages alone only lets them grow.               *)
LEMMA SameGrows ==
  ASSUME LogTypes, UNCHANGED log
  PROVE  LogGrows
<1> SUFFICES ASSUME NEW d \in PanelConvs PROVE Len(log[d]) \in Nat
  BY DEF LogGrows
<1>1. log[d] \in Seq(Kinds)
  BY DEF LogTypes
<1> QED
  BY <1>1, LenProperties

(* A message is added at the end of one conversation, and is announced or   *)
(* missed.                                                                  *)
LEMMA MessageGrows ==
  ASSUME LogTypes, NEW c \in PanelConvs, P!Message(c)
  PROVE  /\ LogGrows /\ log' \in [PanelConvs -> Seq(Kinds)]
         /\ Len(log'[c]) = Len(log[c]) + 1 /\ \A d \in PanelConvs \ {c} : log'[d] = log[d]
         /\ \/ wire' = wire \cup {<<c, Len(log[c]) + 1>>} /\ unheard' = unheard
            \/ unheard' = unheard \cup {c} /\ wire' = wire
<1>1. PICK k \in Kinds : log' = [log EXCEPT ![c] = Append(@, k)]
  BY DEF P!Message
<1>2. \A d \in PanelConvs : log[d] \in Seq(Kinds) /\ Len(log[d]) \in Nat
  <2> TAKE d \in PanelConvs
  <2>1. log[d] \in Seq(Kinds)
    BY DEF LogTypes
  <2> QED
    BY <2>1, LenProperties
<1>3. /\ Append(log[c], k) \in Seq(Kinds) /\ Len(Append(log[c], k)) = Len(log[c]) + 1
      /\ \A i \in 1 .. Len(log[c]) : Append(log[c], k)[i] = log[c][i]
  BY <1>2, AppendProperties
<1>4. log'[c] = Append(log[c], k) /\ \A d \in PanelConvs \ {c} : log'[d] = log[d]
  BY <1>1 DEF LogTypes
<1>5. log' \in [PanelConvs -> Seq(Kinds)]
  BY <1>1, <1>3 DEF LogTypes
<1>6. LogGrows
  <2> SUFFICES ASSUME NEW d \in PanelConvs
               PROVE  /\ Len(log[d]) \in Nat /\ Len(log'[d]) \in Nat /\ Len(log[d]) <= Len(log'[d])
                      /\ \A i \in 1 .. Len(log[d]) : log'[d][i] = log[d][i]
    BY DEF LogGrows
  <2> QED
    BY <1>2, <1>3, <1>4
<1>7. \/ wire' = wire \cup {<<c, Len(log[c]) + 1>>} /\ unheard' = unheard
      \/ unheard' = unheard \cup {c} /\ wire' = wire
  BY DEF P!Message
<1> QED
  BY <1>3, <1>4, <1>5, <1>6, <1>7

(* So do the attachments.                                                   *)
LEMMA AttachmentsStay ==
  ASSUME LogGrows, NEW d \in PanelConvs, NEW v, NEW i \in 1 .. Len(log[d])
  PROVE  P!Attachments(d, v, i)' = P!Attachments(d, v, i) /\ i \in 1 .. Len(log'[d])
<1>1. log'[d][i] = log[d][i] /\ i \in 1 .. Len(log'[d])
  BY DEF LogGrows
<1> QED
  BY <1>1 DEF P!Attachments

(* What a view can show of a conversation only grows.                       *)
LEMMA AllGrows ==
  ASSUME LogGrows, NEW d \in PanelConvs, NEW v
  PROVE  P!All(d, v) \subseteq P!All(d, v)'
<1> SUFFICES ASSUME NEW z \in P!All(d, v) PROVE z \in P!All(d, v)'
  OBVIOUS
<1>1. PICK i \in 1 .. Len(log[d]) : z \in P!Attachments(d, v, i)
  BY DEF P!All
<1>2. z \in P!Attachments(d, v, i)' /\ i \in 1 .. Len(log'[d])
  BY <1>1, AttachmentsStay
<1> QED
  BY <1>2 DEF P!All

PageGood(c, v, top, pg) ==
  /\ pg.hasMore \in BOOLEAN /\ pg.cursor \in Nat /\ pg.cursor <= Len(log[c])
  /\ pg.items \subseteq P!All(c, v)
  /\ \A i \in 1 .. Len(log[c]) :
       i <= top /\ (pg.hasMore => pg.cursor <= i) => P!Attachments(c, v, i) \subseteq pg.items \cup pg.cut
(* What a page shows and what it cuts off are all the attachments of its    *)
(* messages, and it shows no other ones.                                    *)
LEMMA PageHas ==
  ASSUME LogTypes, NEW c \in PanelConvs, NEW v, NEW top \in Int, top <= Len(log[c])
  PROVE  PageGood(c, v, top, P!Page(c, v, top))
<1> DEFINE pg == P!Page(c, v, top)
<1>0. Len(log[c]) \in Nat
  <2>1. log[c] \in Seq(Kinds)
    BY DEF LogTypes
  <2> QED
    BY <2>1, LenProperties
<1>1. CASE P!Enough(c, v, top) = {}
  <2>1. /\ pg.hasMore = FALSE /\ pg.cursor = 0 /\ pg.items = P!From(c, v, 1, top)
    BY <1>1 DEF P!Page
  <2>2. pg.items \subseteq P!All(c, v)
    BY <1>0, <2>1 DEF P!From, P!All
  <2>3. ASSUME NEW i \in 1 .. Len(log[c]), i <= top PROVE P!Attachments(c, v, i) \subseteq pg.items
    BY <1>0, <2>1, <2>3 DEF P!From
  <2> QED
    <3>0. pg.hasMore \in BOOLEAN
      BY <1>1 DEF P!Page
    <3> HIDE DEF pg
    <3>1. pg.hasMore \in BOOLEAN /\ pg.cursor \in Nat /\ pg.cursor <= Len(log[c])
      BY <1>0, <2>1, <3>0
    <3>2. \A i \in 1 .. Len(log[c]) : i <= top => P!Attachments(c, v, i) \subseteq pg.items \cup pg.cut
      BY <2>3
    <3>3. PageGood(c, v, top, pg)
      BY <2>2, <3>1, <3>2 DEF PageGood
    <3> QED
      BY <3>3 DEF pg
<1>2. CASE P!Enough(c, v, top) # {}
  <2> DEFINE last == P!Max(P!Enough(c, v, top))
  <2>1. P!Enough(c, v, top) \subseteq 1 .. top /\ P!Enough(c, v, top) \in SUBSET Nat /\ top \in Nat
    BY <1>2 DEF P!Enough
  <2>2. last \in P!Enough(c, v, top)
    <3>1. \A n \in P!Enough(c, v, top) : n <= top
      BY <2>1
    <3> QED
      BY <1>2, <2>1, <3>1, Largest
  <2>3. last \in 1 .. top
    BY <2>1, <2>2
  <2>4. /\ pg.hasMore = TRUE /\ pg.cursor = last /\ pg.cut = P!Cut(c, v, last, top)
        /\ pg.items = P!From(c, v, last, top) \ P!Cut(c, v, last, top)
    BY <1>2 DEF P!Page, P!NextTop
  <2> HIDE DEF last
  <2>5. P!From(c, v, last, top) \subseteq P!All(c, v)
    BY <1>0, <2>3 DEF P!From, P!All
  <2>6. ASSUME NEW i \in 1 .. Len(log[c]), i <= top, last <= i
        PROVE  P!Attachments(c, v, i) \subseteq P!From(c, v, last, top)
    BY <1>0, <2>3, <2>6 DEF P!From
  <2> HIDE DEF pg
  <2>7. pg.items \subseteq P!All(c, v) /\ pg.cursor \in Nat /\ pg.cursor <= Len(log[c])
    BY <1>0, <2>3, <2>4, <2>5
  <2>8. ASSUME NEW i \in 1 .. Len(log[c]), i <= top, pg.cursor <= i
        PROVE  P!Attachments(c, v, i) \subseteq pg.items \cup pg.cut
    BY <2>4, <2>6, <2>8
  <2>9. PageGood(c, v, top, pg)
    BY <2>4, <2>7, <2>8 DEF PageGood
  <2> QED
    BY <2>9 DEF pg
<1> QED
  BY <1>1, <1>2

(* A page shows the same for any number of newer messages that hold nothing. *)
LEMMA PageSame ==
  ASSUME LogTypes, NEW c \in PanelConvs, NEW v, NEW top \in Nat, top <= Len(log[c]),
         \A i \in top + 1 .. Len(log[c]) : P!Attachments(c, v, i) = {}
  PROVE  P!Page(c, v, top).items = P!Page(c, v, Len(log[c])).items
<1> DEFINE all == Len(log[c])
<1>0. all \in Nat
  <2>1. log[c] \in Seq(Kinds)
    BY DEF LogTypes
  <2> QED
    BY <2>1, LenProperties
<1> HIDE DEF all
<1>1. \A i \in Nat : P!From(c, v, i, top) = P!From(c, v, i, all)
  <2> SUFFICES ASSUME NEW i \in Nat, NEW z
               PROVE  z \in P!From(c, v, i, top) <=> z \in P!From(c, v, i, all)
    OBVIOUS
  <2>1. z \in P!From(c, v, i, top) <=> \E k \in i .. top : z \in P!Attachments(c, v, k)
    BY DEF P!From
  <2>2. z \in P!From(c, v, i, all) <=> \E k \in i .. all : z \in P!Attachments(c, v, k)
    BY DEF P!From
  <2>3. \A k \in i .. all : k \in i .. top \/ P!Attachments(c, v, k) = {}
    BY <1>0 DEF all
  <2>4. i .. top \subseteq i .. all
    BY <1>0 DEF all
  <2> QED
    BY <2>1, <2>2, <2>3, <2>4
<1>2. P!Enough(c, v, top) = P!Enough(c, v, all)
  <2> SUFFICES ASSUME NEW i
               PROVE  i \in P!Enough(c, v, top) <=> i \in P!Enough(c, v, all)
    OBVIOUS
  <2>1. i \in 1 .. all /\ P!Attachments(c, v, i) # {} => i \in 1 .. top
    BY <1>0 DEF all
  <2>2. i \in 1 .. top => i \in 1 .. all /\ i \in Nat
    BY <1>0 DEF all
  <2> QED
    BY <1>1, <2>1, <2>2 DEF P!Enough
<1>3. CASE P!Enough(c, v, top) = {}
  <2>1. P!Page(c, v, top).items = P!From(c, v, 1, top)
    BY <1>3 DEF P!Page
  <2>2. P!Page(c, v, all).items = P!From(c, v, 1, all)
    BY <1>2, <1>3 DEF P!Page
  <2> QED
    BY <1>1, <2>1, <2>2 DEF all
<1>4. CASE P!Enough(c, v, top) # {}
  <2> DEFINE last == P!Max(P!Enough(c, v, top))
  <2>1. P!Enough(c, v, top) \in SUBSET Nat /\ \A n \in P!Enough(c, v, top) : n <= top
    BY DEF P!Enough
  <2>2. last \in Nat
    BY <1>4, <2>1, Largest
  <2>3. P!Page(c, v, top).items = P!From(c, v, last, top) \ P!Cut(c, v, last, top)
    BY <1>4 DEF P!Page
  <2>4. P!Page(c, v, all).items = P!From(c, v, last, all) \ P!Cut(c, v, last, all)
    BY <1>2, <1>4 DEF P!Page
  <2> HIDE DEF last
  <2>5. P!Cut(c, v, last, top) = P!Cut(c, v, last, all)
    BY <1>1, <2>2 DEF P!Cut
  <2> QED
    BY <1>1, <2>2, <2>3, <2>4, <2>5 DEF all
<1> QED
  BY <1>3, <1>4

Told(c, i) == <<c, i>> \in wire \/ c \in unheard
Accounted(i) == P!Attachments(conv, viewed, i) \subseteq items \cup dropped \cup unflagged
CoveredFrom(low) ==
  \A i \in 1 .. Len(log[conv]) : low <= i => Accounted(i) \/ Told(conv, i) \/ banner

(* An explorer has one request at most, which is about what it shows.  But  *)
(* for what it knows to be new, it has all the attachments down to its      *)
(* cursor; while it asks anew, it has seen every event since it asked.      *)
OneAsk ==
  /\ isLoading <=> current # Nil
  /\ current # Nil => asks[current].conv # Nil
  /\ \A s \in Slots : asks[s].conv # Nil => s = current
AskOK(q) ==
  /\ viewed # Nil /\ q.conv = conv /\ q.view = viewed /\ ~failed
  /\ q.reset => q.from \in 0 .. Len(log[conv]) /\ items = {} /\ CoveredFrom(q.from + 1)
  /\ ~q.reset => hasMore /\ q.from = nextCursor - 1
PanelClosed ==
  /\ viewed = Nil => items = {} /\ nextCursor = 0 /\ current = Nil
  /\ viewed # Nil => isOpen
ExplorerInv ==
  /\ OneAsk /\ PanelClosed /\ \A s \in Slots : asks[s].conv # Nil => AskOK(asks[s])
  /\ nextCursor <= Len(log[conv]) /\ P!ExplorerHonest
  /\ (viewed # Nil /\ ~failed /\ (current # Nil => ~asks[current].reset)) =>
       CoveredFrom(IF hasMore THEN nextCursor ELSE 1)

(* What an explorer has stays while messages come that it hears of.         *)
LEMMA CoveredStays ==
  ASSUME LogTypes, LogGrows, NEW low \in Int, CoveredFrom(low), UNCHANGED <<conv, viewed>>,
         items \cup dropped \cup unflagged \subseteq items' \cup dropped' \cup unflagged', banner => banner',
         \A i \in 1 .. Len(log[conv]) : Told(conv, i) => Told(conv, i)' \/ Accounted(i)' \/ banner',
         \A i \in 1 .. Len(log'[conv]) : i \in 1 .. Len(log[conv]) \/ Told(conv, i)'
  PROVE  CoveredFrom(low)'
<1>1. ASSUME NEW i \in 1 .. Len(log[conv]), low <= i
      PROVE  Accounted(i)' \/ Told(conv, i)' \/ banner'
  <2>1. P!Attachments(conv, viewed, i)' = P!Attachments(conv, viewed, i)
    <3>1. conv \in PanelConvs
      BY DEF LogTypes
    <3>2. \A d \in PanelConvs : \A v : P!Attachments(d, v, i)' = P!Attachments(d, v, i) \/ ~(i \in 1 .. Len(log[d]))
      BY AttachmentsStay
    <3> QED
      BY <1>1, <3>1, <3>2 DEF P!Attachments
  <2>2. CASE Accounted(i)
    BY <2>1, <2>2 DEF Accounted
  <2> QED
    BY <1>1, <2>2 DEF CoveredFrom
<1>2. ASSUME NEW i \in 1 .. Len(log'[conv]), low <= i
      PROVE  Accounted(i)' \/ Told(conv, i)' \/ banner'
  BY <1>1, <1>2
<1> QED
  BY <1>2 DEF CoveredFrom

(* Nothing of the explorer is disturbed.                                    *)
LEMMA QuietExplorer ==
  ASSUME PanelTypes, ExplorerInv, LogGrows, UNCHANGED <<conv, P!explorer>>, viewed # Nil => isOpen',
         \A i \in 1 .. Len(log[conv]) : Told(conv, i) => Told(conv, i)',
         \A i \in 1 .. Len(log'[conv]) : i \in 1 .. Len(log[conv]) \/ Told(conv, i)'
  PROVE  ExplorerInv' /\ ExplorerTypes'
<1>1. /\ viewed' = viewed /\ items' = items /\ nextCursor' = nextCursor /\ hasMore' = hasMore
      /\ isLoading' = isLoading /\ failed' = failed /\ banner' = banner /\ asks' = asks /\ current' = current
      /\ dropped' = dropped /\ unflagged' = unflagged /\ conv' = conv
  BY DEF P!explorer
<1>2. ExplorerTypes'
  <2>1. ExplorerTypes
    BY DEF PanelTypes
  <2> QED
    BY <1>1, <2>1 DEF ExplorerTypes, P!NoAsk
<1>3. /\ LogTypes /\ conv \in PanelConvs /\ nextCursor \in Nat /\ asks \in [Slots -> AskType]
      /\ current \in Slots \cup {Nil}
  BY DEF PanelTypes, LogTypes, ExplorerTypes
<1>4. ASSUME NEW low \in Int, CoveredFrom(low) PROVE CoveredFrom(low)'
  BY <1>1, <1>3, <1>4, CoveredStays
<1>5. OneAsk' /\ PanelClosed'
  BY <1>1 DEF ExplorerInv, OneAsk, PanelClosed
<1>6. /\ Len(log[conv]) \in Nat /\ Len(log'[conv]) \in Nat /\ Len(log[conv]) <= Len(log'[conv])
  BY <1>3 DEF LogGrows
<1>7. ASSUME NEW s \in Slots, asks'[s].conv # Nil PROVE AskOK(asks[s])'
  <2>1. AskOK(asks[s]) /\ asks[s].from \in Int
    BY <1>1, <1>3, <1>7 DEF ExplorerInv, AskType
  <2>2. asks[s].reset => CoveredFrom(asks[s].from + 1)'
    <3> DEFINE low == asks[s].from + 1
    <3>1. low \in Int /\ low' = low
      BY <1>1, <2>1
    <3>2. CoveredFrom(low) => CoveredFrom(low)'
      BY <1>4, <3>1
    <3> QED
      BY <2>1, <3>2 DEF AskOK
  <2>3. asks'[s] = asks[s]
    BY <1>1
  <2> HIDE DEF CoveredFrom
  <2> QED
    BY <1>1, <1>6, <2>1, <2>2, <2>3 DEF AskOK
<1>8. P!ExplorerHonest'
  <2>1. P!All(conv, viewed) \subseteq P!All(conv, viewed)'
    <3>1. \A d \in PanelConvs : \A v : P!All(d, v) \subseteq P!All(d, v)'
      BY AllGrows
    <3> QED
      BY <1>1, <1>3, <3>1 DEF P!All, P!Attachments
  <2> QED
    BY <1>1, <2>1 DEF ExplorerInv, P!ExplorerHonest
<1>9. nextCursor' <= Len(log'[conv'])
  BY <1>1, <1>3, <1>6 DEF ExplorerInv
<1>10. viewed' # Nil /\ ~failed' /\ (current' # Nil => ~asks'[current'].reset)
         => CoveredFrom(IF hasMore THEN nextCursor ELSE 1)'
  <2> DEFINE low == IF hasMore THEN nextCursor ELSE 1
  <2>1. low \in Int /\ low' = low
    BY <1>1, <1>3
  <2>2. CoveredFrom(low) => CoveredFrom(low)'
    BY <1>4, <2>1
  <2> QED
    BY <1>1, <2>2 DEF ExplorerInv
<1> QED
  BY <1>2, <1>5, <1>7, <1>8, <1>9, <1>10 DEF ExplorerInv

(* A request goes out, and the one before is aborted.                       *)
LEMMA FetchGoes ==
  ASSUME ExplorerTypes, OneAsk, NEW c \in PanelConvs, NEW v \in Views, NEW from \in Int, NEW reset \in BOOLEAN,
         P!Fetch(c, v, from, reset)
  PROVE  /\ asks' \in [Slots -> AskType] /\ \A s \in Slots : asks'[s].conv = Nil => asks'[s] = P!NoAsk
         /\ current' \in Slots /\ isLoading' = TRUE /\ failed' = FALSE
         /\ asks'[current'].conv = c /\ asks'[current'].view = v /\ asks'[current'].from = from
         /\ asks'[current'].reset = reset /\ \A s \in Slots \ {current'} : asks'[s].conv = Nil
<1>0. Nil \notin Slots /\ Nil \notin PanelConvs /\ P!NoAsk \in AskType /\ P!NoAsk.conv = Nil
  BY PanelAssumption DEF P!NoAsk, AskType, PanelConv
<1>1. P!Abort \in [Slots -> AskType] /\ \A s \in Slots : P!Abort[s] = P!NoAsk
  <2>1. CASE current = Nil
    BY <1>0, <2>1 DEF P!Abort, ExplorerTypes, OneAsk
  <2>2. CASE current # Nil
    BY <1>0, <2>2 DEF P!Abort, ExplorerTypes, OneAsk
  <2> QED
    BY <2>1, <2>2
<1>2. PICK t \in Slots : /\ asks' = [P!Abort EXCEPT ![t] = P!NewAsk(c, v, from, reset)]
                         /\ current' = t /\ isLoading' = TRUE /\ failed' = FALSE
  BY DEF P!Fetch
<1> DEFINE q == P!NewAsk(c, v, from, reset)
<1>3. q \in AskType /\ q.conv = c /\ q.view = v /\ q.from = from /\ q.reset = reset
  BY DEF P!NewAsk, AskType, PanelConv
<1> HIDE DEF q
<1>4. asks'[t] = q /\ \A s \in Slots \ {t} : asks'[s] = P!NoAsk
  BY <1>1, <1>2 DEF q
<1>5. asks' \in [Slots -> AskType]
  BY <1>1, <1>2, <1>3 DEF q
<1> QED
  BY <1>0, <1>2, <1>3, <1>4, <1>5

(* The explorer begins anew.                                                *)
LEMMA RefetchExplores ==
  ASSUME PanelTypes, ExplorerInv, NEW c \in PanelConvs, NEW v \in Views, P!Refetch(c, v), UNCHANGED log,
         conv' = c, viewed' = v, isOpen', banner' \in BOOLEAN
  PROVE  ExplorerInv' /\ ExplorerTypes'
<1>0. /\ LogTypes /\ ExplorerTypes /\ OneAsk /\ Nil \notin Views /\ Nil \notin Slots /\ Nil \notin PanelConvs
  BY PanelAssumption DEF PanelTypes, ExplorerInv
<1>1. Len(log[c]) \in Nat
  BY <1>0, SameGrows DEF LogGrows
<1>2. P!Fetch(c, v, Len(log[c]), TRUE) /\ items' = {} /\ nextCursor' = 0 /\ hasMore' = TRUE
  BY DEF P!Refetch
<1>3. /\ asks' \in [Slots -> AskType] /\ \A s \in Slots : asks'[s].conv = Nil => asks'[s] = P!NoAsk
      /\ current' \in Slots /\ isLoading' = TRUE /\ failed' = FALSE
      /\ asks'[current'].conv = c /\ asks'[current'].view = v /\ asks'[current'].from = Len(log[c])
      /\ asks'[current'].reset = TRUE /\ \A s \in Slots \ {current'} : asks'[s].conv = Nil
  <2>1. PICK on \in BOOLEAN : on = TRUE
    OBVIOUS
  <2>2. P!Fetch(c, v, Len(log[c]), on)
    BY <1>2, <2>1
  <2>3. Len(log[c]) \in Int
    BY <1>1
  <2> QED
    BY <1>0, <2>1, <2>2, <2>3, FetchGoes
<1>4. ExplorerTypes'
  BY <1>2, <1>3 DEF ExplorerTypes, P!NoAsk
<1>5. OneAsk' /\ PanelClosed'
  BY <1>0, <1>3 DEF OneAsk, PanelClosed
<1>6. CoveredFrom(Len(log[c]) + 1)'
  BY <1>1 DEF CoveredFrom
<1>7. ASSUME NEW s \in Slots, asks'[s].conv # Nil PROVE AskOK(asks[s])'
  <2>1. s = current'
    BY <1>3, <1>7
  <2> HIDE DEF CoveredFrom
  <2> QED
    BY <1>0, <1>1, <1>2, <1>3, <1>6, <2>1 DEF AskOK
<1>8. P!ExplorerHonest' /\ nextCursor' <= Len(log'[conv'])
  BY <1>1, <1>2 DEF P!ExplorerHonest
<1> QED
  BY <1>0, <1>3, <1>4, <1>5, <1>7, <1>8 DEF ExplorerInv

(* The next page is asked for: the one below the cursor.                    *)
LEMMA LoadMoreExplores ==
  ASSUME PanelTypes, ExplorerInv, P!LoadMore
  PROVE  ExplorerInv' /\ ExplorerTypes'
<1>0. /\ LogTypes /\ ExplorerTypes /\ OneAsk /\ Nil \notin Slots /\ Nil \notin PanelConvs
      /\ conv \in PanelConvs /\ nextCursor \in Nat
  BY PanelAssumption DEF PanelTypes, ExplorerInv, LogTypes, ExplorerTypes
<1>1. /\ viewed # Nil /\ hasMore /\ ~isLoading /\ ~failed /\ P!Fetch(conv, viewed, nextCursor - 1, FALSE)
      /\ log' = log /\ wire' = wire /\ unheard' = unheard /\ conv' = conv /\ isOpen' = isOpen
      /\ viewed' = viewed /\ items' = items /\ nextCursor' = nextCursor /\ hasMore' = hasMore
      /\ banner' = banner /\ dropped' = dropped /\ unflagged' = unflagged
  BY DEF P!LoadMore, P!shared, P!panel
<1>2. viewed \in Views /\ current = Nil
  BY <1>0, <1>1 DEF ExplorerTypes, OneAsk
<1>3. /\ asks' \in [Slots -> AskType] /\ \A s \in Slots : asks'[s].conv = Nil => asks'[s] = P!NoAsk
      /\ current' \in Slots /\ isLoading' = TRUE /\ failed' = FALSE
      /\ asks'[current'].conv = conv /\ asks'[current'].view = viewed /\ asks'[current'].from = nextCursor - 1
      /\ asks'[current'].reset = FALSE /\ \A s \in Slots \ {current'} : asks'[s].conv = Nil
  <2>1. PICK off0 \in BOOLEAN : off0 = FALSE
    OBVIOUS
  <2>2. P!Fetch(conv, viewed, nextCursor - 1, off0)
    BY <1>1, <2>1
  <2>3. nextCursor - 1 \in Int
    BY <1>0
  <2> QED
    BY <1>0, <1>2, <2>1, <2>2, <2>3, FetchGoes
<1>4. ExplorerTypes'
  BY <1>0, <1>1, <1>3 DEF ExplorerTypes, P!NoAsk
<1>5. OneAsk' /\ PanelClosed'
  BY <1>0, <1>1, <1>3 DEF OneAsk, PanelClosed, ExplorerInv
<1>6. ASSUME NEW low \in Int, CoveredFrom(low) PROVE CoveredFrom(low)'
  BY <1>1, <1>6 DEF CoveredFrom, Told, Accounted, P!Attachments
<1>7. ASSUME NEW s \in Slots, asks'[s].conv # Nil PROVE AskOK(asks[s])'
  <2>1. s = current' /\ ~asks'[s].reset
    BY <1>3, <1>7
  <2> HIDE DEF CoveredFrom
  <2> QED
    BY <1>0, <1>1, <1>3, <2>1 DEF AskOK
<1>8. P!ExplorerHonest'
  BY <1>1 DEF ExplorerInv, P!ExplorerHonest, P!All, P!Attachments
<1>9. nextCursor' <= Len(log'[conv'])
  BY <1>1 DEF ExplorerInv
<1>10. CoveredFrom(IF hasMore THEN nextCursor ELSE 1)'
  <2>1. CoveredFrom(nextCursor)
    BY <1>1, <1>2 DEF ExplorerInv
  <2>2. nextCursor \in Int /\ hasMore'
    BY <1>0, <1>1
  <2>3. CoveredFrom(nextCursor)'
    <3> DEFINE low == nextCursor
    <3>1. low \in Int /\ low' = low
      BY <1>1, <2>2
    <3> QED
      BY <1>6, <2>1, <3>1
  <2> QED
    BY <1>1, <2>2, <2>3
<1> QED
  BY <1>4, <1>5, <1>7, <1>8, <1>9, <1>10 DEF ExplorerInv

(* The explorer is closed, and forgets everything.                          *)
LEMMA CloseExplores ==
  ASSUME PanelTypes, ExplorerInv, P!CloseExplorer
  PROVE  ExplorerInv' /\ ExplorerTypes'
<1>0. /\ LogTypes /\ ExplorerTypes /\ OneAsk /\ Nil \notin Slots /\ Nil \notin Views
      /\ conv \in PanelConvs /\ P!NoAsk \in AskType /\ P!NoAsk.conv = Nil
  BY PanelAssumption DEF PanelTypes, ExplorerInv, LogTypes, ExplorerTypes, P!NoAsk, AskType, PanelConv
<1>1. /\ viewed' = Nil /\ items' = {} /\ nextCursor' = 0 /\ hasMore' = TRUE /\ isLoading' = FALSE
      /\ failed' = FALSE /\ banner' = FALSE /\ asks' = P!Abort /\ current' = Nil
      /\ log' = log /\ conv' = conv
  BY DEF P!CloseExplorer, P!shared
<1>2. P!Abort \in [Slots -> AskType] /\ \A s \in Slots : P!Abort[s] = P!NoAsk
  <2>1. CASE current = Nil
    BY <1>0, <2>1 DEF P!Abort, ExplorerTypes, OneAsk
  <2>2. CASE current # Nil
    BY <1>0, <2>2 DEF P!Abort, ExplorerTypes, OneAsk
  <2> QED
    BY <2>1, <2>2
<1>3. ExplorerTypes'
  BY <1>0, <1>1, <1>2 DEF ExplorerTypes, P!NoAsk
<1>4. OneAsk' /\ PanelClosed' /\ \A s \in Slots : asks'[s].conv = Nil
  BY <1>0, <1>1, <1>2 DEF OneAsk, PanelClosed
<1>5. nextCursor' <= Len(log'[conv'])
  BY <1>0, <1>1, SameGrows DEF LogGrows
<1>6. P!ExplorerHonest'
  BY <1>1 DEF P!ExplorerHonest
<1> QED
  BY <1>1, <1>3, <1>4, <1>5, <1>6 DEF ExplorerInv

(* What the answer leaves alone.                                            *)
LEMMA AnswerEnds ==
  ASSUME PanelTypes, ExplorerInv, NEW s \in Slots, P!Answer(s)
  PROVE  /\ current = s /\ viewed # Nil /\ asks[s].conv = conv /\ asks[s].view = viewed /\ AskOK(asks[s])
         /\ asks' \in [Slots -> AskType] /\ \A r \in Slots : asks'[r] = P!NoAsk
         /\ isLoading' = FALSE /\ current' = Nil /\ viewed' = viewed /\ banner' = banner /\ unflagged' = unflagged
         /\ log' = log /\ wire' = wire /\ unheard' = unheard /\ conv' = conv /\ isOpen' = isOpen
         /\ \/ \E top \in P!Tops(asks[s]) : P!Takes(asks[s].reset, P!Page(conv, viewed, top))
            \/ P!ScopeFails
<1>1. /\ ExplorerTypes /\ OneAsk /\ P!NoAsk \in AskType /\ P!NoAsk.conv = Nil
  BY DEF PanelTypes, ExplorerInv, P!NoAsk, AskType, PanelConv
<1>2. /\ viewed # Nil /\ asks[s] # P!NoAsk /\ asks' = [asks EXCEPT ![s] = P!NoAsk]
      /\ IF current = s THEN isLoading' = FALSE /\ current' = Nil ELSE UNCHANGED <<isLoading, current>>
      /\ log' = log /\ wire' = wire /\ unheard' = unheard /\ conv' = conv /\ isOpen' = isOpen
      /\ viewed' = viewed /\ banner' = banner /\ unflagged' = unflagged
      /\ \/ \E top \in P!Tops(asks[s]) : P!Takes(asks[s].reset, P!Page(asks[s].conv, asks[s].view, top))
         \/ P!ScopeFails
  BY DEF P!Answer, P!shared, P!panel
<1>3. asks[s].conv # Nil /\ current = s
  BY <1>1, <1>2 DEF ExplorerTypes, OneAsk
<1>4. AskOK(asks[s])
  BY <1>3 DEF ExplorerInv
<1>5. asks[s].conv = conv /\ asks[s].view = viewed
  BY <1>4 DEF AskOK
<1>6. \A r \in Slots \ {s} : asks[r] = P!NoAsk
  BY <1>1, <1>3 DEF ExplorerTypes, OneAsk
<1>7. asks \in [Slots -> AskType]
  BY <1>1 DEF ExplorerTypes
<1>8. asks' \in [Slots -> AskType] /\ \A r \in Slots : asks'[r] = P!NoAsk
  BY <1>1, <1>2, <1>6, <1>7
<1> QED
  BY <1>2, <1>3, <1>4, <1>5, <1>8

(* A page has come, or a scope has failed.                                  *)
LEMMA AnswerExplores ==
  ASSUME PanelTypes, ExplorerInv, NEW s \in Slots, P!Answer(s)
  PROVE  ExplorerInv' /\ ExplorerTypes'
<1>0. /\ LogTypes /\ ExplorerTypes /\ Nil \notin Slots /\ conv \in PanelConvs /\ nextCursor \in Nat
      /\ P!NoAsk.conv = Nil /\ asks[s] \in AskType
  BY PanelAssumption DEF PanelTypes, LogTypes, ExplorerTypes, P!NoAsk
<1>1. /\ current = s /\ viewed # Nil /\ asks[s].conv = conv /\ asks[s].view = viewed /\ AskOK(asks[s])
      /\ asks' \in [Slots -> AskType] /\ \A r \in Slots : asks'[r] = P!NoAsk
      /\ isLoading' = FALSE /\ current' = Nil /\ viewed' = viewed /\ banner' = banner /\ unflagged' = unflagged
      /\ log' = log /\ wire' = wire /\ unheard' = unheard /\ conv' = conv /\ isOpen' = isOpen
      /\ \/ \E top \in P!Tops(asks[s]) : P!Takes(asks[s].reset, P!Page(conv, viewed, top))
         \/ P!ScopeFails
  BY AnswerEnds
<1>2. OneAsk' /\ PanelClosed' /\ \A r \in Slots : asks'[r].conv = Nil
  BY <1>0, <1>1 DEF OneAsk, PanelClosed, ExplorerInv
<1>3. Len(log[conv]) \in Nat
  BY <1>0, SameGrows DEF LogGrows
<1>4. CASE P!ScopeFails
  <2>1. failed' = TRUE /\ items' = items /\ nextCursor' = nextCursor /\ hasMore' = hasMore /\ dropped' = dropped
    BY <1>4 DEF P!ScopeFails
  <2>2. ExplorerTypes'
    BY <1>0, <1>1, <2>1 DEF ExplorerTypes, P!NoAsk
  <2>3. P!ExplorerHonest' /\ nextCursor' <= Len(log'[conv'])
    BY <1>1, <2>1 DEF ExplorerInv, P!ExplorerHonest, P!All, P!Attachments
  <2> QED
    BY <1>2, <2>1, <2>2, <2>3 DEF ExplorerInv
<1>5. ASSUME NEW top \in P!Tops(asks[s]), P!Takes(asks[s].reset, P!Page(conv, viewed, top))
      PROVE  ExplorerInv' /\ ExplorerTypes'
  <2> DEFINE pg == P!Page(conv, viewed, top)
  <2>1. /\ asks[s].reset => top \in asks[s].from .. Len(log[conv]) /\ asks[s].from \in Nat
        /\ ~asks[s].reset => top = nextCursor - 1 /\ hasMore
    BY <1>1, <1>5 DEF AskOK, P!Tops
  <2>2. top \in Int /\ top <= Len(log[conv])
    BY <1>0, <1>3, <2>1 DEF ExplorerInv
  <2>3. PageGood(conv, viewed, top, pg)
    BY <1>0, <2>2, PageHas
  <2>4. /\ items' = IF asks[s].reset THEN pg.items ELSE items \cup pg.items
        /\ nextCursor' = pg.cursor /\ hasMore' = pg.hasMore /\ dropped' = dropped \cup pg.cut /\ failed' = failed
    BY <1>5 DEF P!Takes
  <2> HIDE DEF pg
  <2>5. ExplorerTypes'
    <3>1. pg.hasMore \in BOOLEAN /\ pg.cursor \in Nat
      BY <2>3 DEF PageGood
    <3> QED
      BY <1>0, <1>1, <2>4, <3>1 DEF ExplorerTypes, P!NoAsk
  <2>6. nextCursor' <= Len(log'[conv'])
    BY <1>1, <2>3, <2>4 DEF PageGood
  <2>7. P!ExplorerHonest'
    <3>1. items' \subseteq P!All(conv, viewed)
      BY <2>3, <2>4 DEF PageGood, ExplorerInv, P!ExplorerHonest
    <3> QED
      BY <1>1, <3>1 DEF P!ExplorerHonest, P!All, P!Attachments
  <2> DEFINE low == IF hasMore' THEN nextCursor' ELSE 1
  <2>8. ASSUME NEW i \in 1 .. Len(log[conv]), low <= i
        PROVE  Accounted(i)' \/ Told(conv, i) \/ banner
    <3>1. P!Attachments(conv, viewed, i)' = P!Attachments(conv, viewed, i)
      BY <1>1 DEF P!Attachments
    <3>2. CASE i <= top
      <4>1. P!Attachments(conv, viewed, i) \subseteq pg.items \cup pg.cut
        BY <2>3, <2>4, <2>8, <3>2 DEF PageGood
      <4>2. pg.items \cup pg.cut \subseteq items' \cup dropped'
        BY <2>4
      <4> QED
        BY <3>1, <4>1, <4>2 DEF Accounted
    <3>3. CASE ~(i <= top)
      <4>1. CASE asks[s].reset
        <5>1. CoveredFrom(asks[s].from + 1) /\ asks[s].from + 1 <= i
          BY <1>1, <2>1, <2>2, <3>3, <4>1 DEF AskOK
        <5>2. Accounted(i) \/ Told(conv, i) \/ banner
          BY <5>1 DEF CoveredFrom
        <5>3. items = {}
          BY <1>1, <4>1 DEF AskOK
        <5>4. dropped \cup unflagged \subseteq dropped' \cup unflagged'
          BY <1>1, <2>4
        <5> QED
          BY <3>1, <5>2, <5>3, <5>4 DEF Accounted
      <4>2. CASE ~asks[s].reset
        <5>1. CoveredFrom(nextCursor)
          BY <1>0, <1>1, <2>1, <4>2 DEF ExplorerInv, AskOK
        <5>2. Accounted(i) \/ Told(conv, i) \/ banner
          BY <1>0, <2>1, <2>2, <3>3, <4>2, <5>1 DEF CoveredFrom
        <5>3. items \cup dropped \cup unflagged \subseteq items' \cup dropped' \cup unflagged'
          BY <1>1, <2>4, <4>2
        <5> QED
          BY <3>1, <5>2, <5>3 DEF Accounted
      <4> QED
        BY <4>1, <4>2
    <3> QED
      BY <3>2, <3>3
  <2>9. CoveredFrom(IF hasMore THEN nextCursor ELSE 1)'
    BY <1>1, <2>8 DEF CoveredFrom, Told
  <2> QED
    BY <1>2, <2>5, <2>6, <2>7, <2>9 DEF ExplorerInv
<1> QED
  BY <1>1, <1>4, <1>5

(* An event is handled: the banner appears, or what the event was about is  *)
(* put down as unannounced.                                                 *)
LEMMA EventExplores ==
  ASSUME PanelTypes, ExplorerInv, P!Event
  PROVE  ExplorerInv' /\ ExplorerTypes' /\ LogTypes'
<1>0. /\ LogTypes /\ ExplorerTypes /\ conv \in PanelConvs /\ Nil \notin Views
  BY PanelAssumption DEF PanelTypes, LogTypes
<1>1. PICK e \in wire :
        /\ wire' = wire \ {e}
        /\ IF viewed # Nil /\ e[1] = conv
           THEN /\ banner' = (banner \/ P!Matches(log[e[1]][e[2]], viewed))
                /\ unflagged' = IF P!Matches(log[e[1]][e[2]], viewed) THEN unflagged
                                ELSE unflagged \cup P!Attachments(e[1], viewed, e[2])
           ELSE UNCHANGED <<banner, unflagged>>
  BY DEF P!Event
<1>2. /\ log' = log /\ unheard' = unheard /\ conv' = conv /\ isOpen' = isOpen /\ viewed' = viewed /\ items' = items
      /\ nextCursor' = nextCursor /\ hasMore' = hasMore /\ isLoading' = isLoading /\ failed' = failed
      /\ asks' = asks /\ current' = current /\ dropped' = dropped
  BY DEF P!Event
<1>3. LogTypes'
  BY <1>0, <1>1, <1>2 DEF LogTypes
<1>4. LogGrows
  BY <1>0, <1>2, SameGrows
<1>5. banner' \in BOOLEAN /\ (banner => banner')
  <2>1. banner \in BOOLEAN
    BY <1>0 DEF ExplorerTypes
  <2>2. CASE viewed # Nil /\ e[1] = conv
    <3>1. banner' = (banner \/ P!Matches(log[e[1]][e[2]], viewed))
      BY <1>1, <2>2
    <3> HIDE DEF P!Matches
    <3> QED
      BY <2>1, <3>1
  <2>3. CASE ~(viewed # Nil /\ e[1] = conv)
    BY <1>1, <2>1, <2>3
  <2> QED
    BY <2>2, <2>3
<1>6. ExplorerTypes'
  BY <1>0, <1>2, <1>5 DEF ExplorerTypes, P!NoAsk
<1>7. unflagged \subseteq unflagged'
  BY <1>1
<1>8. ASSUME viewed # Nil, NEW low \in Int, CoveredFrom(low) PROVE CoveredFrom(low)'
  <2>1. ASSUME NEW i \in 1 .. Len(log[conv]), Told(conv, i)
        PROVE  Told(conv, i)' \/ Accounted(i)' \/ banner'
    <3>1. CASE conv \in unheard \/ <<conv, i>> # e
      BY <1>1, <1>2, <2>1, <3>1 DEF Told
    <3>2. CASE <<conv, i>> = e
      <4>1. e[1] = conv /\ e[2] = i
        BY <3>2
      <4>2. CASE P!Matches(log[conv][i], viewed)
        <5>1. banner' = (banner \/ P!Matches(log[conv][i], viewed))
          BY <1>1, <1>8, <4>1
        <5> HIDE DEF P!Matches
        <5> QED
          BY <4>2, <5>1
      <4>3. CASE ~P!Matches(log[conv][i], viewed)
        <5>1. P!Attachments(conv, viewed, i) \subseteq unflagged'
          BY <1>1, <1>8, <4>1, <4>3
        <5>2. P!Attachments(conv, viewed, i)' = P!Attachments(conv, viewed, i)
          BY <1>2 DEF P!Attachments
        <5> QED
          BY <5>1, <5>2 DEF Accounted
      <4> QED
        BY <4>2, <4>3
    <3> QED
      BY <3>1, <3>2
  <2>2. \A i \in 1 .. Len(log'[conv]) : i \in 1 .. Len(log[conv]) \/ Told(conv, i)'
    BY <1>2
  <2>3. items \cup dropped \cup unflagged \subseteq items' \cup dropped' \cup unflagged'
    BY <1>2, <1>7
  <2> HIDE DEF Told, Accounted, CoveredFrom
  <2> QED
    BY <1>0, <1>2, <1>4, <1>5, <1>8, <2>1, <2>2, <2>3, CoveredStays
<1>9. OneAsk' /\ PanelClosed'
  BY <1>2 DEF ExplorerInv, OneAsk, PanelClosed
<1>10. ASSUME NEW s \in Slots, asks'[s].conv # Nil PROVE AskOK(asks[s])'
  <2>1. AskOK(asks[s]) /\ asks[s].from \in Int
    BY <1>0, <1>2, <1>10 DEF ExplorerInv, AskType, ExplorerTypes
  <2>2. asks[s].reset => CoveredFrom(asks[s].from + 1)'
    <3> DEFINE low == asks[s].from + 1
    <3>1. low \in Int /\ low' = low
      BY <1>2, <2>1
    <3>2. viewed # Nil /\ CoveredFrom(low) => CoveredFrom(low)'
      BY <1>8, <3>1
    <3> QED
      BY <2>1, <3>2 DEF AskOK
  <2>3. asks'[s] = asks[s]
    BY <1>2
  <2> HIDE DEF CoveredFrom
  <2> QED
    BY <1>2, <2>1, <2>2, <2>3 DEF AskOK
<1>11. P!ExplorerHonest'
  BY <1>2 DEF ExplorerInv, P!ExplorerHonest, P!All, P!Attachments
<1>12. nextCursor' <= Len(log'[conv'])
  BY <1>2 DEF ExplorerInv
<1>13. viewed' # Nil /\ ~failed' /\ (current' # Nil => ~asks'[current'].reset)
         => CoveredFrom(IF hasMore THEN nextCursor ELSE 1)'
  <2> DEFINE low == IF hasMore THEN nextCursor ELSE 1
  <2>1. low \in Int /\ low' = low
    BY <1>0, <1>2 DEF ExplorerTypes
  <2>2. viewed # Nil /\ CoveredFrom(low) => CoveredFrom(low)'
    BY <1>8, <2>1
  <2> QED
    BY <1>2, <2>2 DEF ExplorerInv
<1> QED
  BY <1>3, <1>6, <1>9, <1>10, <1>11, <1>12, <1>13 DEF ExplorerInv

(* The steps that the explorer does not notice.                             *)
LEMMA MessageExplores ==
  ASSUME PanelTypes, ExplorerInv, NEW c \in PanelConvs, P!Message(c)
  PROVE  ExplorerInv' /\ ExplorerTypes' /\ LogTypes' /\ LogGrows
<1>0. LogTypes /\ conv \in PanelConvs
  BY DEF PanelTypes, LogTypes
<1>1. /\ LogGrows /\ log' \in [PanelConvs -> Seq(Kinds)]
      /\ Len(log'[c]) = Len(log[c]) + 1 /\ \A d \in PanelConvs \ {c} : log'[d] = log[d]
      /\ \/ wire' = wire \cup {<<c, Len(log[c]) + 1>>} /\ unheard' = unheard
         \/ unheard' = unheard \cup {c} /\ wire' = wire
  BY <1>0, MessageGrows
<1>2. UNCHANGED <<conv, P!explorer>> /\ conv' = conv /\ isOpen' = isOpen
  BY DEF P!Message, P!panel
<1>3. \A d \in PanelConvs : Len(log[d]) \in Nat /\ Len(log'[d]) \in Nat /\ Len(log[d]) <= Len(log'[d])
  BY <1>1 DEF LogGrows
<1>4. LogTypes'
  <2>1. wire' \subseteq PanelConvs \X Nat /\ \A e \in wire' : e[2] \in 1 .. Len(log'[e[1]])
    <3>1. \A e \in wire : e \in PanelConvs \X Nat /\ e[1] \in PanelConvs /\ e[2] \in 1 .. Len(log[e[1]])
      BY <1>0 DEF LogTypes
    <3>2. \A e \in wire : e[2] \in 1 .. Len(log'[e[1]])
      BY <1>3, <3>1
    <3>3. <<c, Len(log[c]) + 1>> \in PanelConvs \X Nat /\ Len(log[c]) + 1 \in 1 .. Len(log'[c])
      BY <1>1, <1>3
    <3> QED
      BY <1>1, <3>1, <3>2, <3>3
  <2> QED
    BY <1>0, <1>1, <1>2, <2>1 DEF LogTypes
<1>5. \A i \in 1 .. Len(log[conv]) : Told(conv, i) => Told(conv, i)'
  BY <1>1, <1>2 DEF Told
<1>6. \A i \in 1 .. Len(log'[conv]) : i \in 1 .. Len(log[conv]) \/ Told(conv, i)'
  BY <1>0, <1>1, <1>2, <1>3 DEF Told
<1>7. viewed # Nil => isOpen'
  BY <1>2 DEF ExplorerInv, PanelClosed
<1> QED
  BY <1>1, <1>2, <1>4, <1>5, <1>6, <1>7, QuietExplorer

(* A step that leaves the explorer, its conversation and the messages alone *)
(* keeps the explorer exact.                                                *)
LEMMA OthersExplore ==
  ASSUME PanelTypes, ExplorerInv, UNCHANGED <<P!shared, conv, P!explorer>>, viewed # Nil => isOpen'
  PROVE  ExplorerInv' /\ ExplorerTypes' /\ LogTypes' /\ LogGrows
<1>1. log' = log /\ wire' = wire /\ unheard' = unheard /\ conv' = conv
  BY DEF P!shared
<1>2. LogTypes' /\ LogGrows
  BY <1>1, SameGrows DEF LogTypes, PanelTypes
<1>3. \A i \in 1 .. Len(log[conv]) : Told(conv, i) => Told(conv, i)'
  BY <1>1 DEF Told
<1>4. \A i \in 1 .. Len(log'[conv]) : i \in 1 .. Len(log[conv]) \/ Told(conv, i)'
  BY <1>1
<1> QED
  BY <1>1, <1>2, <1>3, <1>4, QuietExplorer

(* Another conversation is chosen.                                          *)
LEMMA SwitchExplores ==
  ASSUME PanelTypes, ExplorerInv, NEW c \in PanelConvs, P!Switch(c)
  PROVE  ExplorerInv' /\ ExplorerTypes' /\ LogTypes' /\ LogGrows
<1>0. LogTypes /\ ExplorerTypes
  BY DEF PanelTypes
<1>1. log' = log /\ wire' = wire /\ unheard' = unheard /\ conv' = c /\ viewed' = viewed /\ isOpen' = isOpen
  BY DEF P!Switch, P!shared
<1>2. LogTypes' /\ LogGrows
  BY <1>0, <1>1, SameGrows DEF LogTypes
<1>3. CASE viewed # Nil
  <2>1. P!Refetch(c, viewed) /\ banner' = FALSE /\ viewed \in Views /\ isOpen'
    BY <1>0, <1>1, <1>3 DEF P!Switch, ExplorerTypes, ExplorerInv, PanelClosed
  <2>2. banner' \in BOOLEAN
    BY <2>1
  <2> QED
    BY <1>1, <1>2, <2>1, <2>2, RefetchExplores
<1>4. CASE viewed = Nil
  <2>1. /\ items' = items /\ nextCursor' = nextCursor /\ hasMore' = hasMore /\ isLoading' = isLoading
        /\ failed' = failed /\ banner' = banner /\ asks' = asks /\ current' = current /\ dropped' = dropped
        /\ unflagged' = unflagged
    BY <1>4 DEF P!Switch
  <2>2. ExplorerTypes'
    BY <1>0, <1>1, <2>1 DEF ExplorerTypes, P!NoAsk
  <2>3. items = {} /\ nextCursor = 0 /\ current = Nil
    BY <1>4 DEF ExplorerInv, PanelClosed
  <2>4. \A s \in Slots : asks[s].conv = Nil
    BY <2>3, PanelAssumption DEF ExplorerInv, OneAsk
  <2>5. OneAsk' /\ PanelClosed'
    BY <1>1, <1>4, <2>1 DEF ExplorerInv, OneAsk, PanelClosed
  <2>6. P!ExplorerHonest'
    BY <2>1, <2>3 DEF P!ExplorerHonest
  <2>7. nextCursor' <= Len(log'[conv'])
    BY <1>1, <1>2, <2>1, <2>3 DEF LogGrows
  <2> QED
    BY <1>1, <1>2, <1>4, <2>1, <2>2, <2>4, <2>5, <2>6, <2>7 DEF ExplorerInv
<1> QED
  BY <1>3, <1>4

(* The steps of the explorer.                                               *)
LEMMA ExplorerStep ==
  ASSUME PanelTypes, ExplorerInv, P!Next
  PROVE  ExplorerInv' /\ ExplorerTypes' /\ LogTypes' /\ LogGrows
<1>0. LogTypes /\ ExplorerTypes
  BY DEF PanelTypes
<1>1. ASSUME NEW c \in PanelConvs, P!Message(c) PROVE ExplorerInv' /\ ExplorerTypes' /\ LogTypes' /\ LogGrows
  BY <1>1, MessageExplores
<1>2. ASSUME NEW c \in PanelConvs, P!Switch(c) PROVE ExplorerInv' /\ ExplorerTypes' /\ LogTypes' /\ LogGrows
  BY <1>2, SwitchExplores
<1>3. ASSUME P!Event PROVE ExplorerInv' /\ ExplorerTypes' /\ LogTypes' /\ LogGrows
  <2>1. log' = log
    BY <1>3 DEF P!Event
  <2> QED
    BY <1>0, <1>3, <2>1, EventExplores, SameGrows
<1>4. ASSUME UNCHANGED <<log, wire, unheard, conv>> PROVE LogTypes' /\ LogGrows
  BY <1>0, <1>4, SameGrows DEF LogTypes
<1>5. ASSUME P!CloseExplorer PROVE ExplorerInv' /\ ExplorerTypes' /\ LogTypes' /\ LogGrows
  <2>1. UNCHANGED <<log, wire, unheard, conv>>
    BY <1>5 DEF P!CloseExplorer, P!shared
  <2> QED
    BY <1>4, <1>5, <2>1, CloseExplores
<1>6. ASSUME P!LoadMore PROVE ExplorerInv' /\ ExplorerTypes' /\ LogTypes' /\ LogGrows
  <2>1. UNCHANGED <<log, wire, unheard, conv>>
    BY <1>6 DEF P!LoadMore, P!shared
  <2> QED
    BY <1>4, <1>6, <2>1, LoadMoreExplores
<1>7. ASSUME NEW s \in Slots, P!Answer(s) PROVE ExplorerInv' /\ ExplorerTypes' /\ LogTypes' /\ LogGrows
  <2>1. UNCHANGED <<log, wire, unheard, conv>>
    BY <1>7 DEF P!Answer, P!shared
  <2> QED
    BY <1>4, <1>7, <2>1, AnswerExplores
<1>8. ASSUME P!Refresh PROVE ExplorerInv' /\ ExplorerTypes' /\ LogTypes' /\ LogGrows
  <2>1. UNCHANGED <<log, wire, unheard, conv>> /\ conv' = conv /\ log' = log
    BY <1>8 DEF P!Refresh, P!shared
  <2>2. viewed # Nil /\ viewed' = viewed /\ P!Refetch(conv, viewed) /\ isOpen' = isOpen /\ banner' \in BOOLEAN
    BY <1>0, <1>8 DEF P!Refresh, P!panel, ExplorerTypes
  <2>3. viewed \in Views /\ conv \in PanelConvs /\ isOpen'
    BY <1>0, <2>2 DEF ExplorerTypes, LogTypes, ExplorerInv, PanelClosed
  <2> QED
    BY <1>4, <2>1, <2>2, <2>3, RefetchExplores
<1>9. ASSUME NEW v \in Views, P!OpenExplorer(v) PROVE ExplorerInv' /\ ExplorerTypes' /\ LogTypes' /\ LogGrows
  <2>1. UNCHANGED <<log, wire, unheard, conv>> /\ conv' = conv /\ log' = log
    BY <1>9 DEF P!OpenExplorer, P!shared
  <2>2. viewed' = v /\ P!Refetch(conv, v) /\ isOpen' /\ banner' = FALSE
    BY <1>9 DEF P!OpenExplorer, P!panel
  <2>3. banner' \in BOOLEAN /\ conv \in PanelConvs
    BY <1>0, <2>2 DEF LogTypes
  <2> QED
    BY <1>4, <2>1, <2>2, <2>3, RefetchExplores
<1>10. ASSUME P!Open PROVE ExplorerInv' /\ ExplorerTypes' /\ LogTypes' /\ LogGrows
  <2>1. UNCHANGED <<P!shared, conv, P!explorer>> /\ isOpen'
    BY <1>10 DEF P!Open
  <2> QED
    BY <2>1, OthersExplore
<1>11. ASSUME P!Close PROVE ExplorerInv' /\ ExplorerTypes' /\ LogTypes' /\ LogGrows
  <2>1. UNCHANGED <<P!shared, conv, P!explorer>> /\ viewed = Nil
    BY <1>11 DEF P!Close
  <2> QED
    BY <2>1, OthersExplore
<1>12. ASSUME P!Meta \/ P!Change \/ P!ServeChange \/ P!Changed \/ \E v \in Views : P!Load(v) \/ P!Retry(v)
       PROVE  ExplorerInv' /\ ExplorerTypes' /\ LogTypes' /\ LogGrows
  <2>1. UNCHANGED <<P!shared, conv, P!explorer, isOpen>>
    <3>1. CASE P!Meta
      BY <3>1 DEF P!Meta
    <3>2. CASE P!Change
      BY <3>2 DEF P!Change, P!panel
    <3>3. CASE P!ServeChange
      BY <3>3 DEF P!ServeChange, P!panel
    <3>4. CASE P!Changed
      BY <3>4 DEF P!Changed, P!panel
    <3>5. ASSUME NEW v \in Views, P!Load(v) PROVE UNCHANGED <<P!shared, conv, P!explorer, isOpen>>
      BY <3>5 DEF P!Load
    <3>6. ASSUME NEW v \in Views, P!Retry(v) PROVE UNCHANGED <<P!shared, conv, P!explorer, isOpen>>
      BY <3>6 DEF P!Retry
    <3> QED
      BY <1>12, <3>1, <3>2, <3>3, <3>4, <3>5, <3>6
  <2>2. UNCHANGED <<P!shared, conv, P!explorer>> /\ (viewed # Nil => isOpen')
    BY <2>1 DEF ExplorerInv, PanelClosed
  <2> QED
    BY <2>2, OthersExplore
<1> QED
  BY <1>1, <1>2, <1>3, <1>5, <1>6, <1>7, <1>8, <1>9, <1>10, <1>11, <1>12 DEF P!Next

(* Unless it was written for other metadata, the preference shown is the    *)
(* one stored, or a change of it under way knows the one before.            *)
PreferenceInv ==
  ~slipped =>
    /\ change.pc = "idle" /\ meta.conv # Nil => meta.pref = pref[meta.conv]
    /\ change.pc # "idle" => change.conv = meta.conv
    /\ change.pc \in {"asked", "failed"} => pref[change.conv] = change.prev
    /\ change.pc = "answered" => pref[change.conv] = ~change.prev

(* Every step of the panel keeps the preference right.                      *)
LEMMA PreferenceStep ==
  ASSUME PanelTypes, PreferenceInv, P!Next
  PROVE  PreferenceInv' /\ PreferenceTypes'
<1>0. /\ PreferenceTypes /\ conv \in PanelConvs /\ Nil \notin PanelConvs
      /\ \A c \in PanelConvs : pref[c] \in BOOLEAN
  BY PanelAssumption DEF PanelTypes, LogTypes, PreferenceTypes
<1>1. ASSUME UNCHANGED <<meta, pref, change, slipped>>, metaLoad' = metaLoad \/ metaLoad' = P!NoLoad
             \/ \E c \in PanelConvs : metaLoad' = [conv |-> c, from |-> pref[c]]
      PROVE  PreferenceInv' /\ PreferenceTypes'
  <2>1. P!NoLoad \in [conv : PanelConv, from : BOOLEAN] /\ P!NoLoad' = P!NoLoad
    BY DEF P!NoLoad, PanelConv
  <2>2. ASSUME NEW c \in PanelConvs, metaLoad' = [conv |-> c, from |-> pref[c]]
        PROVE  metaLoad' \in [conv : PanelConv, from : BOOLEAN] /\ metaLoad'.conv # Nil
    BY <1>0, <2>2 DEF PanelConv
  <2>3. /\ metaLoad' \in [conv : PanelConv, from : BOOLEAN]
        /\ metaLoad'.conv = Nil => metaLoad' = P!NoLoad
    BY <1>0, <1>1, <2>1, <2>2 DEF PreferenceTypes
  <2>4. PreferenceTypes'
    BY <1>0, <1>1, <2>1, <2>3 DEF PreferenceTypes
  <2>5. PreferenceInv'
    BY <1>1 DEF PreferenceInv
  <2> QED
    BY <2>4, <2>5
<1>2. ASSUME P!Meta PROVE PreferenceInv' /\ PreferenceTypes'
  <2>1. metaLoad # P!NoLoad /\ metaLoad' = P!NoLoad /\ UNCHANGED <<pref, change>>
    BY <1>2 DEF P!Meta
  <2>2. P!NoLoad \in [conv : PanelConv, from : BOOLEAN] /\ P!NoLoad' = P!NoLoad
    BY DEF P!NoLoad, PanelConv
  <2>3. CASE UNCHANGED <<meta, slipped>>
    <3>1. PreferenceTypes'
      BY <1>0, <2>1, <2>2, <2>3 DEF PreferenceTypes
    <3> QED
      BY <2>1, <2>3, <3>1 DEF PreferenceInv
  <2>4. ASSUME NEW p \in P!Preferences(metaLoad), meta' = [conv |-> metaLoad.conv, pref |-> p],
               slipped' = (p # pref[metaLoad.conv] \/ change.pc # "idle")
        PROVE  PreferenceInv' /\ PreferenceTypes'
    <3>1. metaLoad.conv \in PanelConvs /\ metaLoad.from \in BOOLEAN
      BY <1>0, <2>1 DEF PreferenceTypes, PanelConv
    <3>2. p \in BOOLEAN
      BY <1>0, <2>4, <3>1 DEF P!Preferences
    <3>3. meta' \in [conv : PanelConv, pref : BOOLEAN] /\ meta'.conv = metaLoad.conv /\ meta'.pref = p
      BY <2>4, <3>1, <3>2 DEF PanelConv
    <3>4. slipped' \in BOOLEAN
      BY <2>4
    <3>5. PreferenceTypes'
      BY <1>0, <2>1, <2>2, <3>3, <3>4 DEF PreferenceTypes
    <3>6. ~slipped' => p = pref[metaLoad.conv] /\ change.pc = "idle"
      BY <2>4
    <3> QED
      BY <2>1, <3>3, <3>5, <3>6 DEF PreferenceInv
  <2> QED
    BY <1>2, <2>3, <2>4 DEF P!Meta
<1>3. ASSUME P!Change PROVE PreferenceInv' /\ PreferenceTypes'
  <2>1. /\ meta.conv # Nil /\ change.pc = "idle" /\ meta' = [meta EXCEPT !.pref = ~@]
        /\ change' = [pc |-> "asked", conv |-> conv, prev |-> meta.pref]
        /\ slipped' = (slipped \/ meta.conv # conv) /\ metaLoad' = metaLoad /\ pref' = pref
    BY <1>3 DEF P!Change
  <2>2. /\ change'.pc = "asked" /\ change'.conv = conv /\ change'.prev = meta.pref /\ change' \in ChangeType
    BY <1>0, <2>1 DEF PreferenceTypes, ChangeType, PanelConv
  <2>3. meta' \in [conv : PanelConv, pref : BOOLEAN] /\ meta'.conv = meta.conv
    BY <1>0, <2>1 DEF PreferenceTypes
  <2>4. slipped' \in BOOLEAN /\ (~slipped' => ~slipped /\ meta.conv = conv)
    BY <2>1
  <2>5. PreferenceTypes'
    BY <1>0, <2>1, <2>2, <2>3, <2>4 DEF PreferenceTypes, P!NoLoad
  <2>6. ~slipped' => pref[conv] = meta.pref
    BY <2>1, <2>4 DEF PreferenceInv
  <2> QED
    BY <2>1, <2>2, <2>3, <2>4, <2>5, <2>6 DEF PreferenceInv
<1>4. ASSUME P!ServeChange PROVE PreferenceInv' /\ PreferenceTypes'
  <2>1. change.pc = "asked" /\ meta' = meta /\ metaLoad' = metaLoad /\ change.conv \in PanelConvs
    BY <1>0, <1>4 DEF P!ServeChange, P!metadata, PreferenceTypes
  <2>2. PICK result \in {"answered", "failed"} : P!Answers(result) /\
          \/ /\ pref' = [pref EXCEPT ![change.conv] = ~change.prev]
             /\ (result = "answered" /\ slipped' = slipped) \/ slipped' = TRUE
          \/ result = "failed" /\ pref' = pref /\ slipped' = slipped
    BY <1>4 DEF P!ServeChange
  <2>3. /\ change'.pc = result /\ change'.conv = change.conv /\ change'.prev = change.prev
        /\ change' \in ChangeType /\ change.prev \in BOOLEAN
    BY <1>0, <2>2 DEF P!Answers, PreferenceTypes, ChangeType
  <2>4. pref' \in [PanelConvs -> BOOLEAN] /\ slipped' \in BOOLEAN
    BY <1>0, <2>2, <2>3 DEF PreferenceTypes
  <2>5. PreferenceTypes'
    BY <1>0, <2>1, <2>3, <2>4 DEF PreferenceTypes, P!NoLoad
  <2>6. ~slipped' => /\ ~slipped
                     /\ \/ result = "answered" /\ pref'[change.conv] = ~change.prev
                        \/ result = "failed" /\ pref' = pref
    BY <1>0, <2>1, <2>2 DEF PreferenceTypes
  <2>7. ~slipped => pref[change.conv] = change.prev /\ change.conv = meta.conv
    BY <2>1 DEF PreferenceInv
  <2> QED
    BY <2>1, <2>3, <2>5, <2>6, <2>7 DEF PreferenceInv
<1>5. ASSUME P!Changed PROVE PreferenceInv' /\ PreferenceTypes'
  <2>1. /\ change.pc \in {"answered", "failed"} /\ change' = P!NoChange
        /\ meta' = [meta EXCEPT !.pref = IF change.pc = "answered" THEN ~change.prev ELSE change.prev]
        /\ slipped' = (slipped \/ meta.conv # change.conv) /\ metaLoad' = metaLoad /\ pref' = pref
    BY <1>5 DEF P!Changed, P!Back
  <2>2. change' \in ChangeType /\ change'.pc = "idle"
    BY <2>1 DEF P!NoChange, ChangeType, PanelConv
  <2>3. /\ meta' \in [conv : PanelConv, pref : BOOLEAN] /\ meta'.conv = meta.conv
        /\ meta'.pref = IF change.pc = "answered" THEN ~change.prev ELSE change.prev
    BY <1>0, <2>1 DEF PreferenceTypes, ChangeType
  <2>4. slipped' \in BOOLEAN /\ (~slipped' => ~slipped /\ meta.conv = change.conv)
    BY <2>1
  <2>5. PreferenceTypes'
    BY <1>0, <2>1, <2>2, <2>3, <2>4 DEF PreferenceTypes, P!NoLoad
  <2> QED
    BY <2>1, <2>2, <2>3, <2>4, <2>5 DEF PreferenceInv
<1>6. ASSUME P!Open \/ P!Close \/ \E c \in PanelConvs : P!Switch(c)
      PROVE  PreferenceInv' /\ PreferenceTypes'
  <2>1. CASE P!Open
    <3>1. UNCHANGED <<meta, pref, change, slipped>> /\ metaLoad' = [conv |-> conv, from |-> pref[conv]]
      BY <2>1 DEF P!Open, P!preference
    <3> QED
      BY <1>0, <1>1, <3>1
  <2>2. CASE P!Close
    <3>1. UNCHANGED <<meta, pref, change, slipped>> /\ metaLoad' = P!NoLoad
      BY <2>2 DEF P!Close, P!preference
    <3> QED
      BY <1>1, <3>1
  <2>3. ASSUME NEW c \in PanelConvs, P!Switch(c) PROVE PreferenceInv' /\ PreferenceTypes'
    <3>1. UNCHANGED <<meta, pref, change, slipped>>
      BY <2>3 DEF P!Switch, P!preference
    <3>2. metaLoad' = metaLoad \/ metaLoad' = [conv |-> c, from |-> pref[c]]
      BY <2>3 DEF P!Switch
    <3> QED
      BY <1>1, <2>3, <3>1, <3>2
  <2> QED
    BY <1>6, <2>1, <2>2, <2>3
<1>7. ASSUME UNCHANGED <<P!metadata, P!preference>> PROVE PreferenceInv' /\ PreferenceTypes'
  BY <1>1, <1>7 DEF P!metadata, P!preference
<1>8. ASSUME NEW c \in PanelConvs, P!Message(c) PROVE UNCHANGED <<P!metadata, P!preference>>
  BY <1>8 DEF P!Message
<1>9. ASSUME P!Event PROVE UNCHANGED <<P!metadata, P!preference>>
  BY <1>9 DEF P!Event
<1>10. ASSUME P!CloseExplorer \/ P!LoadMore \/ P!Refresh PROVE UNCHANGED <<P!metadata, P!preference>>
  BY <1>10 DEF P!CloseExplorer, P!LoadMore, P!Refresh
<1>11. ASSUME NEW s \in Slots, P!Answer(s) PROVE UNCHANGED <<P!metadata, P!preference>>
  BY <1>11 DEF P!Answer
<1>12. ASSUME NEW v \in Views, P!OpenExplorer(v) \/ P!Load(v) \/ P!Retry(v)
       PROVE  UNCHANGED <<P!metadata, P!preference>>
  BY <1>12 DEF P!OpenExplorer, P!Load, P!Retry
<1> QED
  BY <1>2, <1>3, <1>4, <1>5, <1>6, <1>7, <1>8, <1>9, <1>10, <1>11, <1>12 DEF P!Next

(* A preview is at rest, or its newest request is for the conversation that *)
(* the panel has loaded; after that request the panel heard of every        *)
(* message that holds something of the kind.                                *)
FreshFrom(c, v, n) == \A i \in n + 1 .. Len(log[c]) : P!Holds(log[c][i], v) = 0 \/ Told(c, i)
NewestLoad(v, l) ==
  /\ l \in loads[v] /\ \A k \in loads[v] \ {l} : k.n < l.n
  /\ settled[v] <= l.n /\ l.conv = conv /\ FreshFrom(conv, v, l.from)
Settled(v) ==
  /\ \A l \in loads[v] : l.n < settled[v]
  /\ \/ preview[v].error \/ crossed[v]
     \/ preview[v].conv = conv /\ preview[v].top <= Len(log[conv]) /\ FreshFrom(conv, v, preview[v].top)
Fresh(v) == Settled(v) \/ \E l \in LoadType : NewestLoad(v, l)
PreviewInv ==
  /\ loaded \in {Nil, conv} /\ (loaded # Nil => isOpen)
  /\ metaLoad.conv # Nil => isOpen
  /\ meta.conv = Nil => loaded = Nil
  /\ loaded # Nil => \A v \in Views : Fresh(v)

(* A preview that is fresh stays so while all that is new has been told.    *)
LEMMA FreshStays ==
  ASSUME LogTypes, LogGrows, conv' = conv, NEW v, NEW n \in Nat, FreshFrom(conv, v, n),
         \A i \in 1 .. Len(log[conv]) : P!Holds(log[conv][i], v) # 0 /\ Told(conv, i) => Told(conv, i)',
         \A i \in 1 .. Len(log'[conv]) : i \in 1 .. Len(log[conv]) \/ Told(conv, i)'
  PROVE  FreshFrom(conv, v, n)'
<1>1. ASSUME NEW i \in n + 1 .. Len(log'[conv]) PROVE P!Holds(log'[conv][i], v) = 0 \/ Told(conv, i)'
  <2>1. conv \in PanelConvs
    BY DEF LogTypes
  <2>2. Len(log[conv]) \in Nat /\ Len(log'[conv]) \in Nat /\ i \in 1 .. Len(log'[conv])
    BY <1>1, <2>1 DEF LogGrows
  <2>3. CASE i \in 1 .. Len(log[conv])
    <3>1. i \in n + 1 .. Len(log[conv]) /\ log'[conv][i] = log[conv][i]
      BY <1>1, <2>1, <2>2, <2>3 DEF LogGrows
    <3> QED
      BY <2>3, <3>1 DEF FreshFrom
  <2> QED
    BY <2>2, <2>3
<1> QED
  BY <1>1 DEF FreshFrom

(* Requests for some of the previews go out.                                *)
LEMMA AsksLoad ==
  ASSUME PanelTypes, NEW c \in PanelConvs, NEW set, P!Asks(c, set)
  PROVE  /\ loads' \in [Views -> SUBSET LoadType]
         /\ \A v \in Views : /\ v \notin set => loads'[v] = loads[v]
                             /\ \E m \in Nat : \A l \in loads'[v] : l.n <= m
                             /\ \A l \in loads'[v] : l \in loads[v] \/ (l.conv = c /\ l.from = Len(log[c]))
                             /\ v \in set => \E l \in LoadType : 
                                  /\ l \in loads'[v] /\ \A k \in loads'[v] \ {l} : k.n < l.n
                                  /\ settled[v] <= l.n /\ l.conv = c /\ l.from = Len(log[c])
<1>0. /\ PreviewTypes /\ LogTypes /\ loads \in [Views -> SUBSET LoadType]
  BY DEF PanelTypes, PreviewTypes
<1>1. Len(log[c]) \in Nat
  BY <1>0, SameGrows DEF LogGrows
<1>2. loads' = [v \in Views |-> IF v \in set THEN loads[v] \cup {P!Asking(c, v)} ELSE loads[v]]
  BY DEF P!Asks
<1>3. ASSUME NEW v \in Views
      PROVE  /\ P!Asking(c, v) \in LoadType /\ P!Asking(c, v).conv = c /\ P!Asking(c, v).from = Len(log[c])
             /\ \A k \in loads[v] : k.n < P!Asking(c, v).n
             /\ settled[v] <= P!Asking(c, v).n /\ P!Asking(c, v).n \in Nat
  <2> DEFINE N == {l.n : l \in loads[v]} \cup {settled[v]}
  <2>1. PICK m \in Nat : \A l \in loads[v] : l.n <= m
    BY <1>0 DEF PreviewTypes
  <2>2. settled[v] \in Nat /\ \A l \in loads[v] : l \in LoadType /\ l.n \in Nat
    BY <1>0 DEF PreviewTypes, LoadType
  <2>3. PICK top \in Nat : m <= top /\ settled[v] <= top
    BY <2>2
  <2>4. N \in SUBSET Nat /\ N # {}
    BY <2>2
  <2>5. \A n \in N : n <= top
    BY <2>1, <2>2, <2>3
  <2> HIDE DEF N
  <2>6. P!Max(N) \in N /\ \A n \in N : n <= P!Max(N)
    BY <2>4, <2>5, Largest
  <2>7. P!Max(N) \in Nat
    BY <2>4, <2>6
  <2> DEFINE q == P!Asking(c, v)
  <2>8. q = [conv |-> c, from |-> Len(log[c]), n |-> P!Max(N) + 1]
    BY DEF P!Asking, N
  <2>9. q \in LoadType /\ q.conv = c /\ q.from = Len(log[c]) /\ q.n = P!Max(N) + 1
    BY <1>1, <2>7, <2>8 DEF LoadType
  <2>10. settled[v] \in N /\ \A k \in loads[v] : k.n \in N
    BY DEF N
  <2> HIDE DEF q
  <2>11. \A k \in loads[v] : k.n < q.n
    BY <2>2, <2>6, <2>7, <2>9, <2>10
  <2>12. settled[v] <= q.n /\ q.n \in Nat
    BY <2>2, <2>6, <2>7, <2>9, <2>10
  <2> QED
    BY <2>9, <2>11, <2>12 DEF q
<1>4. loads' \in [Views -> SUBSET LoadType]
  <2>1. \A v \in Views : loads'[v] \in SUBSET LoadType
    BY <1>0, <1>2, <1>3
  <2> QED
    BY <1>2, <2>1
<1>5. ASSUME NEW v \in Views, v \in set
      PROVE  /\ \E l \in LoadType : /\ l \in loads'[v] /\ \A k \in loads'[v] \ {l} : k.n < l.n
                                    /\ settled[v] <= l.n /\ l.conv = c /\ l.from = Len(log[c])
             /\ \E m \in Nat : \A l \in loads'[v] : l.n <= m
             /\ \A l \in loads'[v] : l \in loads[v] \/ (l.conv = c /\ l.from = Len(log[c]))
  <2> DEFINE q == P!Asking(c, v)
  <2>1. loads'[v] = loads[v] \cup {q}
    BY <1>2, <1>5
  <2>2. /\ q \in LoadType /\ q.conv = c /\ q.from = Len(log[c])
        /\ \A k \in loads[v] : k.n < q.n
        /\ settled[v] <= q.n /\ q.n \in Nat
    BY <1>3
  <2>3. \A l \in loads[v] : l.n \in Nat
    BY <1>0 DEF LoadType
  <2> HIDE DEF q
  <2>4. \A l \in loads'[v] : l.n <= q.n
    BY <2>1, <2>2, <2>3
  <2>5. \A k \in loads'[v] \ {q} : k.n < q.n
    BY <2>1, <2>2
  <2> QED
    BY <2>1, <2>2, <2>4, <2>5
<1>6. ASSUME NEW v \in Views, v \notin set PROVE loads'[v] = loads[v]
  BY <1>2, <1>6
<1>7. \A v \in Views : \E m \in Nat : \A l \in loads[v] : l.n <= m
  BY <1>0 DEF PreviewTypes
<1> QED
  BY <1>4, <1>5, <1>6, <1>7

(* A preview of which nothing changes stays as fresh as it was.             *)
LEMMA PreviewStays ==
  ASSUME PanelTypes, LogGrows, conv' = conv, NEW v \in Views, Fresh(v),
         loads'[v] = loads[v], settled'[v] = settled[v], preview'[v] = preview[v], crossed'[v] = crossed[v],
         \A i \in 1 .. Len(log[conv]) : P!Holds(log[conv][i], v) # 0 /\ Told(conv, i) => Told(conv, i)',
         \A i \in 1 .. Len(log'[conv]) : i \in 1 .. Len(log[conv]) \/ Told(conv, i)'
  PROVE  Fresh(v)'
<1>0. LogTypes /\ PreviewTypes /\ conv \in PanelConvs
  BY DEF PanelTypes, LogTypes
<1>1. ASSUME NEW n \in Nat, FreshFrom(conv, v, n) PROVE FreshFrom(conv, v, n)'
  BY <1>0, <1>1, FreshStays
<1>2. Len(log[conv]) \in Nat /\ Len(log'[conv]) \in Nat /\ Len(log[conv]) <= Len(log'[conv])
  BY <1>0 DEF LogGrows
<1>3. CASE Settled(v)
  <2>1. PICK n \in Nat : n = preview[v].top
    BY <1>0 DEF PreviewTypes
  <2>2. FreshFrom(conv, v, preview[v].top) => FreshFrom(conv, v, preview[v].top)'
    BY <1>1, <2>1 DEF FreshFrom
  <2>3. n <= Len(log[conv]) => n <= Len(log'[conv])
    BY <1>2
  <2> HIDE DEF FreshFrom
  <2> QED
    BY <1>3, <2>1, <2>2, <2>3 DEF Settled, Fresh
<1>4. ASSUME NEW l \in LoadType, NewestLoad(v, l) PROVE NewestLoad(v, l)'
  <2>1. FreshFrom(conv, v, l.from)
    BY <1>4 DEF NewestLoad
  <2>2. FreshFrom(conv, v, l.from)'
    <3>1. l.from \in Nat
      BY DEF LoadType
    <3> QED
      BY <1>1, <2>1, <3>1
  <2> HIDE DEF FreshFrom
  <2> QED
    BY <1>4, <2>2 DEF NewestLoad
<1> QED
  BY <1>3, <1>4 DEF Fresh

(* So is one that has just been asked for.                                  *)
LEMMA PreviewAsked ==
  ASSUME NEW v \in Views, NEW l \in LoadType, l \in loads'[v], \A k \in loads'[v] \ {l} : k.n < l.n,
         settled'[v] = settled[v], settled[v] <= l.n, l.conv = conv', l.from = Len(log'[conv'])
  PROVE  Fresh(v)'
<1>1. FreshFrom(conv, v, l.from)'
  <2>1. l.from \in Nat
    BY DEF LoadType
  <2>2. l.from + 1 .. Len(log'[conv']) = {}
    BY <2>1
  <2> QED
    BY <2>2 DEF FreshFrom
<1>2. NewestLoad(v, l)'
  BY <1>1 DEF NewestLoad
<1> QED
  BY <1>2 DEF Fresh

(* The requests of the panel for the previews of the conversation shown.    *)
LEMMA AskingExplores ==
  ASSUME PanelTypes, UNCHANGED <<log, P!previews>>, isOpen' \in BOOLEAN, loaded' \in PanelConv,
         \/ UNCHANGED loads
         \/ \E c \in PanelConvs, set \in SUBSET Views : P!Asks(c, set)
  PROVE  PreviewTypes'
<1>0. PreviewTypes /\ LogTypes /\ log' = log /\ preview' = preview /\ settled' = settled /\ crossed' = crossed
  BY DEF PanelTypes, P!previews
<1>1. CASE UNCHANGED loads
  BY <1>0, <1>1 DEF PreviewTypes
<1>2. ASSUME NEW c \in PanelConvs, NEW set \in SUBSET Views, P!Asks(c, set) PROVE PreviewTypes'
  <2>1. /\ loads' \in [Views -> SUBSET LoadType]
        /\ \A v \in Views : /\ \E m \in Nat : \A l \in loads'[v] : l.n <= m
                            /\ \A l \in loads'[v] : l \in loads[v] \/ (l.conv = c /\ l.from = Len(log[c]))
    BY <1>2, AsksLoad
  <2>2. Len(log[c]) \in Nat
    BY <1>0, SameGrows DEF LogGrows
  <2>3. \A v \in Views : \A l \in loads'[v] : l.from <= Len(log'[l.conv])
    BY <1>0, <2>1, <2>2 DEF PreviewTypes
  <2> QED
    BY <1>0, <2>1, <2>3 DEF PreviewTypes
<1> QED
  BY <1>1, <1>2

(* The previews are asked for once there is metadata.                       *)
LEMMA LoadOnceFresh ==
  ASSUME PanelTypes, PreviewInv, NEW c \in PanelConvs, NEW known \in BOOLEAN, P!LoadOnce(c, known),
         UNCHANGED <<log, P!previews>>, conv' = c, isOpen', loaded = c => conv' = conv /\ UNCHANGED <<wire, unheard>>,
         loaded \in {Nil, c} \/ known
  PROVE  /\ PreviewTypes' /\ loaded' \in {Nil, conv'} /\ (loaded' # Nil => \A v \in Views : Fresh(v)')
         /\ loaded' = IF known THEN c ELSE loaded
<1>0. /\ PreviewTypes /\ LogTypes /\ log' = log /\ preview' = preview /\ settled' = settled /\ crossed' = crossed
      /\ Nil \notin PanelConvs
  BY PanelAssumption DEF PanelTypes, P!previews
<1>1. CASE known /\ loaded # c
  <2>1. loaded' = c /\ P!Asks(c, Views)
    BY <1>1 DEF P!LoadOnce
  <2>2. Views \in SUBSET Views /\ isOpen' \in BOOLEAN /\ loaded' \in PanelConv
    <3>1. isOpen' \in BOOLEAN
      OBVIOUS
    <3> QED
      BY <2>1, <3>1 DEF PanelConv
  <2>3. PreviewTypes'
    BY <1>0, <2>1, <2>2, AskingExplores
  <2>4. ASSUME NEW v \in Views PROVE Fresh(v)'
    <3>1. \E l \in LoadType : 
             /\ l \in loads'[v] /\ \A k \in loads'[v] \ {l} : k.n < l.n
             /\ settled[v] <= l.n /\ l.conv = c /\ l.from = Len(log[c])
      BY <2>1, AsksLoad
    <3> QED
      BY <1>0, <3>1, PreviewAsked
  <2> QED
    BY <1>1, <2>1, <2>3, <2>4
<1>2. CASE ~(known /\ loaded # c)
  <2>1. loaded' = loaded /\ loads' = loads
    BY <1>2 DEF P!LoadOnce
  <2>2. PreviewTypes'
    BY <1>0, <2>1, AskingExplores DEF PreviewTypes
  <2>3. ASSUME loaded' # Nil, NEW v \in Views PROVE Fresh(v)'
    <3>1. loaded = c /\ conv' = conv /\ wire' = wire /\ unheard' = unheard /\ LogGrows
      BY <1>0, <1>2, <2>1, <2>3, SameGrows
    <3>2. Fresh(v)
      BY <2>1, <2>3 DEF PreviewInv
    <3>3. \A i \in 1 .. Len(log[conv]) : Told(conv, i) => Told(conv, i)'
      BY <3>1 DEF Told
    <3>4. \A i \in 1 .. Len(log'[conv]) : i \in 1 .. Len(log[conv]) \/ Told(conv, i)'
      BY <1>0, <3>1
    <3> HIDE DEF Told
    <3> QED
      BY <1>0, <2>1, <3>1, <3>2, <3>3, <3>4, PreviewStays
  <2> QED
    BY <1>2, <2>1, <2>2, <2>3
<1> QED
  BY <1>1, <1>2

(* What the panel knows of itself.                                          *)
PanelGate ==
  /\ loaded \in {Nil, conv} /\ (loaded # Nil => isOpen)
  /\ metaLoad.conv # Nil => isOpen
  /\ meta.conv = Nil => loaded = Nil

(* The panel does not change.                                               *)
LEMMA QuietPreview ==
  ASSUME PanelTypes, PreviewInv, LogGrows, conv' = conv, isOpen' = isOpen, UNCHANGED <<loaded, loads, P!previews>>,
         metaLoad' = metaLoad, meta'.conv = meta.conv,
         \A i \in 1 .. Len(log[conv]) : Told(conv, i) => Told(conv, i)',
         \A i \in 1 .. Len(log'[conv]) : i \in 1 .. Len(log[conv]) \/ Told(conv, i)'
  PROVE  PreviewInv' /\ PreviewTypes'
<1>0. /\ PreviewTypes /\ preview' = preview /\ settled' = settled /\ crossed' = crossed
      /\ loads' = loads /\ loaded' = loaded
  BY DEF PanelTypes, P!previews
<1>1. ASSUME loaded # Nil, NEW v \in Views PROVE Fresh(v)'
  <2>1. Fresh(v)
    BY <1>1 DEF PreviewInv
  <2> HIDE DEF Told, Fresh
  <2> QED
    BY <1>0, <2>1, PreviewStays
<1>2. PreviewTypes'
  <2>1. \A v \in Views : \A l \in loads[v] : l.conv \in PanelConvs /\ l.from \in Nat /\ l.from <= Len(log[l.conv])
    BY <1>0 DEF PreviewTypes, LoadType
  <2>2. \A v \in Views : \A l \in loads[v] : l.from <= Len(log'[l.conv])
    BY <2>1 DEF LogGrows
  <2> QED
    BY <1>0, <2>2 DEF PreviewTypes
<1>3. PanelGate'
  BY <1>0 DEF PreviewInv, PanelGate
<1> QED
  BY <1>0, <1>1, <1>2, <1>3 DEF PreviewInv, PanelGate

(* A message keeps the previews right.                                      *)
LEMMA MessagePreviews ==
  ASSUME PanelTypes, PreviewInv, NEW c \in PanelConvs, P!Message(c)
  PROVE  PreviewInv' /\ PreviewTypes'
<1>0. LogTypes /\ conv \in PanelConvs
  BY DEF PanelTypes, LogTypes
<1>1. /\ LogGrows /\ log' \in [PanelConvs -> Seq(Kinds)]
      /\ Len(log'[c]) = Len(log[c]) + 1 /\ \A d \in PanelConvs \ {c} : log'[d] = log[d]
      /\ \/ wire' = wire \cup {<<c, Len(log[c]) + 1>>} /\ unheard' = unheard
         \/ unheard' = unheard \cup {c} /\ wire' = wire
  BY <1>0, MessageGrows
<1>2. /\ conv' = conv /\ isOpen' = isOpen /\ UNCHANGED <<loaded, loads, P!previews>>
      /\ metaLoad' = metaLoad /\ meta' = meta
  BY DEF P!Message, P!panel, P!metadata
<1>3. \A i \in 1 .. Len(log[conv]) : Told(conv, i) => Told(conv, i)'
  BY <1>1, <1>2 DEF Told
<1>4. \A i \in 1 .. Len(log'[conv]) : i \in 1 .. Len(log[conv]) \/ Told(conv, i)'
  BY <1>0, <1>1, <1>2 DEF Told, LogGrows
<1> QED
  BY <1>1, <1>2, <1>3, <1>4, QuietPreview

(* An event asks again for the previews of what its message has.            *)
LEMMA EventPreviews ==
  ASSUME PanelTypes, PreviewInv, P!Event
  PROVE  PreviewInv' /\ PreviewTypes'
<1>0. LogTypes /\ PreviewTypes /\ conv \in PanelConvs /\ PreviewTypes
  BY DEF PanelTypes, LogTypes
<1>1. PICK e \in wire :
        /\ wire' = wire \ {e}
        /\ IF isOpen /\ e[1] = conv THEN P!Asks(conv, P!Scopes(log[e[1]][e[2]])) ELSE loads' = loads
  BY DEF P!Event
<1>2. /\ log' = log /\ unheard' = unheard /\ conv' = conv /\ isOpen' = isOpen /\ loaded' = loaded
      /\ UNCHANGED P!previews /\ metaLoad' = metaLoad /\ meta' = meta
      /\ preview' = preview /\ settled' = settled /\ crossed' = crossed
  BY DEF P!Event, P!metadata, P!previews
<1>3. LogGrows /\ \A i \in 1 .. Len(log'[conv]) : i \in 1 .. Len(log[conv]) \/ Told(conv, i)'
  BY <1>0, <1>2, SameGrows
<1>4. PanelGate'
  BY <1>2 DEF PreviewInv, PanelGate
<1> DEFINE set == P!Scopes(log[e[1]][e[2]])
<1>5. set \in SUBSET Views
  BY DEF P!Scopes
<1>6. PreviewTypes'
  <2>1. isOpen' \in BOOLEAN /\ loaded' \in PanelConv /\ UNCHANGED <<log, P!previews>>
    BY <1>0, <1>2 DEF PreviewTypes
  <2> HIDE DEF set
  <2> QED
    BY <1>0, <1>1, <1>5, <2>1, AskingExplores DEF set
<1>7. ASSUME loaded # Nil, NEW v \in Views PROVE Fresh(v)'
  <2>1. Fresh(v) /\ isOpen /\ loaded = conv
    BY <1>7 DEF PreviewInv
  <2>2. CASE e[1] = conv /\ v \in set
    <3>1. P!Asks(conv, set)
      BY <1>1, <2>1, <2>2
    <3> HIDE DEF set
    <3>2. \E l \in LoadType : 
             /\ l \in loads'[v] /\ \A k \in loads'[v] \ {l} : k.n < l.n
             /\ settled[v] <= l.n /\ l.conv = conv /\ l.from = Len(log[conv])
      BY <1>0, <2>2, <3>1, AsksLoad
    <3> QED
      BY <1>2, <3>2, PreviewAsked
  <2>3. CASE ~(e[1] = conv /\ v \in set)
    <3>1. loads'[v] = loads[v]
      <4>1. CASE e[1] = conv
        <5>1. P!Asks(conv, set) /\ v \notin set
          BY <1>1, <2>1, <2>3, <4>1
        <5> HIDE DEF set
        <5> QED
          BY <1>0, <5>1, AsksLoad
      <4>2. CASE e[1] # conv
        BY <1>1, <4>2
      <4> QED
        BY <4>1, <4>2
    <3>2. ASSUME NEW i \in 1 .. Len(log[conv]), P!Holds(log[conv][i], v) # 0, Told(conv, i)
          PROVE  Told(conv, i)'
      <4>1. CASE e = <<conv, i>>
        <5>1. P!Holds(log[conv][i], v) > 0
          BY <3>2, HoldsSome
        <5>2. e[1] = conv /\ e[2] = i
          BY <4>1
        <5>3. v \in set
          BY <5>1, <5>2 DEF P!Scopes
        <5> QED
          BY <2>3, <5>2, <5>3
      <4>2. CASE e # <<conv, i>>
        BY <1>1, <1>2, <3>2, <4>2 DEF Told
      <4> QED
        BY <4>1, <4>2
    <3> HIDE DEF Told, Fresh
    <3> QED
      BY <1>2, <1>3, <2>1, <3>1, <3>2, PreviewStays
  <2> QED
    BY <2>2, <2>3
<1> QED
  BY <1>2, <1>4, <1>6, <1>7 DEF PreviewInv, PanelGate

(* Another conversation is chosen.                                          *)
LEMMA SwitchPreviews ==
  ASSUME PanelTypes, PreviewInv, NEW c \in PanelConvs, P!Switch(c)
  PROVE  PreviewInv' /\ PreviewTypes'
<1>0. /\ LogTypes /\ PreviewTypes /\ PreferenceTypes /\ conv \in PanelConvs /\ Nil \notin PanelConvs
      /\ isOpen \in BOOLEAN
  BY PanelAssumption DEF PanelTypes, LogTypes, PreviewTypes
<1>1. /\ c # conv /\ conv' = c /\ UNCHANGED <<log, P!previews>> /\ isOpen' = isOpen /\ meta' = meta
      /\ IF isOpen
         THEN /\ P!LoadOnce(c, meta.conv # Nil)
              /\ metaLoad' = [conv |-> c, from |-> pref[c]]
         ELSE loaded' = Nil /\ UNCHANGED <<loads, metaLoad>>
  BY DEF P!Switch, P!shared
<1>2. CASE isOpen
  <2>1. PICK known \in BOOLEAN : known = (meta.conv # Nil)
    OBVIOUS
  <2>2. P!LoadOnce(c, known)
    BY <1>1, <1>2, <2>1
  <2>3. isOpen' /\ loaded # c /\ (loaded = Nil \/ known)
    BY <1>0, <1>1, <1>2, <2>1 DEF PreviewInv
  <2>4. /\ PreviewTypes' /\ loaded' \in {Nil, conv'} /\ (loaded' # Nil => \A v \in Views : Fresh(v)')
        /\ loaded' = IF known THEN c ELSE loaded
    <3> HIDE DEF Fresh
    <3> QED
      BY <1>1, <2>2, <2>3, LoadOnceFresh
  <2>5. meta'.conv = Nil => loaded' = Nil
    BY <1>1, <2>1, <2>3, <2>4
  <2> QED
    BY <2>3, <2>4, <2>5 DEF PreviewInv
<1>3. CASE ~isOpen
  <2>1. loaded' = Nil /\ loads' = loads /\ metaLoad' = metaLoad
    BY <1>1, <1>3
  <2>2. PreviewTypes'
    BY <1>0, <1>1, <2>1, AskingExplores DEF PreviewTypes, PanelConv
  <2> QED
    BY <1>1, <2>1, <2>2 DEF PreviewInv
<1> QED
  BY <1>2, <1>3

(* The panel is opened.                                                     *)
LEMMA OpenPreviews ==
  ASSUME PanelTypes, PreviewInv, P!Open
  PROVE  PreviewInv' /\ PreviewTypes'
<1>0. LogTypes /\ PreviewTypes /\ conv \in PanelConvs /\ Nil \notin PanelConvs
  BY PanelAssumption DEF PanelTypes, LogTypes
<1>1. /\ ~isOpen /\ isOpen' = TRUE /\ P!LoadOnce(conv, meta.conv # Nil) /\ conv' = conv
      /\ UNCHANGED <<log, P!previews>> /\ UNCHANGED <<wire, unheard>> /\ meta' = meta
  BY DEF P!Open, P!shared
<1>2. PICK known \in BOOLEAN : known = (meta.conv # Nil)
  OBVIOUS
<1>3. P!LoadOnce(conv, known) /\ loaded = Nil /\ isOpen' /\ conv' = conv
  BY <1>1, <1>2 DEF PreviewInv
<1>4. /\ PreviewTypes' /\ loaded' \in {Nil, conv'} /\ (loaded' # Nil => \A v \in Views : Fresh(v)')
      /\ loaded' = IF known THEN conv ELSE loaded
  <2>1. \A d \in PanelConvs : d = conv => P!LoadOnce(d, known)
    BY <1>3
  <2>2. PICK d \in PanelConvs : d = conv
    BY <1>0
  <2>3. P!LoadOnce(d, known) /\ conv' = d
    BY <1>3, <2>2
  <2> HIDE DEF Fresh
  <2> QED
    BY <1>0, <1>1, <1>3, <2>2, <2>3, LoadOnceFresh
<1>5. meta'.conv = Nil => loaded' = Nil
  BY <1>1, <1>2, <1>3, <1>4
<1> QED
  BY <1>3, <1>4, <1>5 DEF PreviewInv

(* The metadata comes, and with it the previews are asked for.              *)
LEMMA MetaPreviews ==
  ASSUME PanelTypes, PreviewInv, P!Meta
  PROVE  PreviewInv' /\ PreviewTypes'
<1>0. LogTypes /\ PreviewTypes /\ PreferenceTypes /\ conv \in PanelConvs /\ Nil \notin PanelConvs
  BY PanelAssumption DEF PanelTypes, LogTypes
<1>1. /\ metaLoad.conv # Nil /\ metaLoad' = P!NoLoad /\ P!NoLoad.conv = Nil
      /\ UNCHANGED P!shared /\ log' = log /\ wire' = wire /\ unheard' = unheard
      /\ conv' = conv /\ isOpen' = isOpen /\ UNCHANGED P!previews
  BY <1>0 DEF P!Meta, P!shared, PreferenceTypes, P!NoLoad
<1>2. isOpen /\ isOpen'
  BY <1>1 DEF PreviewInv
<1>3. CASE UNCHANGED <<meta, loaded, loads>>
  <2>1. PreviewTypes'
    BY <1>0, <1>1, <1>3, AskingExplores DEF PreviewTypes
  <2>2. preview' = preview /\ settled' = settled /\ crossed' = crossed /\ LogGrows
    BY <1>0, <1>1, SameGrows DEF P!previews
  <2>3. ASSUME loaded # Nil, NEW v \in Views PROVE Fresh(v)'
    <3>1. Fresh(v)
      BY <2>3 DEF PreviewInv
    <3>2. \A i \in 1 .. Len(log[conv]) : Told(conv, i) => Told(conv, i)'
      BY <1>1 DEF Told
    <3>3. \A i \in 1 .. Len(log'[conv]) : i \in 1 .. Len(log[conv]) \/ Told(conv, i)'
      BY <1>1
    <3> HIDE DEF Told, Fresh
    <3> QED
      BY <1>1, <1>3, <2>2, <3>1, <3>2, <3>3, PreviewStays
  <2> QED
    BY <1>1, <1>2, <1>3, <2>1, <2>3 DEF PreviewInv
<1>4. CASE P!LoadOnce(conv, TRUE) /\ \E p : meta' = [conv |-> metaLoad.conv, pref |-> p]
  <2>1. PICK known \in BOOLEAN, d \in PanelConvs : known = TRUE /\ d = conv
    BY <1>0
  <2>2. P!LoadOnce(d, known) /\ conv' = d /\ loaded \in {Nil, d}
    BY <1>1, <1>4, <2>1 DEF PreviewInv
  <2>3. /\ PreviewTypes' /\ loaded' \in {Nil, conv'} /\ (loaded' # Nil => \A v \in Views : Fresh(v)')
        /\ loaded' = IF known THEN d ELSE loaded
    <3> HIDE DEF Fresh
    <3> QED
      BY <1>0, <1>1, <1>2, <2>1, <2>2, LoadOnceFresh
  <2>4. meta'.conv # Nil
    BY <1>1, <1>4
  <2> QED
    BY <1>1, <1>2, <2>3, <2>4 DEF PreviewInv
<1> QED
  BY <1>3, <1>4 DEF P!Meta

(* The larger of two numbers.                                               *)
LEMMA Larger ==
  ASSUME NEW low \in Nat, NEW high \in Nat
  PROVE  P!Max({low, high}) \in {low, high} /\ low <= P!Max({low, high}) /\ high <= P!Max({low, high})
<1>1. {low, high} \in SUBSET Nat /\ {low, high} # {}
  OBVIOUS
<1>2. PICK top \in Nat : \A n \in {low, high} : n <= top
  OBVIOUS
<1>3. P!Max({low, high}) \in {low, high} /\ \A n \in {low, high} : n <= P!Max({low, high})
  BY <1>1, <1>2, Largest
<1> QED
  BY <1>3

(* A preview's answer comes: the newest one is fresh, and an older one is   *)
(* put down as crossed.                                                     *)
LEMMA LoadFresh ==
  ASSUME PanelTypes, NEW v \in Views, Fresh(v), UNCHANGED <<log, wire, unheard, conv>>,
         NEW l \in loads[v], loads'[v] = loads[v] \ {l},
         settled'[v] = IF loads[v] = {l} THEN 0 ELSE P!Max({settled[v], l.n}),
         \/ /\ \E top \in l.from .. Len(log[l.conv]) : preview'[v] = [conv |-> l.conv, top |-> top, error |-> FALSE]
            /\ crossed'[v] = (l.conv # conv \/ l.n < settled[v])
         \/ preview'[v].error = TRUE
  PROVE  Fresh(v)'
<1>0. /\ LogTypes /\ l \in LoadType /\ l.n \in Nat /\ l.from \in Nat /\ settled[v] \in Nat /\ conv \in PanelConvs
      /\ \A k \in loads[v] : k.n \in Nat
  BY DEF PanelTypes, LogTypes, PreviewTypes, LoadType
<1>1. /\ P!Max({settled[v], l.n}) \in {settled[v], l.n} /\ settled[v] <= P!Max({settled[v], l.n})
      /\ l.n <= P!Max({settled[v], l.n})
  BY <1>0, Larger
<1> DEFINE high == P!Max({settled[v], l.n})
<1>2. high \in Nat /\ high \in {settled[v], l.n} /\ settled[v] <= high /\ l.n <= high
  BY <1>0, <1>1
<1>3. settled'[v] = IF loads[v] = {l} THEN 0 ELSE high
  OBVIOUS
<1> HIDE DEF high
<1>4. FreshFrom(conv, v, l.from) => \A n \in Nat : n >= l.from => FreshFrom(conv, v, n)
  BY <1>0 DEF FreshFrom
<1>5. \A n \in Nat : FreshFrom(conv, v, n) => FreshFrom(conv, v, n)'
  BY DEF FreshFrom, Told
<1>6. CASE Settled(v)
  <2>1. \A k \in loads'[v] : k.n < settled'[v]
    BY <1>0, <1>2, <1>3, <1>6 DEF Settled
  <2>2. l.n < settled[v]
    BY <1>6 DEF Settled
  <2>3. preview'[v].error \/ crossed'[v]
    BY <2>2
  <2> QED
    BY <2>1, <2>3 DEF Settled, Fresh
<1>7. ASSUME NEW k \in LoadType, NewestLoad(v, k), k # l PROVE Fresh(v)'
  <2>1. k \in loads'[v] /\ \A j \in loads'[v] \ {k} : j.n < k.n
    BY <1>7 DEF NewestLoad
  <2>2. l.n < k.n /\ settled[v] <= k.n /\ loads[v] # {l}
    BY <1>7 DEF NewestLoad
  <2>3. settled'[v] <= k.n
    <3>1. k.n \in Nat
      BY DEF LoadType
    <3> QED
      BY <1>0, <1>2, <1>3, <2>2, <3>1
  <2>4. k.conv = conv' /\ FreshFrom(conv, v, k.from)
    BY <1>7 DEF NewestLoad
  <2>5. FreshFrom(conv, v, k.from)'
    <3>1. k.from \in Nat
      BY DEF LoadType
    <3> QED
      BY <1>5, <2>4, <3>1
  <2>6. NewestLoad(v, k)'
    <3> HIDE DEF FreshFrom
    <3> QED
      BY <2>1, <2>3, <2>4, <2>5 DEF NewestLoad
  <2> QED
    BY <2>6 DEF Fresh
<1>8. CASE NewestLoad(v, l)
  <2>1. /\ \A k \in loads'[v] : k.n < l.n
        /\ settled[v] <= l.n /\ l.conv = conv /\ FreshFrom(conv, v, l.from)
    BY <1>8 DEF NewestLoad
  <2>2. \A k \in loads'[v] : k.n < settled'[v]
    BY <1>0, <1>2, <1>3, <2>1
  <2>3. CASE preview'[v].error = TRUE
    BY <2>2, <2>3 DEF Settled, Fresh
  <2>4. ASSUME NEW top \in l.from .. Len(log[l.conv]), preview'[v] = [conv |-> l.conv, top |-> top, error |-> FALSE]
        PROVE  Fresh(v)'
    <3>1. preview'[v].conv = conv' /\ preview'[v].top = top /\ top <= Len(log'[conv'])
      BY <1>0, <2>1, <2>4, SameGrows DEF LogGrows
    <3>2. top \in Nat /\ FreshFrom(conv, v, top)
      <4>1. Len(log[conv]) \in Nat
        BY <1>0, SameGrows DEF LogGrows
      <4> QED
        BY <1>0, <1>4, <2>1, <4>1
    <3>3. FreshFrom(conv, v, top)'
      BY <1>5, <3>2
    <3>4. FreshFrom(conv, v, preview[v].top)'
      BY <3>1, <3>3 DEF FreshFrom
    <3> HIDE DEF FreshFrom
    <3> QED
      BY <2>2, <3>1, <3>4 DEF Settled, Fresh
  <2> QED
    BY <2>3, <2>4
<1> QED
  BY <1>6, <1>7, <1>8 DEF Fresh

(* So does asking for one.                                                  *)
LEMMA LoadPreviews ==
  ASSUME PanelTypes, PreviewInv, NEW v \in Views, P!Load(v)
  PROVE  PreviewInv' /\ PreviewTypes'
<1>0. LogTypes /\ PreviewTypes /\ conv \in PanelConvs
  BY DEF PanelTypes, LogTypes
<1>1. /\ log' = log /\ wire' = wire /\ unheard' = unheard /\ conv' = conv /\ isOpen' = isOpen
      /\ loaded' = loaded /\ meta' = meta /\ metaLoad' = metaLoad
  BY DEF P!Load, P!shared, P!metadata
<1>2. PICK l \in loads[v] :
        /\ loads' = [loads EXCEPT ![v] = @ \ {l}]
        /\ settled' = [settled EXCEPT ![v] = IF loads[v] = {l} THEN 0 ELSE P!Max({@, l.n})]
        /\ \/ /\ \E top \in l.from .. Len(log[l.conv]) :
                   preview' = [preview EXCEPT ![v] = [conv |-> l.conv, top |-> top, error |-> FALSE]]
              /\ crossed' = [crossed EXCEPT ![v] = l.conv # conv \/ l.n < settled[v]]
           \/ preview' = [preview EXCEPT ![v].error = TRUE] /\ crossed' = crossed
  BY DEF P!Load
<1>3. l \in LoadType /\ l.n \in Nat /\ l.from \in Nat /\ l.conv \in PanelConvs /\ settled[v] \in Nat
  BY <1>0 DEF PreviewTypes, LoadType
<1>4. P!Max({settled[v], l.n}) \in Nat
  BY <1>3, Larger
<1> DEFINE high == P!Max({settled[v], l.n})
<1>5. /\ settled' \in [Views -> Nat] /\ settled'[v] = IF loads[v] = {l} THEN 0 ELSE high
      /\ \A w \in Views \ {v} : settled'[w] = settled[w]
  <2>1. settled' = [settled EXCEPT ![v] = IF loads[v] = {l} THEN 0 ELSE high]
    BY <1>2
  <2>2. high \in Nat
    BY <1>4
  <2> HIDE DEF high
  <2> QED
    BY <1>0, <2>1, <2>2 DEF PreviewTypes
<1>6. /\ loads' \in [Views -> SUBSET LoadType] /\ loads'[v] = loads[v] \ {l}
      /\ \A w \in Views \ {v} : loads'[w] = loads[w]
  BY <1>0, <1>2 DEF PreviewTypes
<1>7. \A d \in PanelConvs : Len(log[d]) \in Nat
  BY <1>0, <1>1, SameGrows DEF LogGrows
<1>8. /\ preview' \in [Views -> [conv : PanelConv, top : Nat, error : BOOLEAN]] /\ crossed' \in [Views -> BOOLEAN]
      /\ \A w \in Views \ {v} : preview'[w] = preview[w] /\ crossed'[w] = crossed[w]
      /\ \/ /\ \E top \in l.from .. Len(log[l.conv]) : preview'[v] = [conv |-> l.conv, top |-> top, error |-> FALSE]
            /\ crossed'[v] = (l.conv # conv \/ l.n < settled[v])
         \/ preview'[v].error = TRUE
  <2>1. ASSUME NEW top \in l.from .. Len(log[l.conv]),
               preview' = [preview EXCEPT ![v] = [conv |-> l.conv, top |-> top, error |-> FALSE]]
        PROVE  /\ preview' \in [Views -> [conv : PanelConv, top : Nat, error : BOOLEAN]]
               /\ \A w \in Views \ {v} : preview'[w] = preview[w]
               /\ preview'[v] = [conv |-> l.conv, top |-> top, error |-> FALSE]
    <3>1. top \in Nat
      BY <1>3, <1>7
    <3> QED
      BY <1>0, <1>3, <2>1, <3>1 DEF PreviewTypes, PanelConv
  <2>2. ASSUME NEW late \in BOOLEAN, crossed' = [crossed EXCEPT ![v] = late]
        PROVE  /\ crossed' \in [Views -> BOOLEAN] /\ crossed'[v] = late
               /\ \A w \in Views \ {v} : crossed'[w] = crossed[w]
    BY <1>0, <2>2 DEF PreviewTypes
  <2>3. CASE preview' = [preview EXCEPT ![v].error = TRUE] /\ crossed' = crossed
    BY <1>0, <2>3 DEF PreviewTypes
  <2> QED
    BY <1>2, <2>1, <2>2, <2>3
<1>9. PreviewTypes'
  <2>1. isOpen' \in BOOLEAN /\ loaded' \in PanelConv
    BY <1>0, <1>1 DEF PreviewTypes
  <2>2. \A w \in Views : /\ \E m \in Nat : \A k \in loads'[w] : k.n <= m
                         /\ \A k \in loads'[w] : k.from <= Len(log'[k.conv])
    BY <1>0, <1>1, <1>6 DEF PreviewTypes
  <2> QED
    BY <1>5, <1>6, <1>8, <2>1, <2>2 DEF PreviewTypes
<1>10. PanelGate'
  BY <1>1 DEF PreviewInv, PanelGate
<1>11. ASSUME loaded # Nil, NEW w \in Views PROVE Fresh(w)'
  <2>1. Fresh(w)
    BY <1>11 DEF PreviewInv
  <2>2. CASE w = v
    <3>1. settled'[v] = IF loads[v] = {l} THEN 0 ELSE P!Max({settled[v], l.n})
      BY <1>5
    <3> HIDE DEF Fresh
    <3> QED
      BY <1>1, <1>6, <1>8, <2>1, <2>2, <3>1, LoadFresh
  <2>3. CASE w # v
    <3>1. \A i \in 1 .. Len(log[conv]) : Told(conv, i) => Told(conv, i)'
      BY <1>1 DEF Told
    <3>2. LogGrows /\ \A i \in 1 .. Len(log'[conv]) : i \in 1 .. Len(log[conv]) \/ Told(conv, i)'
      BY <1>0, <1>1, SameGrows
    <3> HIDE DEF Told, Fresh
    <3> QED
      BY <1>1, <1>5, <1>6, <1>8, <2>1, <2>3, <3>1, <3>2, PreviewStays
  <2> QED
    BY <2>2, <2>3
<1> QED
  BY <1>1, <1>9, <1>10, <1>11 DEF PreviewInv, PanelGate

(* A preview that has failed is asked for again.                            *)
LEMMA RetryPreviews ==
  ASSUME PanelTypes, PreviewInv, NEW v \in Views, P!Retry(v)
  PROVE  PreviewInv' /\ PreviewTypes'
<1>0. LogTypes /\ PreviewTypes /\ conv \in PanelConvs
  BY DEF PanelTypes, LogTypes
<1>1. /\ log' = log /\ wire' = wire /\ unheard' = unheard /\ conv' = conv /\ isOpen' = isOpen
      /\ loaded' = loaded /\ meta' = meta /\ metaLoad' = metaLoad /\ settled' = settled /\ crossed' = crossed
      /\ preview' = [preview EXCEPT ![v].error = FALSE] /\ P!Asks(conv, {v})
  BY DEF P!Retry, P!shared, P!metadata
<1>2. /\ loads' \in [Views -> SUBSET LoadType]
      /\ \A w \in Views : /\ w # v => loads'[w] = loads[w]
                          /\ \E m \in Nat : \A l \in loads'[w] : l.n <= m
                          /\ \A l \in loads'[w] : l \in loads[w] \/ (l.conv = conv /\ l.from = Len(log[conv]))
      /\ \E l \in LoadType : 
             /\ l \in loads'[v] /\ \A k \in loads'[v] \ {l} : k.n < l.n
             /\ settled[v] <= l.n /\ l.conv = conv /\ l.from = Len(log[conv])
  BY <1>0, <1>1, AsksLoad
<1>3. Len(log[conv]) \in Nat /\ LogGrows
  BY <1>0, <1>1, SameGrows DEF LogGrows
<1>4. /\ preview' \in [Views -> [conv : PanelConv, top : Nat, error : BOOLEAN]]
      /\ \A w \in Views \ {v} : preview'[w] = preview[w]
  BY <1>0, <1>1 DEF PreviewTypes
<1>5. PreviewTypes'
  <2>1. ASSUME NEW w \in Views, NEW l \in loads'[w] PROVE l.from <= Len(log'[l.conv])
    <3>1. log' = log
      BY <1>1
    <3>2. CASE l \in loads[w]
      BY <1>0, <3>1, <3>2 DEF PreviewTypes
    <3>3. CASE l.conv = conv /\ l.from = Len(log[conv])
      BY <1>3, <3>1, <3>3
    <3> QED
      BY <1>2, <2>1, <3>2, <3>3
  <2> QED
    BY <1>0, <1>1, <1>2, <1>4, <2>1 DEF PreviewTypes
<1>6. PanelGate'
  BY <1>1 DEF PreviewInv, PanelGate
<1>7. ASSUME loaded # Nil, NEW w \in Views PROVE Fresh(w)'
  <2>1. CASE w = v
    BY <1>1, <1>2, <2>1, PreviewAsked
  <2>2. CASE w # v
    <3>0. Fresh(w)
      BY <1>7 DEF PreviewInv
    <3>1. \A i \in 1 .. Len(log[conv]) : Told(conv, i) => Told(conv, i)'
      BY <1>1 DEF Told
    <3>2. \A i \in 1 .. Len(log'[conv]) : i \in 1 .. Len(log[conv]) \/ Told(conv, i)'
      BY <1>1
    <3> HIDE DEF Told, Fresh
    <3> QED
      BY <1>1, <1>2, <1>3, <1>4, <2>2, <3>0, <3>1, <3>2, PreviewStays
  <2> QED
    BY <2>1, <2>2
<1> QED
  BY <1>1, <1>5, <1>6, <1>7 DEF PreviewInv, PanelGate

(* So does closing the panel.                                               *)
LEMMA ClosePreviews ==
  ASSUME PanelTypes, PreviewInv, P!Close
  PROVE  PreviewInv' /\ PreviewTypes'
<1>0. PreviewTypes
  BY DEF PanelTypes
<1>1. /\ log' = log /\ isOpen' = FALSE /\ loaded' = Nil /\ metaLoad' = P!NoLoad /\ P!NoLoad.conv = Nil
      /\ conv' = conv /\ UNCHANGED P!previews /\ loads' = loads
  BY DEF P!Close, P!shared, P!NoLoad
<1>2. PreviewTypes'
  BY <1>0, <1>1, AskingExplores DEF PanelConv
<1> QED
  BY <1>1, <1>2 DEF PreviewInv

(* The steps of the previews.                                               *)
LEMMA PreviewStep ==
  ASSUME PanelTypes, PreviewInv, P!Next
  PROVE  PreviewInv' /\ PreviewTypes'
<1>0. LogTypes /\ PreferenceTypes
  BY DEF PanelTypes
<1>1. ASSUME UNCHANGED <<P!shared, conv, P!panel>>, metaLoad' = metaLoad, meta'.conv = meta.conv
      PROVE  PreviewInv' /\ PreviewTypes'
  <2>1. /\ log' = log /\ wire' = wire /\ unheard' = unheard /\ conv' = conv
        /\ isOpen' = isOpen /\ UNCHANGED <<loaded, loads, P!previews>>
    BY <1>1 DEF P!shared, P!panel
  <2>2. LogGrows /\ \A i \in 1 .. Len(log'[conv]) : i \in 1 .. Len(log[conv]) \/ Told(conv, i)'
    BY <1>0, <2>1, SameGrows
  <2>3. \A i \in 1 .. Len(log[conv]) : Told(conv, i) => Told(conv, i)'
    BY <2>1 DEF Told
  <2> HIDE DEF Told
  <2> QED
    BY <1>1, <2>1, <2>2, <2>3, QuietPreview
<1>2. ASSUME P!Change \/ P!ServeChange \/ P!Changed PROVE PreviewInv' /\ PreviewTypes'
  <2>1. meta'.conv = meta.conv
    BY <1>0, <1>2 DEF P!Change, P!ServeChange, P!Changed, PreferenceTypes, P!metadata
  <2>2. UNCHANGED <<P!shared, conv, P!panel>> /\ metaLoad' = metaLoad
    BY <1>2 DEF P!Change, P!ServeChange, P!Changed, P!metadata
  <2> QED
    BY <1>1, <2>1, <2>2
<1>3. ASSUME P!CloseExplorer \/ P!LoadMore \/ P!Refresh \/ (\E s \in Slots : P!Answer(s))
             \/ \E v \in Views : P!OpenExplorer(v)
      PROVE  PreviewInv' /\ PreviewTypes'
  <2>1. UNCHANGED <<P!shared, conv, P!panel>> /\ UNCHANGED P!metadata
    BY <1>3 DEF P!CloseExplorer, P!LoadMore, P!Refresh, P!Answer, P!OpenExplorer
  <2>2. metaLoad' = metaLoad /\ meta' = meta
    BY <2>1 DEF P!metadata
  <2> QED
    BY <1>1, <2>1, <2>2
<1>4. ASSUME NEW v \in Views, P!Load(v) \/ P!Retry(v) PROVE PreviewInv' /\ PreviewTypes'
  BY <1>4, LoadPreviews, RetryPreviews
<1>5. ASSUME NEW c \in PanelConvs, P!Message(c) \/ P!Switch(c) PROVE PreviewInv' /\ PreviewTypes'
  BY <1>5, MessagePreviews, SwitchPreviews
<1>6. ASSUME P!Event \/ P!Open \/ P!Close \/ P!Meta PROVE PreviewInv' /\ PreviewTypes'
  BY <1>6, EventPreviews, OpenPreviews, ClosePreviews, MetaPreviews
<1> QED
  BY <1>2, <1>3, <1>4, <1>5, <1>6 DEF P!Next

PanelInv == PanelTypes /\ ExplorerInv /\ PreferenceInv /\ PreviewInv

(* The invariant of the panel is inductive.                                 *)
LEMMA PanelStep ==
  ASSUME PanelInv, P!Next
  PROVE  PanelInv'
<1>1. ExplorerInv' /\ ExplorerTypes' /\ LogTypes'
  BY ExplorerStep DEF PanelInv
<1>2. PreferenceInv' /\ PreferenceTypes' /\ PreviewInv' /\ PreviewTypes'
  BY PreferenceStep, PreviewStep DEF PanelInv
<1> QED
  BY <1>1, <1>2 DEF PanelInv, PanelTypes

(* It holds at the start.                                                   *)
LEMMA PanelInit ==
  ASSUME P!Init
  PROVE  PanelInv
<1>0. Nil \notin PanelConvs \cup Slots \cup Views
  BY PanelAssumption
<1>1. LogTypes /\ \A c \in PanelConvs : Len(log[c]) = 0
  BY DEF P!Init, LogTypes
<1>2. ExplorerTypes
  <2>1. P!NoAsk \in AskType
    BY DEF P!NoAsk, AskType, PanelConv
  <2>2. asks = [s \in Slots |-> P!NoAsk] /\ asks \in [Slots -> AskType]
    BY <2>1 DEF P!Init
  <2> QED
    BY <2>2 DEF P!Init, ExplorerTypes
<1>3. PreviewTypes
  <2>1. \A v \in Views : loads[v] = {} /\ preview[v] \in [conv : PanelConv, top : Nat, error : BOOLEAN]
    BY DEF P!Init, P!Blank, PanelConv
  <2> QED
    BY <2>1 DEF P!Init, PreviewTypes, PanelConv
<1>4. PreferenceTypes
  BY DEF P!Init, PreferenceTypes, ChangeType, P!NoChange, P!NoLoad, PanelConv
<1>5. ExplorerInv
  BY <1>0, <1>1 DEF P!Init, ExplorerInv, OneAsk, PanelClosed, P!NoAsk, P!ExplorerHonest
<1>6. PreferenceInv
  BY DEF P!Init, PreferenceInv, P!NoChange
<1>7. PreviewInv
  BY DEF P!Init, PreviewInv, P!NoLoad
<1> QED
  BY <1>1, <1>2, <1>3, <1>4, <1>5, <1>6, <1>7 DEF PanelInv, PanelTypes

(* What the panel shows follows from what it knows.                         *)
LEMMA PanelSees ==
  ASSUME PanelInv
  PROVE  P!TypeOK /\ P!ExplorerHonest /\ P!ExplorerWhole /\ P!PreviewFresh /\ P!PreferenceShown
<1>0. /\ LogTypes /\ ExplorerTypes /\ PreviewTypes /\ PreferenceTypes /\ ExplorerInv /\ PreferenceInv /\ PreviewInv
      /\ Nil \notin PanelConvs \cup Slots \cup Views /\ conv \in PanelConvs
  BY PanelAssumption DEF PanelInv, PanelTypes, LogTypes
<1>1. Len(log[conv]) \in Nat /\ \A c \in PanelConvs : log[c] \in Seq(Kinds)
  BY <1>0, LenProperties DEF LogTypes
<1>2. P!TypeOK
  <2>1. ASSUME NEW c \in PanelConvs, NEW i \in 1 .. Len(log[c]) PROVE log[c][i] \in Kinds
    BY <1>1, ElementOfSeq
  <2>2. \A e \in wire : e[1] \in PanelConvs /\ e[2] \in 1 .. Len(log[e[1]])
    BY <1>0 DEF LogTypes
  <2>3. {isOpen, hasMore, failed, banner, meta.pref} \subseteq BOOLEAN
    BY <1>0 DEF ExplorerTypes, PreviewTypes, PreferenceTypes
  <2>4. isLoading = (current # Nil)
    <3>1. isLoading \in BOOLEAN
      BY <1>0 DEF ExplorerTypes
    <3> QED
      BY <1>0, <3>1 DEF ExplorerInv, OneAsk
  <2>5. \A s \in Slots : asks[s] # P!NoAsk => s = current
    BY <1>0 DEF ExplorerTypes, ExplorerInv, OneAsk
  <2>6. loaded \in PanelConvs \cup {Nil} /\ viewed \in Views \cup {Nil} /\ (viewed # Nil => isOpen)
    BY <1>0 DEF PreviewTypes, ExplorerTypes, ExplorerInv, PanelClosed, PanelConv
  <2> QED
    BY <1>0, <2>1, <2>2, <2>3, <2>4, <2>5, <2>6 DEF P!TypeOK
<1>3. P!ExplorerHonest
  BY <1>0 DEF ExplorerInv
<1>4. P!Pending(conv) \/ conv \in unheard \/ \A i \in 1 .. Len(log[conv]) : ~Told(conv, i)
  BY DEF P!Pending, Told
<1>5. P!ExplorerWhole
  <2> SUFFICES ASSUME viewed # Nil, ~isLoading, ~failed, ~hasMore, ~banner,
                      \A i \in 1 .. Len(log[conv]) : ~Told(conv, i)
               PROVE  P!All(conv, viewed) \subseteq items \cup dropped \cup unflagged
    BY <1>4 DEF P!ExplorerWhole
  <2>1. current = Nil
    BY <1>0 DEF ExplorerInv, OneAsk
  <2>2. CoveredFrom(1)
    BY <1>0, <2>1 DEF ExplorerInv
  <2>3. \A i \in 1 .. Len(log[conv]) : Accounted(i)
    BY <1>1, <2>2 DEF CoveredFrom
  <2> QED
    BY <2>3 DEF Accounted, P!All
<1>6. P!PreviewFresh
  <2> SUFFICES ASSUME NEW v \in Views, isOpen, loaded = conv, loads[v] = {}, ~preview[v].error, ~crossed[v],
                      \A i \in 1 .. Len(log[conv]) : ~Told(conv, i)
               PROVE  /\ preview[v].conv = conv
                      /\ P!Page(conv, v, preview[v].top).items = P!Page(conv, v, Len(log[conv])).items
    BY <1>4 DEF P!PreviewFresh
  <2>1. Fresh(v)
    BY <1>0 DEF PreviewInv
  <2>2. Settled(v)
    BY <2>1 DEF Fresh, NewestLoad
  <2>3. preview[v].conv = conv /\ preview[v].top <= Len(log[conv]) /\ FreshFrom(conv, v, preview[v].top)
    BY <2>2 DEF Settled
  <2>4. preview[v].top \in Nat
    BY <1>0 DEF PreviewTypes
  <2>5. \A i \in preview[v].top + 1 .. Len(log[conv]) : P!Attachments(conv, v, i) = {}
    <3> SUFFICES ASSUME NEW i \in preview[v].top + 1 .. Len(log[conv])
                 PROVE  P!Attachments(conv, v, i) = {}
      OBVIOUS
    <3>1. i \in 1 .. Len(log[conv])
      BY <1>1, <2>4
    <3>2. P!Holds(log[conv][i], v) = 0
      BY <2>3, <3>1 DEF FreshFrom
    <3> QED
      BY <3>2, HoldsSome
  <2> HIDE DEF FreshFrom
  <2>6. P!Page(conv, v, preview[v].top).items = P!Page(conv, v, Len(log[conv])).items
    BY <1>0, <2>3, <2>4, <2>5, PageSame
  <2> QED
    BY <2>3, <2>6
<1>7. P!PreferenceShown
  BY <1>0 DEF PreferenceInv, P!PreferenceShown
<1> QED
  BY <1>2, <1>3, <1>5, <1>6, <1>7

(* A panel that stands still.                                               *)
LEMMA PanelStutters ==
  ASSUME PanelInv, UNCHANGED panelVars
  PROVE  PanelInv'
<1>0. /\ log' = log /\ wire' = wire /\ conv' = conv /\ isOpen' = isOpen /\ loaded' = loaded
      /\ preview' = preview /\ loads' = loads /\ meta' = meta /\ metaLoad' = metaLoad /\ pref' = pref
      /\ change' = change /\ viewed' = viewed /\ items' = items /\ nextCursor' = nextCursor /\ hasMore' = hasMore
      /\ isLoading' = isLoading /\ failed' = failed /\ banner' = banner /\ asks' = asks /\ current' = current
      /\ unheard' = unheard /\ messages' = messages /\ settled' = settled /\ crossed' = crossed /\ slipped' = slipped
      /\ dropped' = dropped /\ unflagged' = unflagged
  BY DEF panelVars
<1>1. PanelTypes /\ ExplorerInv /\ PreviewInv /\ PreferenceInv
  BY DEF PanelInv
<1>2. UNCHANGED <<P!shared, conv, P!explorer>> /\ (viewed # Nil => isOpen')
  BY <1>0, <1>1 DEF P!shared, P!explorer, ExplorerInv, PanelClosed
<1>3. ExplorerInv' /\ ExplorerTypes' /\ LogTypes' /\ LogGrows
  BY <1>1, <1>2, OthersExplore
<1>4. PreferenceInv' /\ PreferenceTypes'
  BY <1>0, <1>1 DEF PanelTypes, PreferenceInv, PreferenceTypes, P!NoLoad
<1>5. PreviewInv' /\ PreviewTypes'
  <2>1. \A i \in 1 .. Len(log[conv]) : Told(conv, i) => Told(conv, i)'
    BY <1>0 DEF Told
  <2>2. \A i \in 1 .. Len(log'[conv]) : i \in 1 .. Len(log[conv]) \/ Told(conv, i)'
    BY <1>0
  <2>3. UNCHANGED <<loaded, loads, P!previews>>
    BY <1>0 DEF P!previews
  <2> HIDE DEF Told
  <2> QED
    BY <1>0, <1>1, <1>3, <2>1, <2>2, <2>3, QuietPreview
<1> QED
  BY <1>3, <1>4, <1>5 DEF PanelInv, PanelTypes

-----------------------------------------------------------------------------
(* In a behaviour of the list its invariant holds always.                   *)
LEMMA ListAlways == PageSpec => [](part = "list" => ListInv)
<1>1. PageInit => (part = "list" => ListInv)
  BY ListInit DEF PageInit
<1>2. (part = "list" => ListInv) /\ [PageNext]_<<part, listVars, panelVars>>
        => (part = "list" => ListInv)'
  <2> SUFFICES ASSUME part = "list" => ListInv, part' = "list",
                      [PageNext]_<<part, listVars, panelVars>>
               PROVE  ListInv'
    OBVIOUS
  <2>1. CASE part = "list" /\ L!Next
    BY <2>1, ListStep
  <2>2. CASE UNCHANGED <<part, listVars>>
    BY <2>2, ListStutters
  <2> QED
    BY <2>1, <2>2 DEF PageNext
<1> QED
  BY <1>1, <1>2, PTL DEF PageSpec

(* When nothing is under way, the sidebar shows every conversation of the   *)
(* part of the list that was loaded, under its newest message, and a search *)
(* every hit: through rows that move between pages, events that cross them, *)
(* and requests aborted, superseded or failed, but for what the exceptions  *)
(* of ListWhole and SearchWhole name.                                       *)
THEOREM SidebarIsWhole == PageSpec => []SidebarWhole
<1>1. (part = "list" => ListInv) => SidebarWhole
  BY ListSees DEF SidebarWhole
<1> QED
  BY <1>1, ListAlways, PTL

(* In a behaviour of the panel its invariant holds always.                  *)
LEMMA PanelAlways == PageSpec => [](part = "panel" => PanelInv)
<1>1. PageInit => (part = "panel" => PanelInv)
  BY PanelInit DEF PageInit
<1>2. (part = "panel" => PanelInv) /\ [PageNext]_<<part, listVars, panelVars>>
        => (part = "panel" => PanelInv)'
  <2> SUFFICES ASSUME part = "panel" => PanelInv, part' = "panel",
                      [PageNext]_<<part, listVars, panelVars>>
               PROVE  PanelInv'
    OBVIOUS
  <2>1. CASE part = "panel" /\ P!Next
    BY <2>1, PanelStep
  <2>2. CASE UNCHANGED <<part, panelVars>>
    BY <2>2, PanelStutters
  <2> QED
    BY <2>1, <2>2 DEF PageNext
<1> QED
  BY <1>1, <1>2, PTL DEF PageSpec

(* At no time does an explorer show what is not of its conversation, and at *)
(* its end it has left out nothing but what a page cut off or what came     *)
(* unannounced: pages, events and requests aborted, in every order.         *)
THEOREM ExplorerIsExact == PageSpec => []ExplorerExact
<1>1. (part = "panel" => PanelInv) => ExplorerExact
  BY PanelSees DEF ExplorerExact
<1> QED
  BY <1>1, PanelAlways, PTL

(* A preview at rest shows the newest page, and the switch the preference   *)
(* stored, but for the exceptions that PreviewFresh and PreferenceShown     *)
(* name.                                                                    *)
THEOREM PanelIsTruthful == PageSpec => []PanelTruthful
<1>1. (part = "panel" => PanelInv) => PanelTruthful
  BY PanelSees DEF PanelTruthful
<1> QED
  BY <1>1, PanelAlways, PTL
=============================================================================
