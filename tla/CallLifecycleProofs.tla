------------------------ MODULE CallLifecycleProofs ------------------------
(* Safety of the call lifecycle for any pair of users and any number of    *)
(* replicas, sockets, attempts, records, handlers in flight and crashes,   *)
(* and that it implements CallOutcome.                                     *)
EXTENDS CallLifecycle, TLAPS

-----------------------------------------------------------------------------
(* The inductive invariant *)

Exists(c) == c \in Calls /\ rec[c].status # "none"

(* Whatever a store, a Map, a timer or a client refers to is a record.     *)
Refs ==
  /\ \A c \in due \cup offered \cup accepted \cup known : Exists(c)
  /\ \A tm \in timers : Exists(tm.call)
  /\ \A a \in Attempts : tempMap[a] # None => Exists(tempMap[a])
  /\ \A n \in Nodes, a \in Attempts : localTemp[n][a] # None => Exists(localTemp[n][a])
  /\ \A s \in Sockets : /\ bind[s] # None => Exists(bind[s])
                        /\ sockBind[s] # None => Exists(sockBind[s])

(* What a handler in flight k knows at its pc.                             *)
Shape(k) ==
  /\ k.op = None <=> k.pc = "idle"
  /\ k.op # None => k.node \in Nodes
  /\ k.op \in {"init", "callUser"} => k.att \in Attempts
  /\ k.op \in Op \ {"timeout", "poll"} => k.sock \in Sockets
  /\ k.pc \in {"create", "map", "resolve", "glare", "rank", "arm", "timer", "glareWrite"}
       => k.op \in {"init", "callUser"}
  /\ k.pc = "bind" => k.op \in {"init", "callUser", "answer"}
  /\ k.pc \in {"resolve", "glare", "rank", "glareWrite"} => k.op = "callUser"
  /\ k.pc = "answer" => k.op = "answer"
  /\ k.pc = "search" => k.op \in {"reject", "end"}
  /\ k.pc = "read" => k.op \in {"reject", "end", "disconnect"}
  /\ k.pc \in {"finalize", "log"} => k.op \in {"reject", "end", "disconnect", "timeout", "poll"}
  /\ k.pc = "undue" => k.op # "init"
  /\ k.op = "reject" => k.reason \in Reason
  /\ k.pc \notin {"idle", "create", "resolve", "search"} => Exists(k.call)
  /\ k.op = "callUser" /\ k.pc \in {"rank", "undue", "glareWrite"} => Exists(k.reverse)

(* The status a handler has derived fits the record it read: a record once *)
(* seen answered stays answered.                                           *)
Derived(k) ==
  /\ k.sawAnswer => /\ \/ k.pc \in {"finalize", "log"}
                       \/ k.op = "disconnect" /\ k.pc = "undue"
                    /\ Exists(k.call) /\ rec[k.call].answered # "no"
  /\ k.op \in {"timeout", "poll"} => k.status = "missed" /\ ~k.sawAnswer
  /\ (k.pc \in {"finalize", "log"} \/ (k.op = "disconnect" /\ k.pc = "undue")) =>
       /\ k.status \in Terminal \ {"unreachable"}
       /\ k.op = "disconnect" => k.status = IF k.sawAnswer THEN "completed" ELSE "rejected"
       /\ k.op \in {"reject", "end"} /\ k.status = "completed" => k.sawAnswer
  /\ k.pc = "log" => \/ writer[k.call] = "glare"
                     \/ /\ writer[k.call] = PathOf(k.op)
                        /\ rec[k.call].status = k.status

(* A record has an outcome exactly when some path wrote one, and an answer *)
(* to a record that still rings is never late.                             *)
Written ==
  \A c \in Calls : /\ writer[c] = "none" <=> ~Ended(c)
                   /\ Pending(c) => rec[c].answered # "late"

IInv ==
  /\ TypeOK
  /\ Refs
  /\ \A t \in Tasks : Shape(task[t])
  /\ \A t \in Tasks : Derived(task[t])
  /\ Written
  /\ HonestOutcome
  /\ LogAgrees
-----------------------------------------------------------------------------
(* Type correctness *)

(* The constants a handler record is built from, as members of their sets. *)
LEMMA PcNames ==
  /\ "idle" \in Pc /\ "create" \in Pc /\ "map" \in Pc /\ "bind" \in Pc
  /\ "resolve" \in Pc /\ "glare" \in Pc /\ "rank" \in Pc /\ "arm" \in Pc
  /\ "timer" \in Pc /\ "search" \in Pc /\ "undue" \in Pc /\ "answer" \in Pc
  /\ "read" \in Pc /\ "finalize" \in Pc /\ "log" \in Pc /\ "glareWrite" \in Pc
  BY DEF Pc

LEMMA OpNames ==
  /\ "init" \in Op /\ "callUser" \in Op /\ "answer" \in Op /\ "reject" \in Op
  /\ "end" \in Op /\ "disconnect" \in Op /\ "timeout" \in Op /\ "poll" \in Op
  BY DEF Op

LEMMA StatusNames ==
  /\ "none" \in Status /\ "pending" \in Status /\ Terminal \subseteq Status
  /\ "completed" \in Terminal /\ "missed" \in Terminal /\ "rejected" \in Terminal
  /\ "unreachable" \in Terminal /\ "busy" \in Terminal
  BY DEF Status, Terminal

LEMMA IdleType == Idle \in Task
  BY PcNames, StatusNames DEF Idle, Task

LEMMA HandlerType ==
  ASSUME NEW op \in Op, NEW pc \in Pc, NEW s \in Sockets
  PROVE  Handler(op, pc, s) \in Task
  BY SocketAssumption, StatusNames DEF Handler, Idle, Task

LEMMA TimeoutType ==
  ASSUME NEW op \in Op, NEW n \in Nodes, NEW c \in Calls
  PROVE  Timeout(op, n, c) \in Task
  BY PcNames, StatusNames DEF Timeout, Idle, Task

(* clearTimeout only removes a timer and empties a slot of the Map.        *)
LEMMA ClearTimerType ==
  ASSUME TypeOK, NEW n \in Nodes, NEW c \in Calls, ClearTimer(n, c)
  PROVE  /\ timers' \subseteq Timer
         /\ active' \in [Nodes -> [Calls -> Handle \cup {None}]]
  BY DEF TypeOK, ClearTimer

(* The ways a step changes the task function.                              *)
LEMMA GotoType ==
  ASSUME task \in [Tasks -> Task], NEW t \in Tasks, NEW pc \in Pc, Goto(t, pc)
  PROVE  task' \in [Tasks -> Task]
  BY DEF Goto, Task

LEMMA DoneType ==
  ASSUME task \in [Tasks -> Task], NEW t \in Tasks, Done(t)
  PROVE  task' \in [Tasks -> Task]
  BY IdleType DEF Done

LEMMA AimType ==
  ASSUME task \in [Tasks -> Task], NEW t \in Tasks, NEW c \in Calls, NEW pc \in Pc, Aim(t, c, pc)
  PROVE  task' \in [Tasks -> Task]
<1>1. [task[t] EXCEPT !.call = c, !.pc = pc] \in Task
  BY DEF Task
<1>2. QED
  BY <1>1 DEF Aim

(* A hangup keeps the types of what it changes.                            *)
LEMMA HangupType ==
  ASSUME TypeOK, NEW s \in Sockets, NEW op \in Op, NEW reason \in Reason \cup {None},
         NEW c \in Calls \cup {None}, NEW t \in Tasks, Hangup(s, op, reason, c, t)
  PROVE  /\ task' \in [Tasks -> Task]
         /\ timers' \subseteq Timer
         /\ active' \in [Nodes -> [Calls -> Handle \cup {None}]]
         /\ bind' \in [Sockets -> Calls \cup {None}]
         /\ events' \in 0..MaxEvents
<1> DEFINE h == [Handler(op, "undue", s) EXCEPT !.reason = reason]
<1>1. h \in Task
  BY HandlerType, PcNames DEF Task
<1>2. [h EXCEPT !.pc = "search"] \in Task /\ \A d \in Calls : [h EXCEPT !.call = d] \in Task
  BY <1>1, PcNames DEF Task
<1>3. task' \in [Tasks -> Task]
  BY <1>2 DEF Hangup, Spawn, TypeOK
<1>4. timers' \subseteq Timer /\ active' \in [Nodes -> [Calls -> Handle \cup {None}]]
  BY ClearTimerType, SocketAssumption DEF Hangup, TypeOK
<1>5. events' \in 0..MaxEvents
  BY BoundAssumption DEF Hangup, Sent, TypeOK
<1>6. QED
  BY <1>3, <1>4, <1>5 DEF Hangup, TypeOK

(* Every step keeps the types; a handler's step needs what it knows.       *)
LEMMA TypeStep ==
  ASSUME IInv, [Next]_vars
  PROVE  TypeOK'
<1> USE DEF mongo, redis, replica, client
<1> /\ TypeOK /\ task \in [Tasks -> Task]
    /\ \A t \in Tasks : Shape(task[t]) /\ Derived(task[t])
  BY DEF IInv, TypeOK
<1>1. ASSUME NEW s \in Sockets, NEW a \in Attempts, NEW t \in Tasks, InitCall(s, a, t)
      PROVE  TypeOK'
  <2>1. [Handler("init", "create", s) EXCEPT !.att = a] \in Task
    BY HandlerType, OpNames, PcNames DEF Task
  <2>2. task' \in [Tasks -> Task]
    BY <1>1, <2>1 DEF InitCall, Spawn
  <2>3. QED
    BY <2>2, <1>1 DEF TypeOK, InitCall
<1>2. ASSUME NEW s \in Sockets, NEW a \in Attempts, NEW t \in Tasks, CallUser(s, a, t)
      PROVE  TypeOK'
  <2>1. [Handler("callUser", "resolve", s) EXCEPT !.att = a] \in Task
    BY HandlerType, OpNames, PcNames DEF Task
  <2>2. task' \in [Tasks -> Task]
    BY <1>2, <2>1 DEF CallUser, Spawn
  <2>3. QED
    BY <2>2, <1>2 DEF TypeOK, CallUser
<1>3. ASSUME NEW t \in Tasks, Resolve(t)
      PROVE  TypeOK'
  <2> DEFINE mapped == IF tempMap[task[t].att] # None /\ age[tempMap[task[t].att]] # Stale
                        THEN tempMap[task[t].att] ELSE localTemp[task[t].node][task[t].att]
  <2>1. mapped \in Calls \cup {None}
    BY <1>3 DEF TypeOK, Resolve, At, Shape
  <2>2. task' \in [Tasks -> Task]
    BY <1>3, <2>1, AimType, GotoType, PcNames DEF Resolve, RecentOfPair
  <2>3. QED
    BY <2>2, <1>3 DEF TypeOK, Resolve
<1>4. ASSUME NEW t \in Tasks, CreateRecord(t)
      PROVE  TypeOK'
  <2>1. Shape(task[t]) /\ task[t].att \in Attempts
    BY <1>4 DEF CreateRecord, At, Shape
  <2>2. task' \in [Tasks -> Task]
    BY <1>4, AimType, PcNames DEF CreateRecord
  <2>3. rec' \in [Calls -> Record]
    BY <1>4, <2>1, AttemptAssumption, StatusNames DEF TypeOK, CreateRecord, Record, Answered
  <2>4. QED
    BY <2>2, <2>3, <1>4 DEF TypeOK, CreateRecord
<1>5. ASSUME NEW t \in Tasks, MapTempId(t)
      PROVE  TypeOK'
  <2>1. Shape(task[t])
    BY <1>5
  <2>2. task' \in [Tasks -> Task]
    BY <1>5, <2>1, IdleType, PcNames, StatusNames DEF MapTempId, At, Shape, Exists, Goto, Done, Task
  <2>3. task[t].call \in Calls /\ task[t].node \in Nodes /\ task[t].att \in Attempts
    BY <1>5, <2>1 DEF MapTempId, At, Shape, Exists
  <2>4. localTemp' \in [Nodes -> [Attempts -> Calls \cup {None}]]
    <3>1. [localTemp EXCEPT ![task[t].node][task[t].att] = task[t].call]
             \in [Nodes -> [Attempts -> Calls \cup {None}]]
      BY <2>3 DEF TypeOK
    <3>2. QED
      BY <1>5, <3>1 DEF TypeOK, MapTempId
  <2>5. tempMap' \in [Attempts -> Calls \cup {None}]
    BY <1>5, <2>3 DEF TypeOK, MapTempId
  <2>6. QED
    BY <2>2, <2>4, <2>5, <1>5 DEF TypeOK, MapTempId
<1>6. ASSUME NEW t \in Tasks, BindCaller(t)
      PROVE  TypeOK'
  <2>1. Shape(task[t])
    BY <1>6
  <2>2. task' \in [Tasks -> Task]
    BY <1>6, <2>1, IdleType, PcNames, StatusNames DEF BindCaller, At, Shape, Exists, Goto, Done, Task
  <2>3. QED
    BY <1>6, <2>1, <2>2, StatusNames DEF TypeOK, BindCaller, At, Shape, Exists
<1>7. ASSUME NEW t \in Tasks, DetectGlare(t)
      PROVE  TypeOK'
  <2>1. Shape(task[t])
    BY <1>7
  <2>2. task' \in [Tasks -> Task]
    <3>1. \A r \in Calls : [task EXCEPT ![t] = [@ EXCEPT !.reverse = r, !.pc = "rank"]] \in [Tasks -> Task]
      BY PcNames DEF Task
    <3>2. QED
      BY <1>7, <3>1, GotoType, PcNames DEF DetectGlare, Reverse
  <2>3. QED
    BY <1>7, <2>1, <2>2, StatusNames DEF TypeOK, DetectGlare, At, Shape, Exists
<1>8. ASSUME NEW t \in Tasks, RankGlare(t)
      PROVE  TypeOK'
  <2>1. Shape(task[t])
    BY <1>8
  <2>2. task' \in [Tasks -> Task]
    <3>1. \A c \in Calls, won \in BOOLEAN :
            [task[t] EXCEPT !.reverse = c, !.won = won, !.pc = "undue"] \in Task
      BY PcNames DEF Task
    <3>2. task[t].call \in Calls /\ task[t].reverse \in Calls
      BY <1>8, <2>1 DEF RankGlare, At, Shape, Exists
    <3>3. QED
      BY <1>8, <3>1, <3>2 DEF RankGlare
  <2>3. /\ timers' \subseteq Timer
        /\ active' \in [Nodes -> [Calls -> Handle \cup {None}]]
    BY <1>8, <2>1, ClearTimerType DEF TypeOK, RankGlare, At, Shape, Exists
  <2>4. QED
    BY <1>8, <2>1, <2>2, <2>3 DEF TypeOK, RankGlare, At, Shape, Exists
<1>9. ASSUME NEW t \in Tasks, GlareWrite(t)
      PROVE  TypeOK'
  <2>1. Shape(task[t])
    BY <1>9
  <2>2. task' \in [Tasks -> Task]
    BY <1>9, <2>1, IdleType, PcNames, StatusNames DEF GlareWrite, At, Shape, Exists, Goto, Done, Task
  <2>3. task[t].call \in Calls /\ task[t].reverse \in Calls
    BY <1>9, <2>1 DEF GlareWrite, At, Shape, Exists
  <2>a. rec[task[t].reverse] \in Record
    BY <2>3, <2>1, StatusNames DEF TypeOK, Record
  <2>4. rec' \in [Calls -> Record]
    BY <1>9, <2>3, <2>a, StatusNames DEF TypeOK, GlareWrite, Record
  <2>5. writer' \in [Calls -> Path]
    BY <1>9, <2>3 DEF TypeOK, GlareWrite, Path, PathOf
  <2>6. QED
    BY <2>2, <2>3, <2>4, <2>5, <1>9 DEF TypeOK, GlareWrite
<1>10. ASSUME NEW t \in Tasks, ArmDue(t)
      PROVE  TypeOK'
  <2>1. Shape(task[t])
    BY <1>10
  <2>2. task' \in [Tasks -> Task]
    BY <1>10, <2>1, IdleType, PcNames, StatusNames DEF ArmDue, At, Shape, Exists, Goto, Done, Task
  <2>3. QED
    BY <1>10, <2>1, <2>2, StatusNames DEF TypeOK, ArmDue, At, Shape, Exists
<1>11. ASSUME NEW t \in Tasks, StartTimer(t)
      PROVE  TypeOK'
  <2>1. Shape(task[t])
    BY <1>11
  <2>2. task' \in [Tasks -> Task]
    BY <1>11, <2>1, IdleType, PcNames, StatusNames DEF StartTimer, At, Shape, Exists, Goto, Done, Task
  <2>3. QED
    BY <1>11, <2>1, <2>2, StatusNames DEF TypeOK, StartTimer, At, Shape, Exists, Timer, Handle, Phase
<1>12. ASSUME NEW s \in Sockets, NEW c \in Calls, NEW t \in Tasks, AnswerCall(s, c, t)
      PROVE  TypeOK'
  <2>1. [Handler("answer", "bind", s) EXCEPT !.call = c] \in Task
    BY HandlerType, OpNames, PcNames DEF Task
  <2>2. task' \in [Tasks -> Task]
    BY <1>12, <2>1 DEF AnswerCall, Spawn
  <2>3. QED
    BY <2>2, BoundAssumption, <1>12 DEF TypeOK, AnswerCall, Sent
<1>13. ASSUME NEW t \in Tasks, BindCallee(t)
      PROVE  TypeOK'
  <2>1. Shape(task[t])
    BY <1>13
  <2>2. task' \in [Tasks -> Task]
    BY <1>13, <2>1, IdleType, PcNames, StatusNames DEF BindCallee, At, Shape, Exists, Goto, Done, Task
  <2>3. /\ timers' \subseteq Timer
        /\ active' \in [Nodes -> [Calls -> Handle \cup {None}]]
    BY <1>13, <2>1, ClearTimerType DEF TypeOK, BindCallee, At, Shape, Exists
  <2>4. QED
    BY <1>13, <2>1, <2>2, <2>3 DEF TypeOK, BindCallee, At, Shape, Exists
<1>14. ASSUME NEW t \in Tasks, WriteAnswer(t)
      PROVE  TypeOK'
  <2>1. Shape(task[t])
    BY <1>14
  <2>2. task' \in [Tasks -> Task]
    BY <1>14, <2>1, IdleType, PcNames, StatusNames DEF WriteAnswer, At, Shape, Exists, Goto, Done, Task
  <2>3. task[t].call \in Calls /\ task[t].call \in Calls
    BY <1>14, <2>1 DEF WriteAnswer, At, Shape, Exists
  <2>a. rec[task[t].call].answered \in Answered /\ {"yes", "late"} \subseteq Answered
    BY <2>3, <2>1, StatusNames DEF TypeOK, Record, Answered
  <2>4. rec' \in [Calls -> Record]
    <3> DEFINE v == IF rec[task[t].call].answered # "no" THEN rec[task[t].call].answered
                    ELSE IF Ended(task[t].call) THEN "late" ELSE "yes"
    <3>1. v \in Answered
      BY <2>a
    <3>2. rec' = [rec EXCEPT ![task[t].call].answered = v]
      BY <1>14 DEF WriteAnswer
    <3> HIDE DEF v
    <3>3. QED
      BY <2>3, <3>1, <3>2 DEF TypeOK, Record
  <2>6. QED
    BY <2>2, <2>3, <2>4, <1>14 DEF TypeOK, WriteAnswer
<1>15. ASSUME NEW s \in Sockets, NEW t \in Tasks, RejectCall(s, t)
      PROVE  TypeOK'
  <2>1. \E reason \in Reason \cup {None}, c \in Calls \cup {None} : Hangup(s, "reject", reason, c, t)
    BY <1>15, SocketAssumption DEF TypeOK, RejectCall, Reason
  <2>2. localTemp' \in [Nodes -> [Attempts -> Calls \cup {None}]]
    <3>1. \A a \in Attempts : [localTemp EXCEPT ![Home[s]][a] = None]
                                \in [Nodes -> [Attempts -> Calls \cup {None}]]
      BY SocketAssumption DEF TypeOK
    <3>2. \/ localTemp' = localTemp
          \/ \E a \in Attempts : localTemp' = [localTemp EXCEPT ![Home[s]][a] = None]
      BY <1>15 DEF RejectCall
    <3>3. QED
      BY <3>1, <3>2 DEF TypeOK
  <2>3. PICK reason \in Reason \cup {None}, c \in Calls \cup {None} : Hangup(s, "reject", reason, c, t)
    BY <2>1
  <2>4. /\ task' \in [Tasks -> Task]
        /\ timers' \subseteq Timer
        /\ active' \in [Nodes -> [Calls -> Handle \cup {None}]]
        /\ bind' \in [Sockets -> Calls \cup {None}]
        /\ events' \in 0..MaxEvents
    BY <2>3, HangupType, OpNames
  <2>5. QED
    BY <2>2, <2>3, <2>4 DEF TypeOK, Hangup
<1>16. ASSUME NEW s \in Sockets, NEW t \in Tasks, EndCall(s, t)
      PROVE  TypeOK'
  <2>1. \E c \in Calls \cup {None} : Hangup(s, "end", None, c, t)
    BY <1>16 DEF EndCall
  <2>2. QED
    BY <1>16, <2>1, HangupType, OpNames DEF TypeOK, Hangup, EndCall
<1>17. ASSUME NEW t \in Tasks, SearchCall(t)
      PROVE  TypeOK'
  <2>1. Shape(task[t])
    BY <1>17
  <2>2. task' \in [Tasks -> Task]
    BY <1>17, <2>1, AimType, GotoType, DoneType, PcNames DEF SearchCall, Reverse
  <2>3. /\ timers' \subseteq Timer
        /\ active' \in [Nodes -> [Calls -> Handle \cup {None}]]
    BY <1>17, <2>1, ClearTimerType DEF TypeOK, SearchCall, At, Shape, Exists
  <2>4. QED
    BY <1>17, <2>1, <2>2, <2>3 DEF TypeOK, SearchCall, At, Shape, Exists
<1>18. ASSUME NEW t \in Tasks, RemoveDue(t)
      PROVE  TypeOK'
  <2>1. Shape(task[t])
    BY <1>18
  <2>2. task' \in [Tasks -> Task]
    BY <1>18, <2>1, IdleType, PcNames, StatusNames DEF RemoveDue, At, Shape, Exists, Goto, Done, Task
  <2>3. QED
    BY <1>18, <2>1, <2>2, StatusNames DEF TypeOK, RemoveDue, At, Shape, Exists
<1>19. ASSUME NEW t \in Tasks, ReadCall(t)
      PROVE  TypeOK'
  <2>1. Shape(task[t])
    BY <1>19
  <2>2. task' \in [Tasks -> Task]
    <3>1. \A pc \in Pc, st \in Status, saw \in BOOLEAN :
            [task[t] EXCEPT !.pc = pc, !.status = st, !.sawAnswer = saw] \in Task
      BY DEF Task
    <3>2. \A op, reason, answered : StatusFor(op, reason, answered) \in Status
      BY StatusNames DEF StatusFor
    <3>3. QED
      <4>1. CASE Done(t)
        BY <4>1, DoneType
      <4>2. CASE ~Done(t)
        <5>1. PICK k \in Task : task' = [task EXCEPT ![t] = k]
          BY <1>19, <4>2, <3>1, <3>2, PcNames DEF ReadCall
        <5>2. QED
          BY <5>1
      <4>3. QED
        BY <4>1, <4>2
  <2>3. /\ timers' \subseteq Timer
        /\ active' \in [Nodes -> [Calls -> Handle \cup {None}]]
    BY <1>19, <2>1, ClearTimerType DEF TypeOK, ReadCall, At, Shape, Exists
  <2>4. QED
    BY <1>19, <2>1, <2>2, <2>3 DEF TypeOK, ReadCall, At, Shape, Exists
<1>20. ASSUME NEW t \in Tasks, Finalize(t)
      PROVE  TypeOK'
  <2>1. Shape(task[t])
    BY <1>20
  <2>2. task' \in [Tasks -> Task]
    BY <1>20, <2>1, IdleType, PcNames, StatusNames DEF Finalize, At, Shape, Exists, Goto, Done, Task
  <2>3. task[t].call \in Calls /\ task[t].call \in Calls
    BY <1>20, <2>1 DEF Finalize, At, Shape, Exists
  <2>a. task[t].status \in Status
    BY <2>3, <2>1, StatusNames DEF TypeOK, Record, Task
  <2>4. rec' \in [Calls -> Record]
    <3>1. [rec EXCEPT ![task[t].call].status = task[t].status] \in [Calls -> Record]
      BY <2>3, <2>a DEF TypeOK, Record
    <3>2. QED
      BY <1>20, <3>1 DEF TypeOK, Finalize
  <2>5. writer' \in [Calls -> Path]
    BY <1>20, <2>3 DEF TypeOK, Finalize, Path, PathOf
  <2>6. QED
    BY <2>2, <2>3, <2>4, <2>5, <1>20 DEF TypeOK, Finalize
<1>21. ASSUME NEW t \in Tasks, WriteLog(t)
      PROVE  TypeOK'
  <2>1. Shape(task[t])
    BY <1>21
  <2>2. task' \in [Tasks -> Task]
    BY <1>21, <2>1, IdleType, PcNames, StatusNames DEF WriteLog, At, Shape, Exists, Goto, Done, Task
  <2>3. QED
    BY <1>21, <2>1, <2>2, StatusNames, Derived(task[t]) DEF TypeOK, WriteLog, At, Shape, Exists, Derived
<1>22. ASSUME NEW s \in Sockets, NEW t \in Tasks, Disconnect(s, t)
      PROVE  TypeOK'
  <2>1. \A c \in Calls : [Handler("disconnect", "read", s) EXCEPT !.call = c] \in Task
    BY HandlerType, OpNames, PcNames DEF Task
  <2>2. task' \in [Tasks -> Task]
    BY <1>22, <2>1 DEF TypeOK, Disconnect, Spawn
  <2>3. QED
    BY <2>2, <1>22 DEF TypeOK, Disconnect
<1>23. ASSUME NEW tm \in timers, NEW t \in Tasks, FireTimer(tm, t)
      PROVE  TypeOK'
  <2>1. Timeout("timeout", tm.node, tm.call) \in Task
    BY TimeoutType DEF TypeOK, Timer, Op
  <2>2. task' \in [Tasks -> Task]
    BY <1>23, <2>1 DEF TypeOK, FireTimer, Spawn
  <2>3. QED
    BY <2>2, <1>23 DEF TypeOK, FireTimer
<1>24. ASSUME NEW n \in Nodes, NEW c \in Calls, NEW t \in Tasks, Poll(n, c, t)
      PROVE  TypeOK'
  <2>1. Timeout("poll", n, c) \in Task
    BY TimeoutType DEF Op
  <2>2. task' \in [Tasks -> Task]
    BY <1>24, <2>1 DEF TypeOK, Poll, Spawn
  <2>3. QED
    BY <2>2, <1>24 DEF TypeOK, Poll
<1>25. ASSUME NEW c \in Calls, ExpireLock(c)
      PROVE  TypeOK'
  BY <1>25 DEF TypeOK, ExpireLock
<1>26. ASSUME NEW c \in Calls, Cleanup(c)
      PROVE  TypeOK'
  BY <1>26 DEF TypeOK, Cleanup, Record, Status, Terminal, Path
<1>27. ASSUME NEW c \in Calls, GrowOld(c)
      PROVE  TypeOK'
  BY <1>27, BoundAssumption DEF TypeOK, GrowOld, Fresh, Stale
<1>28. ASSUME NEW n \in Nodes, Crash(n)
      PROVE  TypeOK'
  <2>1. task' \in [Tasks -> Task]
    BY <1>28, IdleType DEF Crash
  <2>2. active' \in [Nodes -> [Calls -> Handle \cup {None}]]
    BY <1>28 DEF TypeOK, Crash
  <2>3. localTemp' \in [Nodes -> [Attempts -> Calls \cup {None}]]
    BY <1>28 DEF TypeOK, Crash
  <2>4. bind' \in [Sockets -> Calls \cup {None}]
    BY <1>28 DEF TypeOK, Crash
  <2>5. crashes' \in 0..MaxCrashes
    BY <1>28, BoundAssumption DEF TypeOK, Crash
  <2>6. QED
    BY <1>28, <2>1, <2>2, <2>3, <2>4, <2>5 DEF TypeOK, Crash
<1>29. CASE UNCHANGED vars
  BY <1>29 DEF TypeOK, vars
<1>30. QED
  BY <1>1, <1>2, <1>3, <1>4, <1>5, <1>6, <1>7, <1>8, <1>9, <1>10, <1>11, <1>12, <1>13, <1>14, <1>15, <1>16, <1>17, <1>18, <1>19, <1>20, <1>21, <1>22, <1>23, <1>24, <1>25, <1>26, <1>27, <1>28, <1>29 DEF Next, Step, ClientEvent, Fire, PollSome
-----------------------------------------------------------------------------
(* The records only grow               *)

(* A record never disappears, an answer is never taken back, and an        *)
(* outcome, once written, stands or is overridden by glare resolution.     *)
Grows ==
  \A c \in Calls :
    /\ Exists(c) => Exists(c)'
    /\ Exists(c) /\ rec[c].answered # "no" => rec'[c].answered # "no"
    /\ writer[c] # "none" => \/ writer'[c] = "glare"
                             \/ writer'[c] = writer[c] /\ rec'[c].status = rec[c].status

(* The steps that write the CallHistory records or the call log.           *)
Writes ==
  \/ \E t \in Tasks : CreateRecord(t) \/ GlareWrite(t) \/ WriteAnswer(t) \/ Finalize(t) \/ WriteLog(t)
  \/ \E c \in Calls : Cleanup(c)

LEMMA OnlyWrites ==
  ASSUME [Next]_vars
  PROVE  Writes \/ UNCHANGED <<rec, log, writer>>
<1> USE DEF vars, mongo, redis, replica, client
<1>1. ASSUME NEW s \in Sockets, NEW a \in Attempts, NEW t \in Tasks, InitCall(s, a, t)
      PROVE  Writes \/ UNCHANGED <<rec, log, writer>>
  BY <1>1 DEF InitCall
<1>2. ASSUME NEW s \in Sockets, NEW a \in Attempts, NEW t \in Tasks, CallUser(s, a, t)
      PROVE  Writes \/ UNCHANGED <<rec, log, writer>>
  BY <1>2 DEF CallUser
<1>3. ASSUME NEW t \in Tasks, Resolve(t)
      PROVE  Writes \/ UNCHANGED <<rec, log, writer>>
  BY <1>3 DEF Resolve
<1>4. ASSUME NEW t \in Tasks, CreateRecord(t)
      PROVE  Writes \/ UNCHANGED <<rec, log, writer>>
  BY <1>4 DEF Writes
<1>5. ASSUME NEW t \in Tasks, MapTempId(t)
      PROVE  Writes \/ UNCHANGED <<rec, log, writer>>
  BY <1>5 DEF MapTempId
<1>6. ASSUME NEW t \in Tasks, BindCaller(t)
      PROVE  Writes \/ UNCHANGED <<rec, log, writer>>
  BY <1>6 DEF BindCaller
<1>7. ASSUME NEW t \in Tasks, DetectGlare(t)
      PROVE  Writes \/ UNCHANGED <<rec, log, writer>>
  BY <1>7 DEF DetectGlare
<1>8. ASSUME NEW t \in Tasks, RankGlare(t)
      PROVE  Writes \/ UNCHANGED <<rec, log, writer>>
  BY <1>8 DEF RankGlare
<1>9. ASSUME NEW t \in Tasks, GlareWrite(t)
      PROVE  Writes \/ UNCHANGED <<rec, log, writer>>
  BY <1>9 DEF Writes
<1>10. ASSUME NEW t \in Tasks, ArmDue(t)
      PROVE  Writes \/ UNCHANGED <<rec, log, writer>>
  BY <1>10 DEF ArmDue
<1>11. ASSUME NEW t \in Tasks, StartTimer(t)
      PROVE  Writes \/ UNCHANGED <<rec, log, writer>>
  BY <1>11 DEF StartTimer
<1>12. ASSUME NEW s \in Sockets, NEW c \in Calls, NEW t \in Tasks, AnswerCall(s, c, t)
      PROVE  Writes \/ UNCHANGED <<rec, log, writer>>
  BY <1>12 DEF AnswerCall
<1>13. ASSUME NEW t \in Tasks, BindCallee(t)
      PROVE  Writes \/ UNCHANGED <<rec, log, writer>>
  BY <1>13 DEF BindCallee
<1>14. ASSUME NEW t \in Tasks, WriteAnswer(t)
      PROVE  Writes \/ UNCHANGED <<rec, log, writer>>
  BY <1>14 DEF Writes
<1>15. ASSUME NEW s \in Sockets, NEW t \in Tasks, RejectCall(s, t)
      PROVE  Writes \/ UNCHANGED <<rec, log, writer>>
  BY <1>15 DEF RejectCall, Hangup
<1>16. ASSUME NEW s \in Sockets, NEW t \in Tasks, EndCall(s, t)
      PROVE  Writes \/ UNCHANGED <<rec, log, writer>>
  BY <1>16 DEF EndCall, Hangup
<1>17. ASSUME NEW t \in Tasks, SearchCall(t)
      PROVE  Writes \/ UNCHANGED <<rec, log, writer>>
  BY <1>17 DEF SearchCall
<1>18. ASSUME NEW t \in Tasks, RemoveDue(t)
      PROVE  Writes \/ UNCHANGED <<rec, log, writer>>
  BY <1>18 DEF RemoveDue
<1>19. ASSUME NEW t \in Tasks, ReadCall(t)
      PROVE  Writes \/ UNCHANGED <<rec, log, writer>>
  BY <1>19 DEF ReadCall
<1>20. ASSUME NEW t \in Tasks, Finalize(t)
      PROVE  Writes \/ UNCHANGED <<rec, log, writer>>
  BY <1>20 DEF Writes
<1>21. ASSUME NEW t \in Tasks, WriteLog(t)
      PROVE  Writes \/ UNCHANGED <<rec, log, writer>>
  BY <1>21 DEF Writes
<1>22. ASSUME NEW s \in Sockets, NEW t \in Tasks, Disconnect(s, t)
      PROVE  Writes \/ UNCHANGED <<rec, log, writer>>
  BY <1>22 DEF Disconnect
<1>23. ASSUME NEW tm \in timers, NEW t \in Tasks, FireTimer(tm, t)
      PROVE  Writes \/ UNCHANGED <<rec, log, writer>>
  BY <1>23 DEF FireTimer
<1>24. ASSUME NEW n \in Nodes, NEW c \in Calls, NEW t \in Tasks, Poll(n, c, t)
      PROVE  Writes \/ UNCHANGED <<rec, log, writer>>
  BY <1>24 DEF Poll
<1>25. ASSUME NEW c \in Calls, ExpireLock(c)
      PROVE  Writes \/ UNCHANGED <<rec, log, writer>>
  BY <1>25 DEF ExpireLock
<1>26. ASSUME NEW c \in Calls, Cleanup(c)
      PROVE  Writes \/ UNCHANGED <<rec, log, writer>>
  BY <1>26 DEF Writes
<1>27. ASSUME NEW c \in Calls, GrowOld(c)
      PROVE  Writes \/ UNCHANGED <<rec, log, writer>>
  BY <1>27 DEF GrowOld
<1>28. ASSUME NEW n \in Nodes, Crash(n)
      PROVE  Writes \/ UNCHANGED <<rec, log, writer>>
  BY <1>28 DEF Crash
<1>29. CASE UNCHANGED vars
  BY <1>29 DEF vars
<1>30. QED
  BY <1>1, <1>2, <1>3, <1>4, <1>5, <1>6, <1>7, <1>8, <1>9, <1>10, <1>11, <1>12, <1>13, <1>14, <1>15, <1>16, <1>17, <1>18, <1>19, <1>20, <1>21, <1>22, <1>23, <1>24, <1>25, <1>26, <1>27, <1>28, <1>29 DEF Next, Step, ClientEvent, Fire, PollSome

LEMMA GrowStep ==
  ASSUME IInv, [Next]_vars
  PROVE  Grows
<1> /\ TypeOK /\ Written
    /\ \A t \in Tasks : Shape(task[t]) /\ Derived(task[t])
  BY DEF IInv
<1>1. CASE UNCHANGED <<rec, log, writer>>
  BY <1>1 DEF Grows, Exists
<1>2. ASSUME NEW t \in Tasks, CreateRecord(t)
      PROVE  Grows
  BY <1>2 DEF Grows, Exists, CreateRecord, TypeOK, Written, Ended, Terminal
<1>3. ASSUME NEW t \in Tasks, GlareWrite(t)
      PROVE  Grows
  BY <1>3 DEF Grows, Exists, GlareWrite, TypeOK, Record
<1>4. ASSUME NEW t \in Tasks, WriteAnswer(t)
      PROVE  Grows
  BY <1>4 DEF Grows, Exists, WriteAnswer, TypeOK, Record
<1>5. ASSUME NEW t \in Tasks, Finalize(t)
      PROVE  Grows
  <2>1. task[t].status # "none"
    BY <1>5, StatusNames DEF Finalize, At, Derived, Terminal
  <2>2. CASE Finalizable(t)
    <3>1. /\ rec' = [rec EXCEPT ![task[t].call].status = task[t].status]
          /\ writer' = [writer EXCEPT ![task[t].call] = PathOf(task[t].op)]
      BY <1>5, <2>2 DEF Finalize
    <3>2. task[t].call \in Calls /\ ~Ended(task[t].call)
      BY <1>5, <2>2 DEF Finalize, At, Shape, Exists, Finalizable, Pending, Ended, Terminal
    <3>3. QED
      BY <2>1, <3>1, <3>2 DEF Grows, Exists, TypeOK, Record, Written
  <2>3. CASE ~Finalizable(t)
    BY <1>5, <2>3 DEF Finalize, Grows, Exists
  <2>4. QED
    BY <2>2, <2>3
<1>6. ASSUME NEW t \in Tasks, WriteLog(t)
      PROVE  Grows
  BY <1>6 DEF Grows, Exists, WriteLog
<1>7. ASSUME NEW c \in Calls, Cleanup(c)
      PROVE  Grows
  BY <1>7 DEF Grows, Exists, Cleanup, TypeOK, Record, Written, Ended, Pending, Terminal
<1>8. QED
  BY <1>1, <1>2, <1>3, <1>4, <1>5, <1>6, <1>7, OnlyWrites DEF Writes

-----------------------------------------------------------------------------
(* References and handlers in flight *)

(* No step leaves a reference to a record that does not exist.             *)
LEMMA RefsStep ==
  ASSUME IInv, [Next]_vars
  PROVE  Refs'
<1> USE DEF mongo, redis, replica, client
<1> /\ TypeOK /\ Refs
    /\ \A t \in Tasks : Shape(task[t])
  BY DEF IInv
<1> \A c : Exists(c) => Exists(c)'
  BY GrowStep DEF Grows, Exists
<1>1. ASSUME NEW s \in Sockets, NEW a \in Attempts, NEW t \in Tasks, InitCall(s, a, t)
      PROVE  Refs'
  BY <1>1, Shape(task[t]) DEF TypeOK, Refs, Shape, At, InitCall
<1>2. ASSUME NEW s \in Sockets, NEW a \in Attempts, NEW t \in Tasks, CallUser(s, a, t)
      PROVE  Refs'
  BY <1>2, Shape(task[t]) DEF TypeOK, Refs, Shape, At, CallUser
<1>3. ASSUME NEW t \in Tasks, Resolve(t)
      PROVE  Refs'
  BY <1>3, Shape(task[t]) DEF TypeOK, Refs, Shape, At, Resolve
<1>4. ASSUME NEW t \in Tasks, CreateRecord(t)
      PROVE  Refs'
  BY <1>4, Shape(task[t]) DEF TypeOK, Refs, Shape, At, CreateRecord
<1>5. ASSUME NEW t \in Tasks, MapTempId(t)
      PROVE  Refs'
  <2>1. task[t].att \in Attempts /\ task[t].node \in Nodes /\ Exists(task[t].call)
    BY <1>5 DEF Shape, At, MapTempId
  <2>2. CASE UNCHANGED <<localTemp, tempMap>>
    BY <1>5, <2>2 DEF TypeOK, Refs, MapTempId
  <2>3. CASE /\ localTemp' = [localTemp EXCEPT ![task[t].node][task[t].att] = task[t].call]
             /\ tempMap' = [tempMap EXCEPT ![task[t].att] = task[t].call]
    <3>1. \A n \in Nodes, a \in Attempts :
            localTemp'[n][a] \in {localTemp[n][a], task[t].call}
      BY <2>1, <2>3 DEF TypeOK
    <3>2. \A a \in Attempts : tempMap'[a] \in {tempMap[a], task[t].call}
      BY <2>1, <2>3 DEF TypeOK
    <3>3. QED
      BY <1>5, <2>1, <3>1, <3>2 DEF TypeOK, Refs, MapTempId
  <2>4. QED
    BY <1>5, <2>2, <2>3 DEF MapTempId
<1>6. ASSUME NEW t \in Tasks, BindCaller(t)
      PROVE  Refs'
  BY <1>6, Shape(task[t]) DEF TypeOK, Refs, Shape, At, BindCaller
<1>7. ASSUME NEW t \in Tasks, DetectGlare(t)
      PROVE  Refs'
  BY <1>7, Shape(task[t]) DEF TypeOK, Refs, Shape, At, DetectGlare
<1>8. ASSUME NEW t \in Tasks, RankGlare(t)
      PROVE  Refs'
  BY <1>8, Shape(task[t]) DEF TypeOK, Refs, Shape, At, RankGlare, ClearTimer
<1>9. ASSUME NEW t \in Tasks, GlareWrite(t)
      PROVE  Refs'
  BY <1>9, Shape(task[t]) DEF TypeOK, Refs, Shape, At, GlareWrite
<1>10. ASSUME NEW t \in Tasks, ArmDue(t)
      PROVE  Refs'
  BY <1>10, Shape(task[t]) DEF TypeOK, Refs, Shape, At, ArmDue
<1>11. ASSUME NEW t \in Tasks, StartTimer(t)
      PROVE  Refs'
  BY <1>11, Shape(task[t]) DEF TypeOK, Refs, Shape, At, StartTimer
<1>12. ASSUME NEW s \in Sockets, NEW c \in Calls, NEW t \in Tasks, AnswerCall(s, c, t)
      PROVE  Refs'
  BY <1>12, Shape(task[t]) DEF TypeOK, Refs, Shape, At, AnswerCall
<1>13. ASSUME NEW t \in Tasks, BindCallee(t)
      PROVE  Refs'
  BY <1>13, Shape(task[t]) DEF TypeOK, Refs, Shape, At, BindCallee, ClearTimer
<1>14. ASSUME NEW t \in Tasks, WriteAnswer(t)
      PROVE  Refs'
  BY <1>14, Shape(task[t]) DEF TypeOK, Refs, Shape, At, WriteAnswer
<1>15. ASSUME NEW s \in Sockets, NEW t \in Tasks, RejectCall(s, t)
      PROVE  Refs'
  <2>1. \A n \in Nodes, a \in Attempts : localTemp'[n][a] \in {localTemp[n][a], None}
    <3>1. \/ localTemp' = localTemp
          \/ \E a \in Attempts : localTemp' = [localTemp EXCEPT ![Home[s]][a] = None]
      BY <1>15 DEF RejectCall
    <3>2. \A a \in Attempts : localTemp' = [localTemp EXCEPT ![Home[s]][a] = None] =>
            \A n \in Nodes, b \in Attempts : localTemp'[n][b] \in {localTemp[n][b], None}
      BY SocketAssumption DEF TypeOK
    <3>3. QED
      BY <3>1, <3>2
  <2>2. PICK reason, c : Hangup(s, "reject", reason, c, t)
    BY <1>15 DEF RejectCall
  <2>3. /\ timers' \subseteq timers
        /\ bind' = [bind EXCEPT ![s] = None]
        /\ UNCHANGED <<due, tempMap, sockBind, offered, accepted, known>>
    BY <2>2 DEF Hangup, ClearTimer
  <2>4. QED
    BY <2>1, <2>3 DEF TypeOK, Refs
<1>16. ASSUME NEW s \in Sockets, NEW t \in Tasks, EndCall(s, t)
      PROVE  Refs'
  BY <1>16, Shape(task[t]) DEF TypeOK, Refs, Shape, At, EndCall, Hangup, ClearTimer
<1>17. ASSUME NEW t \in Tasks, SearchCall(t)
      PROVE  Refs'
  BY <1>17, Shape(task[t]) DEF TypeOK, Refs, Shape, At, SearchCall, ClearTimer
<1>18. ASSUME NEW t \in Tasks, RemoveDue(t)
      PROVE  Refs'
  BY <1>18, Shape(task[t]) DEF TypeOK, Refs, Shape, At, RemoveDue
<1>19. ASSUME NEW t \in Tasks, ReadCall(t)
      PROVE  Refs'
  BY <1>19, Shape(task[t]) DEF TypeOK, Refs, Shape, At, ReadCall, ClearTimer
<1>20. ASSUME NEW t \in Tasks, Finalize(t)
      PROVE  Refs'
  BY <1>20, Shape(task[t]) DEF TypeOK, Refs, Shape, At, Finalize
<1>21. ASSUME NEW t \in Tasks, WriteLog(t)
      PROVE  Refs'
  BY <1>21, Shape(task[t]) DEF TypeOK, Refs, Shape, At, WriteLog
<1>22. ASSUME NEW s \in Sockets, NEW t \in Tasks, Disconnect(s, t)
      PROVE  Refs'
  BY <1>22, Shape(task[t]) DEF TypeOK, Refs, Shape, At, Disconnect
<1>23. ASSUME NEW tm \in timers, NEW t \in Tasks, FireTimer(tm, t)
      PROVE  Refs'
  BY <1>23, Shape(task[t]) DEF TypeOK, Refs, Shape, At, FireTimer
<1>24. ASSUME NEW n \in Nodes, NEW c \in Calls, NEW t \in Tasks, Poll(n, c, t)
      PROVE  Refs'
  BY <1>24, Shape(task[t]) DEF TypeOK, Refs, Shape, At, Poll
<1>25. ASSUME NEW c \in Calls, ExpireLock(c)
      PROVE  Refs'
  BY <1>25 DEF TypeOK, Refs, ExpireLock
<1>26. ASSUME NEW c \in Calls, Cleanup(c)
      PROVE  Refs'
  BY <1>26 DEF TypeOK, Refs, Cleanup
<1>27. ASSUME NEW c \in Calls, GrowOld(c)
      PROVE  Refs'
  BY <1>27 DEF TypeOK, Refs, GrowOld
<1>28. ASSUME NEW n \in Nodes, Crash(n)
      PROVE  Refs'
  BY <1>28 DEF TypeOK, Refs, Crash
<1>29. CASE UNCHANGED vars
  BY <1>29 DEF TypeOK, Refs, vars
<1>30. QED
  BY <1>1, <1>2, <1>3, <1>4, <1>5, <1>6, <1>7, <1>8, <1>9, <1>10, <1>11, <1>12, <1>13, <1>14, <1>15, <1>16, <1>17, <1>18, <1>19, <1>20, <1>21, <1>22, <1>23, <1>24, <1>25, <1>26, <1>27, <1>28, <1>29 DEF Next, Step, ClientEvent, Fire, PollSome

(* A handler that takes no part in a step keeps what it knows.             *)
LEMMA Frame ==
  ASSUME IInv, Grows, NEW u \in Tasks, task'[u] = task[u]
  PROVE  Shape(task[u])' /\ Derived(task[u])'
<1>1. Shape(task[u]) /\ Derived(task[u]) /\ Written /\ TypeOK
  BY DEF IInv
<1>2. Shape(task[u])'
  BY <1>1 DEF Shape, Grows, Exists
<1>3. PathOf(task[u].op) \notin {"none", "glare"}
  BY DEF PathOf
<1>4. Derived(task[u])'
  BY <1>1, <1>3 DEF Shape, Derived, Grows, Exists, PathOf, Terminal
<1>5. QED
  BY <1>2, <1>4

(* Only the handler t moves, and it knows what its next pc needs.          *)
Moves(t) ==
  /\ \A u \in Tasks \ {t} : task'[u] = task[u]
  /\ Shape(task[t])' /\ Derived(task[t])'

LEMMA NoneIsNew == None \notin Op /\ None \notin Pc /\ None \notin Reason
  BY NameAssumption

(* A handler that is done knows nothing any more.                          *)
LEMMA IdleKnows == Shape(Idle) /\ Derived(Idle)
  BY NoneIsNew DEF Shape, Derived, Idle, Op, Terminal

LEMMA IdleKnowsNext == Shape(Idle)' /\ Derived(Idle)'
  BY NoneIsNew DEF Shape, Derived, Idle, Op, Terminal

LEMMA DoneMoves ==
  ASSUME task \in [Tasks -> Task], NEW t \in Tasks, Done(t)
  PROVE  Moves(t)
<1>1. task'[t] = Idle /\ \A u \in Tasks \ {t} : task'[u] = task[u]
  BY DEF Done
<1>2. QED
  BY <1>1, IdleKnowsNext DEF Moves

(* Handler t only changes its pc, or its pc and its call.                  *)
Keeps(t) ==
  /\ \A u \in Tasks \ {t} : task'[u] = task[u]
  /\ task'[t].op = task[t].op /\ task'[t].node = task[t].node /\ task'[t].sock = task[t].sock
  /\ task'[t].att = task[t].att /\ task'[t].reason = task[t].reason
  /\ task'[t].status = task[t].status /\ task'[t].sawAnswer = task[t].sawAnswer

LEMMA GotoKeeps ==
  ASSUME task \in [Tasks -> Task], NEW t \in Tasks, NEW pc, Goto(t, pc)
  PROVE  /\ Keeps(t) /\ task'[t].pc = pc
         /\ task'[t].call = task[t].call /\ task'[t].reverse = task[t].reverse
  BY DEF Goto, Keeps, Task

LEMMA AimKeeps ==
  ASSUME task \in [Tasks -> Task], NEW t \in Tasks, NEW c, NEW pc, Aim(t, c, pc)
  PROVE  /\ Keeps(t) /\ task'[t].pc = pc
         /\ task'[t].call = c /\ task'[t].reverse = task[t].reverse
  BY DEF Aim, Keeps, Task

LEMMA TaskStep ==
  ASSUME IInv, [Next]_vars
  PROVE  \A u \in Tasks : Shape(task[u])' /\ Derived(task[u])'
<1> USE DEF mongo, redis, replica, client
<1> /\ TypeOK /\ Refs /\ Written /\ task \in [Tasks -> Task] /\ Grows
    /\ \A t \in Tasks : Shape(task[t]) /\ Derived(task[t])
  BY GrowStep DEF IInv, TypeOK
<1> \A c : Exists(c) => Exists(c)'
  BY DEF Grows, Exists
<1>1. ASSUME NEW s \in Sockets, NEW a \in Attempts, NEW t \in Tasks, InitCall(s, a, t)
      PROVE  Moves(t)
  <2> DEFINE k == [Handler("init", "create", s) EXCEPT !.att = a]
  <2>1. Shape(k)' /\ Derived(k)'
    BY <1>1, SocketAssumption, NoneIsNew DEF InitCall, Shape, Derived, Handler, Idle, Op, Pc, Terminal, Exists, Grows
  <2>2. QED
    BY <1>1, <2>1 DEF InitCall, Moves, Spawn
<1>2. ASSUME NEW s \in Sockets, NEW a \in Attempts, NEW t \in Tasks, CallUser(s, a, t)
      PROVE  Moves(t)
  <2> DEFINE k == [Handler("callUser", "resolve", s) EXCEPT !.att = a]
  <2>1. Shape(k)' /\ Derived(k)'
    BY <1>2, SocketAssumption, NoneIsNew DEF CallUser, Shape, Derived, Handler, Idle, Op, Pc, Terminal, Exists, Grows
  <2>2. QED
    BY <1>2, <2>1 DEF CallUser, Moves, Spawn
<1>3. ASSUME NEW t \in Tasks, Resolve(t)
      PROVE  Moves(t)
  <2>1. ASSUME NEW c, Exists(c), Aim(t, c, "bind")
        PROVE  Moves(t)
    <3>1. task[t].pc = "resolve" /\ UNCHANGED <<rec, writer>>
      BY <1>3 DEF Resolve, At
    <3>2. Keeps(t) /\ task'[t].pc = "bind" /\ task'[t].call = c /\ task'[t].reverse = task[t].reverse
      BY <2>1, AimKeeps
    <3>3. Exists(c)'
      BY <2>1
    <3>4. QED
      BY <3>1, <3>2, <3>3 DEF Keeps, Moves, Shape, Derived
  <2>2. CASE Goto(t, "create")
    <3>1. task[t].pc = "resolve" /\ UNCHANGED <<rec, writer>>
      BY <1>3 DEF Resolve, At
    <3>2. QED
      BY <2>2, <3>1, GotoKeeps DEF Keeps, Moves, Shape, Derived
  <2>3. Goto(t, "create") \/ \E c : Exists(c) /\ Aim(t, c, "bind")
    BY <1>3 DEF Resolve, At, Shape, Refs, TypeOK, RecentOfPair, Pending, Exists
  <2>4. QED
    BY <2>1, <2>2, <2>3
<1>4. ASSUME NEW t \in Tasks, CreateRecord(t)
      PROVE  Moves(t)
  <2>1. PICK c \in Calls : Aim(t, c, "map") /\ rec'[c].status = "pending"
    BY <1>4 DEF CreateRecord, TypeOK
  <2>2. Exists(c)'
    BY <2>1 DEF Exists
  <2>3. QED
    BY <1>4, <2>1, <2>2, AimKeeps DEF CreateRecord, At, Keeps, Moves, Shape, Derived
<1>5. ASSUME NEW t \in Tasks, MapTempId(t)
      PROVE  Moves(t)
  BY <1>5, Shape(task[t]), Derived(task[t]) DEF Moves, Shape, Derived, Exists, At, Goto, Done, Aim, Spawn, Idle, Task, Terminal, MapTempId
<1>6. ASSUME NEW t \in Tasks, BindCaller(t)
      PROVE  Moves(t)
  BY <1>6, Shape(task[t]), Derived(task[t]) DEF Moves, Shape, Derived, Exists, At, Goto, Done, Aim, Spawn, Idle, Task, Terminal, BindCaller
<1>7. ASSUME NEW t \in Tasks, DetectGlare(t)
      PROVE  Moves(t)
  <2>0. task[t].pc = "glare" /\ UNCHANGED <<rec, writer>>
    BY <1>7 DEF DetectGlare, At
  <2>1. CASE Goto(t, "arm")
    BY <2>0, <2>1, GotoKeeps DEF Keeps, Moves, Shape, Derived
  <2>2. ASSUME NEW r \in Reverse(task[t].att),
               task' = [task EXCEPT ![t] = [@ EXCEPT !.reverse = r, !.pc = "rank"]]
        PROVE  Moves(t)
    <3>1. Exists(r)'
      BY DEF Reverse, Pending, Exists
    <3>2. Keeps(t) /\ task'[t].pc = "rank" /\ task'[t].reverse = r /\ task'[t].call = task[t].call
      BY <2>2 DEF Keeps, Task
    <3>3. QED
      BY <2>0, <3>1, <3>2 DEF Keeps, Moves, Shape, Derived
  <2>3. QED
    BY <1>7, <2>1, <2>2 DEF DetectGlare
<1>8. ASSUME NEW t \in Tasks, RankGlare(t)
      PROVE  Moves(t)
  <2>1. PICK c \in {task[t].call, task[t].reverse}, won \in BOOLEAN :
          task' = [task EXCEPT ![t] = [@ EXCEPT !.reverse = c, !.won = won, !.pc = "undue"]]
    BY <1>8 DEF RankGlare
  <2>2. QED
    BY <1>8, <2>1 DEF RankGlare, At, Moves, Shape, Derived, Task, Exists
<1>9. ASSUME NEW t \in Tasks, GlareWrite(t)
      PROVE  Moves(t)
  BY <1>9, DoneMoves DEF GlareWrite
<1>10. ASSUME NEW t \in Tasks, ArmDue(t)
      PROVE  Moves(t)
  BY <1>10, Shape(task[t]), Derived(task[t]) DEF Moves, Shape, Derived, Exists, At, Goto, Done, Aim, Spawn, Idle, Task, Terminal, ArmDue
<1>11. ASSUME NEW t \in Tasks, StartTimer(t)
      PROVE  Moves(t)
  BY <1>11, DoneMoves DEF StartTimer
<1>12. ASSUME NEW s \in Sockets, NEW c \in Calls, NEW t \in Tasks, AnswerCall(s, c, t)
      PROVE  Moves(t)
  <2> DEFINE k == [Handler("answer", "bind", s) EXCEPT !.call = c]
  <2>1. Shape(k)' /\ Derived(k)'
    BY <1>12, SocketAssumption, NoneIsNew DEF AnswerCall, Shape, Derived, Handler, Idle, Op, Pc, Terminal, Exists, Grows, Refs
  <2>2. QED
    BY <1>12, <2>1 DEF AnswerCall, Moves, Spawn
<1>13. ASSUME NEW t \in Tasks, BindCallee(t)
      PROVE  Moves(t)
  BY <1>13, Shape(task[t]), Derived(task[t]) DEF Moves, Shape, Derived, Exists, At, Goto, Done, Aim, Spawn, Idle, Task, Terminal, BindCallee
<1>14. ASSUME NEW t \in Tasks, WriteAnswer(t)
      PROVE  Moves(t)
  BY <1>14, DoneMoves DEF WriteAnswer
<1>15. ASSUME NEW s \in Sockets, NEW t \in Tasks, RejectCall(s, t)
      PROVE  Moves(t)
  <2> DEFINE h(reason) == [Handler("reject", "undue", s) EXCEPT !.reason = reason]
  <2>1. \A reason \in Reason : \A c : Exists(c) =>
          Shape([h(reason) EXCEPT !.call = c])' /\ Derived([h(reason) EXCEPT !.call = c])'
    BY SocketAssumption, NoneIsNew DEF Shape, Derived, Handler, Idle, Op, Pc, Terminal
  <2>2. \A reason \in Reason :
          Shape([h(reason) EXCEPT !.pc = "search"])' /\ Derived([h(reason) EXCEPT !.pc = "search"])'
    BY SocketAssumption, NoneIsNew DEF Shape, Derived, Handler, Idle, Op, Pc, Terminal
  <2>3. PICK reason \in Reason, c \in Calls \cup {None} : (c # None => Exists(c)) /\ Hangup(s, "reject", reason, c, t)
    BY <1>15, SocketAssumption DEF RejectCall, Refs, TypeOK, Exists, Reason, Record, NoRecord
  <2>4. Spawn(t, [h(reason) EXCEPT !.pc = "search"]) \/ (c # None /\ Spawn(t, [h(reason) EXCEPT !.call = c]))
    BY <2>3 DEF Hangup
  <2> HIDE DEF h
  <2>5. QED
    BY <2>1, <2>2, <2>3, <2>4 DEF Spawn, Moves
<1>16. ASSUME NEW s \in Sockets, NEW t \in Tasks, EndCall(s, t)
      PROVE  Moves(t)
  <2> DEFINE h(reason) == [Handler("end", "undue", s) EXCEPT !.reason = reason]
  <2>1. \A reason \in {None} : \A c : Exists(c) =>
          Shape([h(reason) EXCEPT !.call = c])' /\ Derived([h(reason) EXCEPT !.call = c])'
    BY SocketAssumption, NoneIsNew DEF Shape, Derived, Handler, Idle, Op, Pc, Terminal
  <2>2. \A reason \in {None} :
          Shape([h(reason) EXCEPT !.pc = "search"])' /\ Derived([h(reason) EXCEPT !.pc = "search"])'
    BY SocketAssumption, NoneIsNew DEF Shape, Derived, Handler, Idle, Op, Pc, Terminal
  <2>3. PICK reason \in {None}, c \in Calls \cup {None} : (c # None => Exists(c)) /\ Hangup(s, "end", reason, c, t)
    BY <1>16, SocketAssumption DEF EndCall, Refs, TypeOK, Exists, Reason, Record, NoRecord
  <2>4. Spawn(t, [h(reason) EXCEPT !.pc = "search"]) \/ (c # None /\ Spawn(t, [h(reason) EXCEPT !.call = c]))
    BY <2>3 DEF Hangup
  <2> HIDE DEF h
  <2>5. QED
    BY <2>1, <2>2, <2>3, <2>4 DEF Spawn, Moves
<1>17. ASSUME NEW t \in Tasks, SearchCall(t)
      PROVE  Moves(t)
  <2>1. CASE Done(t)
    BY <2>1, DoneMoves
  <2>2. ASSUME NEW c, Exists(c), Aim(t, c, "undue")
        PROVE  Moves(t)
    BY <1>17, <2>2, AimKeeps DEF SearchCall, At, Keeps, Moves, Shape, Derived
  <2>3. QED
    BY <1>17, <2>1, <2>2 DEF SearchCall, Pending, Exists
<1>18. ASSUME NEW t \in Tasks, RemoveDue(t)
      PROVE  Moves(t)
  <2>1. CASE Done(t)
    BY <2>1, DoneMoves
  <2>2. PICK pc \in {"glareWrite", "answer", "read", "finalize"} :
          ~Done(t) => /\ Goto(t, pc)
                      /\ pc = "glareWrite" => task[t].op = "callUser"
                      /\ pc = "answer" => task[t].op = "answer"
                      /\ pc = "read" => task[t].op \in {"reject", "end"}
                      /\ pc = "finalize" => task[t].op = "disconnect"
    BY <1>18 DEF RemoveDue
  <2>3. QED
    BY <1>18, <2>1, <2>2 DEF RemoveDue, At, Goto, Moves, Shape, Derived, Task, Exists
<1>19. ASSUME NEW t \in Tasks, ReadCall(t)
      PROVE  Moves(t)
  <2>1. CASE Done(t)
    BY <2>1, DoneMoves
  <2> DEFINE answered == rec[task[t].call].answered # "no"
             st == StatusFor(task[t].op, task[t].reason, answered)
             pc == IF task[t].op = "disconnect" THEN "undue" ELSE "finalize"
  <2>2. CASE task' = [task EXCEPT ![t] = [@ EXCEPT !.pc = pc, !.status = st, !.sawAnswer = answered]]
    <3>1. /\ st \in Terminal \ {"unreachable"}
          /\ task[t].op = "disconnect" => st = IF answered THEN "completed" ELSE "rejected"
          /\ task[t].op \in {"reject", "end"} /\ st = "completed" => answered
      BY <1>19 DEF ReadCall, At, Shape, StatusFor, Terminal, Reason
    <3>2. /\ \A u \in Tasks \ {t} : task'[u] = task[u]
          /\ task'[t].op = task[t].op /\ task'[t].node = task[t].node
          /\ task'[t].sock = task[t].sock /\ task'[t].att = task[t].att
          /\ task'[t].reason = task[t].reason /\ task'[t].call = task[t].call
          /\ task'[t].pc = pc /\ task'[t].status = st /\ task'[t].sawAnswer = answered
      BY <2>2 DEF Task
    <3>3. rec' = rec /\ Exists(task[t].call) /\ task[t].op \in {"reject", "end", "disconnect"}
      BY <1>19 DEF ReadCall, At, Shape
    <3> HIDE DEF st, answered
    <3>4. Shape(task[t])'
      BY <3>2, <3>3, NoneIsNew DEF Shape, Op
    <3>5. Derived(task[t])'
      BY <3>1, <3>2, <3>3 DEF Derived, Exists, answered
    <3>6. QED
      BY <3>2, <3>4, <3>5 DEF Moves
  <2>3. QED
    BY <1>19, <2>1, <2>2 DEF ReadCall
<1>20. ASSUME NEW t \in Tasks, Finalize(t)
      PROVE  Moves(t)
  <2>1. CASE Done(t)
    BY <2>1, DoneMoves
  <2>2. CASE Finalizable(t)
    <3>1. /\ rec' = [rec EXCEPT ![task[t].call].status = task[t].status]
          /\ writer' = [writer EXCEPT ![task[t].call] = PathOf(task[t].op)]
          /\ Goto(t, "log")
      BY <1>20, <2>2 DEF Finalize
    <3>2. task[t].call \in Calls
      BY <1>20 DEF Finalize, At, Shape, Exists
    <3>3. /\ rec'[task[t].call].status = task[t].status
          /\ writer'[task[t].call] = PathOf(task[t].op)
          /\ rec'[task[t].call].answered = rec[task[t].call].answered
      BY <3>1, <3>2 DEF TypeOK, Record
    <3>4. QED
      BY <1>20, <3>1, <3>3, GotoKeeps DEF Finalize, At, Keeps, Moves, Shape, Derived
  <2>3. CASE ~Finalizable(t) /\ ~Done(t)
    <3>1. Goto(t, "undue") /\ task[t].op \in {"timeout", "poll"} /\ task[t].pc = "finalize"
      BY <1>20, <2>3 DEF Finalize, At
    <3>2. QED
      BY <3>1, GotoKeeps DEF Keeps, Moves, Shape, Derived, Grows
  <2>4. QED
    BY <2>1, <2>2, <2>3
<1>21. ASSUME NEW t \in Tasks, WriteLog(t)
      PROVE  Moves(t)
  <2>1. CASE Done(t)
    BY <2>1, DoneMoves
  <2>2. CASE ~Done(t)
    <3>1. Goto(t, "undue") /\ task[t].op \in {"timeout", "poll"} /\ task[t].pc = "log"
      BY <1>21, <2>2 DEF WriteLog, At
    <3>2. QED
      BY <3>1, GotoKeeps DEF Keeps, Moves, Shape, Derived, Grows
  <2>3. QED
    BY <2>1, <2>2
<1>22. ASSUME NEW s \in Sockets, NEW t \in Tasks, Disconnect(s, t)
      PROVE  Moves(t)
  <2>1. \A c : Exists(c) => LET k == [Handler("disconnect", "read", s) EXCEPT !.call = c]
                            IN  Shape(k)' /\ Derived(k)'
    BY SocketAssumption, NoneIsNew DEF Shape, Derived, Handler, Idle, Op, Pc, Terminal
  <2>2. CASE task' = task
    BY <1>22, <2>2, IdleKnowsNext DEF Disconnect, Moves
  <2>3. CASE task' # task
    <3>1. PICK c : Exists(c) /\ Spawn(t, [Handler("disconnect", "read", s) EXCEPT !.call = c])
      BY <1>22, <2>3 DEF Disconnect, Refs
    <3>2. QED
      BY <2>1, <3>1 DEF Spawn, Moves
  <2>4. QED
    BY <2>2, <2>3
<1>23. ASSUME NEW tm \in timers, NEW t \in Tasks, FireTimer(tm, t)
      PROVE  Moves(t)
  <2> DEFINE k == Timeout("timeout", tm.node, tm.call)
  <2>1. Shape(k)' /\ Derived(k)'
    BY <1>23, NoneIsNew DEF FireTimer, Shape, Derived, Timeout, Idle, Op, Pc, Terminal, Exists, Grows, Refs, TypeOK, Timer
  <2>2. QED
    BY <1>23, <2>1 DEF FireTimer, Moves, Spawn
<1>24. ASSUME NEW n \in Nodes, NEW c \in Calls, NEW t \in Tasks, Poll(n, c, t)
      PROVE  Moves(t)
  <2> DEFINE k == Timeout("poll", n, c)
  <2>1. Shape(k)' /\ Derived(k)'
    BY <1>24, NoneIsNew DEF Poll, Shape, Derived, Timeout, Idle, Op, Pc, Terminal, Exists, Grows, Refs, TypeOK, Timer
  <2>2. QED
    BY <1>24, <2>1 DEF Poll, Moves, Spawn
<1>25. ASSUME NEW c \in Calls, ExpireLock(c)
      PROVE  task' = task
  BY <1>25 DEF ExpireLock
<1>26. ASSUME NEW c \in Calls, Cleanup(c)
      PROVE  task' = task
  BY <1>26 DEF Cleanup
<1>27. ASSUME NEW c \in Calls, GrowOld(c)
      PROVE  task' = task
  BY <1>27 DEF GrowOld
<1>28. ASSUME NEW n \in Nodes, Crash(n), NEW u \in Tasks
      PROVE  Shape(task[u])' /\ Derived(task[u])'
  <2>1. CASE task[u].node = n
    BY <1>28, <2>1, IdleKnowsNext DEF Crash
  <2>2. CASE task[u].node # n
    BY <1>28, <2>2, Frame DEF Crash
  <2>3. QED
    BY <2>1, <2>2
<1>29. CASE UNCHANGED vars
  BY <1>29, Frame DEF vars
<1>30. ASSUME NEW t \in Tasks, Moves(t)
      PROVE  \A u \in Tasks : Shape(task[u])' /\ Derived(task[u])'
  BY <1>30, Frame DEF Moves
<1>31. ASSUME task' = task
      PROVE  \A u \in Tasks : Shape(task[u])' /\ Derived(task[u])'
  BY <1>31, Frame
<1>32. QED
  BY <1>1, <1>2, <1>3, <1>4, <1>5, <1>6, <1>7, <1>8, <1>9, <1>10, <1>11, <1>12, <1>13, <1>14, <1>15, <1>16, <1>17, <1>18, <1>19, <1>20, <1>21, <1>22, <1>23, <1>24, <1>25, <1>26, <1>27, <1>28, <1>29, <1>30, <1>31 DEF Next, Step, ClientEvent, Fire, PollSome

-----------------------------------------------------------------------------
(* The outcome of a call *)

(* What every write leaves in the stores.                                  *)
Stored == Written /\ HonestOutcome /\ LogAgrees

LEMMA StoreStep ==
  ASSUME IInv, [Next]_vars
  PROVE  Stored'
<1> /\ TypeOK /\ Written /\ HonestOutcome /\ LogAgrees
    /\ \A t \in Tasks : Shape(task[t]) /\ Derived(task[t])
  BY DEF IInv
<1> USE DEF Stored, mongo, redis, replica, client
<1>1. CASE UNCHANGED <<rec, log, writer>>
  BY <1>1 DEF Written, HonestOutcome, LogAgrees, Ended, Pending
<1>2. ASSUME NEW t \in Tasks, CreateRecord(t)
      PROVE  Stored'
  <2>1. PICK c \in Calls : /\ ~Ended(c) /\ ~Pending(c)
                           /\ rec'[c].status = "pending" /\ rec'[c].answered = "no"
                           /\ \A d \in Calls \ {c} : rec'[d] = rec[d]
    BY <1>2 DEF CreateRecord, TypeOK, Ended, Pending, Terminal
  <2>2. UNCHANGED <<log, writer>>
    BY <1>2 DEF CreateRecord
  <2>3. QED
    BY <2>1, <2>2 DEF Written, HonestOutcome, LogAgrees, Ended, Pending, Terminal
<1>3. ASSUME NEW t \in Tasks, GlareWrite(t)
      PROVE  Stored'
  <2>1. task[t].reverse \in Calls
    BY <1>3 DEF GlareWrite, At, Shape, Exists
  <2>2. QED
    BY <1>3, <2>1 DEF GlareWrite, TypeOK, Record, Written, HonestOutcome, LogAgrees, Ended, Pending, Terminal
<1>4. ASSUME NEW t \in Tasks, WriteAnswer(t)
      PROVE  Stored'
  <2>1. task[t].call \in Calls
    BY <1>4 DEF WriteAnswer, At, Shape, Exists
  <2>2. \A c \in Calls : rec'[c].status = rec[c].status
    BY <1>4, <2>1 DEF WriteAnswer, TypeOK, Record
  <2>3. \A c \in Calls : \/ rec'[c].answered = rec[c].answered
                         \/ /\ rec[c].answered = "no"
                            /\ rec'[c].answered = IF Ended(c) THEN "late" ELSE "yes"
    BY <1>4, <2>1 DEF WriteAnswer, TypeOK, Record
  <2>4. UNCHANGED <<log, writer>>
    BY <1>4 DEF WriteAnswer
  <2>5. QED
    BY <2>2, <2>3, <2>4 DEF Written, HonestOutcome, LogAgrees, Ended, Pending, Terminal
<1>5. ASSUME NEW t \in Tasks, Finalize(t)
      PROVE  Stored'
  <2>1. CASE Finalizable(t)
    <3> DEFINE c == task[t].call
    <3>1. c \in Calls /\ task[t].status \in Terminal
      BY <1>5 DEF Finalize, At, Shape, Exists, Derived
    <3>2. /\ rec' = [rec EXCEPT ![c].status = task[t].status]
          /\ writer' = [writer EXCEPT ![c] = PathOf(task[t].op)]
          /\ log' = log
      BY <1>5, <2>1 DEF Finalize
    <3>3. /\ rec'[c].status = task[t].status /\ rec'[c].answered = rec[c].answered
          /\ writer'[c] = PathOf(task[t].op)
          /\ \A d \in Calls \ {c} : rec'[d] = rec[d] /\ writer'[d] = writer[d]
      BY <3>1, <3>2 DEF TypeOK, Record
    <3>4. rec[c].answered \in {"no", "yes"} /\ writer[c] = "none" /\ log[c] = None
      BY <2>1, <3>1 DEF Finalizable, Pending, Written, Ended, Terminal, TypeOK, Record, Answered, LogAgrees
    <3>5. /\ PathOf(task[t].op) = "timeout" => task[t].status = "missed" /\ rec[c].answered = "no"
          /\ PathOf(task[t].op) = "disconnect" =>
               (task[t].status = "completed" <=> rec[c].answered = "yes")
          /\ PathOf(task[t].op) = "user" /\ task[t].status = "completed" => rec[c].answered = "yes"
          /\ PathOf(task[t].op) \in {"user", "disconnect", "timeout"}
      <4>1. task[t].op \in {"reject", "end", "disconnect", "timeout", "poll"}
        BY <1>5 DEF Finalize, At, Shape
      <4>2. RequireUnanswered(t) => rec[c].answered = "no"
        BY <2>1 DEF Finalizable
      <4>3. QED
        BY <1>5, <3>4, <4>1, <4>2 DEF Finalize, At, Derived, PathOf, RequireUnanswered
    <3> HIDE DEF c
    <3>6. QED
      BY <3>1, <3>2, <3>3, <3>4, <3>5 DEF Written, HonestOutcome, LogAgrees, Ended, Pending, Terminal
  <2>2. CASE ~Finalizable(t)
    BY <1>5, <2>2 DEF Finalize, Written, HonestOutcome, LogAgrees, Ended, Pending
  <2>3. QED
    BY <2>1, <2>2
<1>6. ASSUME NEW t \in Tasks, WriteLog(t)
      PROVE  Stored'
  <2>1. task[t].call \in Calls /\ task[t].op \in {"reject", "end", "disconnect", "timeout", "poll"}
    BY <1>6 DEF WriteLog, At, Shape, Exists
  <2>2. \/ writer[task[t].call] = "glare"
        \/ /\ writer[task[t].call] = PathOf(task[t].op)
           /\ rec[task[t].call].status = task[t].status
    BY <1>6 DEF WriteLog, At, Derived
  <2>3. log' = [log EXCEPT ![task[t].call] = task[t].status] /\ UNCHANGED <<rec, writer>>
    BY <1>6 DEF WriteLog
  <2>4. QED
    BY <2>1, <2>2, <2>3 DEF Written, HonestOutcome, LogAgrees, Ended, Pending, PathOf, TypeOK
<1>7. ASSUME NEW c \in Calls, Cleanup(c)
      PROVE  Stored'
  <2>1. /\ rec'[c].status = "unreachable" /\ rec'[c].answered = rec[c].answered
        /\ writer'[c] = "cleanup" /\ log' = log
        /\ \A d \in Calls \ {c} : rec'[d] = rec[d] /\ writer'[d] = writer[d]
    BY <1>7 DEF Cleanup, TypeOK, Record
  <2>2. writer[c] = "none" /\ log[c] = None
    BY <1>7 DEF Cleanup, Pending, Written, Ended, Terminal, LogAgrees
  <2>3. QED
    BY <2>1, <2>2 DEF Written, HonestOutcome, LogAgrees, Ended, Pending, Terminal
<1>8. QED
  BY <1>1, <1>2, <1>3, <1>4, <1>5, <1>6, <1>7, OnlyWrites DEF Writes

-----------------------------------------------------------------------------
(* The theorems *)

LEMMA InitIInv == Init => IInv
<1> SUFFICES ASSUME Init
             PROVE  IInv
  OBVIOUS
<1>1. TypeOK
  BY IdleType, BoundAssumption, StatusNames
     DEF Init, TypeOK, NoRecord, Record, Answered, Path, Fresh, Stale
<1>2. Refs
  BY DEF Init, Refs
<1>3. \A t \in Tasks : Shape(task[t]) /\ Derived(task[t])
  BY IdleKnows DEF Init
<1>4. Written /\ HonestOutcome /\ LogAgrees
  BY DEF Init, Written, HonestOutcome, LogAgrees, NoRecord, Ended, Pending, Terminal
<1>5. QED
  BY <1>1, <1>2, <1>3, <1>4 DEF IInv

LEMMA NextIInv == IInv /\ [Next]_vars => IInv'
  BY TypeStep, RefsStep, TaskStep, StoreStep DEF IInv, Stored

(* The strengthened invariant: every reference is to an existing record,   *)
(* and every handler in flight still knows what its next write relies on.  *)
THEOREM Inductive == Spec => []IInv
  BY InitIInv, NextIInv, PTL DEF Spec

(* Stores, Maps, timers and handlers keep their types.                     *)
THEOREM TypeCorrect == Spec => []TypeOK
<1>1. IInv => TypeOK
  BY DEF IInv
<1>2. QED
  BY <1>1, Inductive, PTL

(* Whichever handlers race on whichever replicas, the status a call ends   *)
(* with fits what happened on it (finalizeCallOnce, deriveStatus).         *)
THEOREM OutcomeIsHonest == Spec => []HonestOutcome
<1>1. IInv => HonestOutcome
  BY DEF IInv
<1>2. QED
  BY <1>1, Inductive, PTL

(* The call log in the chat shows the status of the record, although it is *)
(* written by a later step of the winner (createCallLogMessage).           *)
THEOREM LogIsFaithful == Spec => []LogAgrees
<1>1. IInv => LogAgrees
  BY DEF IInv
<1>2. QED
  BY <1>1, Inductive, PTL

(* A call that has ended keeps its outcome, glare resolution aside.        *)
THEOREM OutcomeIsFinal == Spec => OutcomeStands
<1>1. IInv /\ [Next]_vars =>
        [\A c \in Calls : Ended(c) /\ (rec'[c].status # rec[c].status \/ writer'[c] # writer[c])
                          => writer'[c] = "glare"]_vars
  <2> SUFFICES ASSUME IInv, [Next]_vars, NEW c \in Calls, Ended(c), writer'[c] # "glare"
               PROVE  rec'[c].status = rec[c].status /\ writer'[c] = writer[c]
    OBVIOUS
  <2>1. writer[c] # "none"
    BY DEF IInv, Written
  <2>2. QED
    BY <2>1, GrowStep DEF Grows
<1>2. QED
  BY <1>1, Inductive, PTL DEF Spec, OutcomeStands

-----------------------------------------------------------------------------
(* The timer handles *)

Slot(n, c) == [node |-> n, call |-> c, handle |-> active[n][c]]
Fires(t, n, c) == task[t].op = "timeout" /\ task[t].node = n /\ task[t].call = c

(* A callback keeps its replica and its call until it empties the slot.    *)
LEMMA FiresStep ==
  ASSUME IInv, [Next]_vars, NEW n \in Nodes, NEW c \in Calls, NEW t \in Tasks,
         Fires(t, n, c), active'[n][c] # None
  PROVE  Fires(t, n, c)'
<1> USE DEF mongo, redis, replica, client
<1>0. /\ task \in [Tasks -> Task] /\ active \in [Nodes -> [Calls -> Handle \cup {None}]]
      /\ task[t].pc \in {"finalize", "log", "undue"} /\ task[t] # Idle
      /\ task[t].op = "timeout"
  <2>1. Shape(task[t]) /\ TypeOK /\ task[t].op = "timeout"
    BY DEF IInv, Fires
  <2>2. task[t] # Idle
    BY <2>1, NoneIsNew DEF Idle, Op
  <2>3. task[t].op # None /\ task[t].pc \in Pc
    BY <2>1, NoneIsNew DEF TypeOK, Task, Op
  <2> QED
    BY <2>1, <2>2, <2>3 DEF Shape, TypeOK, Pc
<1>1. CASE task'[t] = task[t]
  BY <1>1 DEF Fires
<1>2. ASSUME NEW u \in Tasks, NEW k, Spawn(u, k)
      PROVE  task'[t] = task[t]
  BY <1>0, <1>2 DEF Spawn
<1>3. ASSUME NEW u \in Tasks, ClientEvent(u)
      PROVE  task'[t] = task[t]
  <2>1. UNCHANGED task \/ \E k : Spawn(u, k)
    BY <1>3 DEF ClientEvent, InitCall, CallUser, AnswerCall, RejectCall, EndCall, Hangup, Disconnect
  <2> QED
    BY <1>2, <2>1
<1>4. ASSUME NEW u \in Tasks, Step(u), u # t
      PROVE  task'[t] = task[t]
  BY <1>0, <1>4
     DEF Step, Resolve, CreateRecord, MapTempId, BindCaller, DetectGlare, RankGlare, GlareWrite,
         ArmDue, StartTimer, BindCallee, WriteAnswer, SearchCall, RemoveDue, ReadCall, Finalize,
         WriteLog, Goto, Aim, Done
<1>5. ASSUME Step(t)
      PROVE  Fires(t, n, c)'
  <2>1. RemoveDue(t) \/ Finalize(t) \/ WriteLog(t)
    BY <1>0, <1>5
       DEF Step, At, Resolve, CreateRecord, MapTempId, BindCaller, DetectGlare, RankGlare,
           GlareWrite, ArmDue, StartTimer, BindCallee, WriteAnswer, SearchCall, ReadCall
  <2>2. ~RemoveDue(t)
    <3> SUFFICES ASSUME RemoveDue(t) PROVE active'[n][c] = None
      OBVIOUS
    <3>1. active' = [active EXCEPT ![n][c] = None]
      BY DEF RemoveDue, Fires
    <3> QED
      BY <1>0, <3>1
  <2>3. Goto(t, "undue") \/ Goto(t, "log")
    BY <1>0, <2>1, <2>2 DEF Finalize, WriteLog
  <2> QED
    BY <1>0, <2>3, GotoKeeps DEF Keeps, Fires
<1>6. ASSUME Fire
      PROVE  task'[t] = task[t]
  BY <1>2, <1>6 DEF Fire, FireTimer
<1>7. ASSUME NEW d \in Calls, PollSome(d) \/ ExpireLock(d) \/ Cleanup(d) \/ GrowOld(d)
      PROVE  task'[t] = task[t]
  BY <1>2, <1>7 DEF PollSome, Poll, ExpireLock, Cleanup, GrowOld
<1>8. ASSUME NEW m \in Nodes, Crash(m)
      PROVE  task'[t] = task[t]
  <2>1. active' = [active EXCEPT ![m] = [d \in Calls |-> None]]
    BY <1>8 DEF Crash
  <2>2. m # n
    BY <1>0, <2>1
  <2> QED
    BY <1>8, <2>2 DEF Crash, Fires
<1>9. CASE UNCHANGED vars
  BY <1>1, <1>9 DEF vars
<1> QED
  BY <1>1, <1>3, <1>4, <1>5, <1>6, <1>7, <1>8, <1>9 DEF Next

(* What a step may do to a slot of the Map: leave it with its timer, start *)
(* a timer for it, or run its timer.                                       *)
SlotKept(n, c) ==
  active'[n][c] # None =>
    \/ Slot(n, c)' \in timers'
    \/ /\ Slot(n, c)' = Slot(n, c)
       /\ Slot(n, c) \in timers => Slot(n, c) \in timers' \/ \E t \in Tasks : Fires(t, n, c)'

LEMMA ClearKeepsSlots ==
  ASSUME TypeOK, NEW m \in Nodes, NEW d \in Calls, ClearTimer(m, d),
         NEW n \in Nodes, NEW c \in Calls
  PROVE  SlotKept(n, c)
<1>1. active \in [Nodes -> [Calls -> Handle \cup {None}]]
  BY DEF TypeOK
<1>2. CASE m = n /\ d = c
  BY <1>1, <1>2 DEF ClearTimer, SlotKept
<1>3. CASE ~(m = n /\ d = c)
  <2>1. active'[n][c] = active[n][c]
    BY <1>1, <1>3 DEF ClearTimer
  <2>2. Slot(n, c) \in timers => Slot(n, c) \in timers'
    BY <1>3 DEF ClearTimer, Slot
  <2> QED
    BY <2>1, <2>2 DEF SlotKept, Slot
<1> QED
  BY <1>2, <1>3

LEMMA SlotStep ==
  ASSUME IInv, [Next]_vars, NEW n \in Nodes, NEW c \in Calls
  PROVE  SlotKept(n, c)
<1> USE DEF mongo, redis, replica, client
<1>0. /\ TypeOK /\ active \in [Nodes -> [Calls -> Handle \cup {None}]]
      /\ \A t \in Tasks : Shape(task[t])
  BY DEF IInv, TypeOK
<1>1. CASE UNCHANGED <<timers, active>>
  BY <1>1 DEF SlotKept, Slot
<1>2. ASSUME NEW m \in Nodes, NEW d \in Calls, ClearTimer(m, d)
      PROVE  SlotKept(n, c)
  BY <1>0, <1>2, ClearKeepsSlots
<1>3. ASSUME NEW t \in Tasks,
             Resolve(t) \/ CreateRecord(t) \/ MapTempId(t) \/ BindCaller(t) \/ DetectGlare(t)
               \/ GlareWrite(t) \/ ArmDue(t) \/ WriteAnswer(t) \/ Finalize(t) \/ WriteLog(t)
      PROVE  UNCHANGED <<timers, active>>
  BY <1>3 DEF Resolve, CreateRecord, MapTempId, BindCaller, DetectGlare, GlareWrite, ArmDue,
              WriteAnswer, Finalize, WriteLog
<1>4. ASSUME NEW t \in Tasks, RankGlare(t)
      PROVE  SlotKept(n, c)
  <2>1. task[t].node \in Nodes /\ task[t].call \in Calls /\ task[t].reverse \in Calls
    BY <1>0, <1>4, NoneIsNew DEF RankGlare, At, Shape, Exists, Op
  <2> QED
    BY <1>2, <1>4, <2>1 DEF RankGlare
<1>5. ASSUME NEW t \in Tasks, StartTimer(t)
      PROVE  SlotKept(n, c)
  <2>1. PICK h : h = <<task[t].att, task[t].op>>
    OBVIOUS
  <2>2. PICK m, d : m = task[t].node /\ d = task[t].call
    OBVIOUS
  <2>3. m \in Nodes /\ d \in Calls
    BY <1>0, <1>5, <2>2, NoneIsNew DEF StartTimer, At, Shape, Exists, Op
  <2>4. /\ timers' = timers \cup {[node |-> m, call |-> d, handle |-> h]}
        /\ active' = [active EXCEPT ![m][d] = h]
    BY <1>5, <2>1, <2>2 DEF StartTimer
  <2>5. CASE m = n /\ d = c
    BY <1>0, <2>3, <2>4, <2>5 DEF SlotKept, Slot
  <2>6. CASE ~(m = n /\ d = c)
    <3>1. active'[n][c] = active[n][c]
      BY <1>0, <2>3, <2>4, <2>6
    <3> QED
      BY <2>4, <3>1 DEF SlotKept, Slot
  <2> QED
    BY <2>5, <2>6
<1>6. ASSUME NEW t \in Tasks, BindCallee(t) \/ SearchCall(t) \/ ReadCall(t)
      PROVE  SlotKept(n, c)
  <2>1. task[t].node \in Nodes
    BY <1>0, <1>6, NoneIsNew DEF BindCallee, SearchCall, ReadCall, At, Shape, Op
  <2>2. task[t].pc \in {"bind", "read"} => task[t].call \in Calls
    BY <1>0 DEF Shape, Exists
  <2>3. UNCHANGED <<timers, active>> \/ \E d \in Calls : ClearTimer(task[t].node, d)
    BY <1>6, <2>2 DEF BindCallee, SearchCall, ReadCall, At
  <2> QED
    BY <1>1, <1>2, <2>1, <2>3
<1>7. ASSUME NEW t \in Tasks, RemoveDue(t)
      PROVE  SlotKept(n, c)
  <2>1. task[t].op = "timeout" => task[t].node \in Nodes /\ task[t].call \in Calls
    BY <1>0, <1>7, NoneIsNew DEF RemoveDue, At, Shape, Exists, Op
  <2>2. UNCHANGED timers
        /\ \/ UNCHANGED active
           \/ /\ task[t].op = "timeout"
              /\ active' = [active EXCEPT ![task[t].node][task[t].call] = None]
    BY <1>7 DEF RemoveDue
  <2>3. active'[n][c] \in {None, active[n][c]}
    BY <1>0, <2>1, <2>2
  <2> QED
    BY <2>2, <2>3 DEF SlotKept, Slot
<1>8. ASSUME NEW t \in Tasks, ClientEvent(t)
      PROVE  SlotKept(n, c)
  <2>1. \/ UNCHANGED <<timers, active>>
        \/ \E s \in Sockets, d \in Calls : ClearTimer(Home[s], d)
    <3>1. ASSUME NEW s \in Sockets, RejectCall(s, t)
          PROVE  UNCHANGED <<timers, active>> \/ \E d \in Calls : ClearTimer(Home[s], d)
      <4>1. PICK reason \in Reason \cup {None}, d \in Calls \cup {None} :
              Hangup(s, "reject", reason, d, t)
        BY <1>0, <3>1, SocketAssumption DEF TypeOK, RejectCall, Reason
      <4> QED
        BY <4>1 DEF Hangup
    <3>2. ASSUME NEW s \in Sockets, EndCall(s, t)
          PROVE  UNCHANGED <<timers, active>> \/ \E d \in Calls : ClearTimer(Home[s], d)
      BY <3>2 DEF EndCall, Hangup
    <3>3. ASSUME NEW s \in Sockets, NEW a \in Attempts, NEW d \in Calls,
                 InitCall(s, a, t) \/ CallUser(s, a, t) \/ AnswerCall(s, d, t) \/ Disconnect(s, t)
          PROVE  UNCHANGED <<timers, active>>
      BY <3>3 DEF InitCall, CallUser, AnswerCall, Disconnect
    <3> QED
      BY <1>8, <3>1, <3>2, <3>3 DEF ClientEvent, InitCall, CallUser, AnswerCall, Disconnect
  <2> QED
    BY <1>1, <1>2, <2>1, SocketAssumption
<1>9. ASSUME NEW tm \in timers, NEW t \in Tasks, FireTimer(tm, t)
      PROVE  SlotKept(n, c)
  <2>1. timers' = timers \ {tm} /\ active' = active /\ task'[t] = Timeout("timeout", tm.node, tm.call)
    BY <1>0, <1>9 DEF FireTimer, Spawn, TypeOK
  <2>2. Slot(n, c) = tm => Fires(t, n, c)'
    BY <2>1 DEF Slot, Fires, Timeout, Idle
  <2> QED
    BY <2>1, <2>2 DEF SlotKept, Slot
<1>10. ASSUME NEW d \in Calls, PollSome(d) \/ ExpireLock(d) \/ Cleanup(d) \/ GrowOld(d)
       PROVE  UNCHANGED <<timers, active>>
  BY <1>10 DEF PollSome, Poll, ExpireLock, Cleanup, GrowOld
<1>11. ASSUME NEW m \in Nodes, Crash(m)
       PROVE  SlotKept(n, c)
  <2>1. /\ timers' = {tm \in timers : tm.node # m}
        /\ active' = [active EXCEPT ![m] = [d \in Calls |-> None]]
    BY <1>11 DEF Crash
  <2>2. CASE m = n
    BY <1>0, <2>1, <2>2 DEF SlotKept
  <2>3. CASE m # n
    BY <1>0, <2>1, <2>3 DEF SlotKept, Slot
  <2> QED
    BY <2>2, <2>3
<1>12. CASE UNCHANGED vars
  BY <1>1, <1>12 DEF vars
<1> QED
  BY <1>1, <1>3, <1>4, <1>5, <1>6, <1>7, <1>8, <1>9, <1>10, <1>11, <1>12 DEF Next, Step, Fire

(* activeTimeouts never keeps the handle of a timer that is neither        *)
(* scheduled nor in its callback, although two handlers arm every call,    *)
(* each overwrites the handle of the other, and several clear it.          *)
THEOREM NoHandleLeaks == Spec => []HandlesAreLive
<1>1. Init => HandlesAreLive
  BY DEF Init, HandlesAreLive
<1>2. IInv /\ HandlesAreLive /\ [Next]_vars => HandlesAreLive'
  <2> SUFFICES ASSUME IInv, HandlesAreLive, [Next]_vars, NEW n \in Nodes, NEW c \in Calls,
                      active'[n][c] # None
               PROVE  Slot(n, c)' \in timers' \/ \E t \in Tasks : Fires(t, n, c)'
    BY DEF HandlesAreLive, Slot, Fires
  <2>1. SlotKept(n, c)
    BY SlotStep
  <2>2. CASE Slot(n, c)' = Slot(n, c)
    <3>1. active[n][c] # None
      BY <2>2 DEF Slot
    <3>2. Slot(n, c) \in timers \/ \E t \in Tasks : Fires(t, n, c)
      BY <3>1 DEF HandlesAreLive, Slot, Fires
    <3> QED
      BY <2>1, <2>2, <3>2, FiresStep DEF SlotKept
  <2> QED
    BY <2>1, <2>2 DEF SlotKept
<1> QED
  BY <1>1, <1>2, Inductive, PTL DEF Spec

-----------------------------------------------------------------------------
(* CallLifecycle implements CallOutcome: every step of a handler, a timer, *)
(* the poller, the cleanup job or a crash is one legal step of one call's  *)
(* life, or changes nothing of it.                                         *)

(* A step that leaves the other records alone moves one call.              *)
LEMMA OneCallMoves ==
  ASSUME NEW c \in Calls, \A d \in Calls \ {c} : rec'[d] = rec[d]
  PROVE  [d \in Calls |-> PhaseOf(d)]'
           = [[d \in Calls |-> PhaseOf(d)] EXCEPT ![c] = PhaseOf(c)']
  BY DEF PhaseOf, Pending

LEMMA NoRecordMoves ==
  ASSUME UNCHANGED rec
  PROVE  UNCHANGED [d \in Calls |-> PhaseOf(d)]
  BY DEF PhaseOf, Pending

LEMMA InitOutcome == Init => Outcome!Init
  BY DEF Init, Outcome!Init, PhaseOf, Pending, NoRecord

LEMMA RingStep ==
  ASSUME IInv, NEW t \in Tasks, CreateRecord(t)
  PROVE  Outcome!Next
<1> USE DEF mongo, redis, replica, client
<1>1. PICK c \in Calls :
        /\ rec[c].status = "none"
        /\ rec' = [rec EXCEPT ![c] = [caller |-> Caller[task[t].att],
                                      receiver |-> Callee[task[t].att],
                                      status |-> "pending", answered |-> "no"]]
  BY DEF CreateRecord
<1>2. rec'[c].status = "pending" /\ rec'[c].answered = "no" /\ \A d \in Calls \ {c} : rec'[d] = rec[d]
  BY <1>1 DEF IInv, TypeOK
<1>3. PhaseOf(c) = "none" /\ PhaseOf(c)' = "ringing"
  BY <1>1, <1>2 DEF PhaseOf, Pending
<1>4. writer' = writer /\ log' = log
  BY DEF CreateRecord
<1>5. Outcome!Ring(c)
  BY <1>2, <1>3, <1>4, OneCallMoves DEF Outcome!Ring
<1>6. QED
  BY <1>5 DEF Outcome!Next

LEMMA CrossStep ==
  ASSUME IInv, NEW t \in Tasks, GlareWrite(t)
  PROVE  Outcome!Next
<1> USE DEF mongo, redis, replica, client
<1>a. PICK r \in Calls : r = task[t].reverse /\ Exists(r)
  BY DEF IInv, GlareWrite, At, Shape, Exists
<1>1. Exists(r) /\ TypeOK
  BY <1>a DEF IInv
<1>2. /\ rec' = [rec EXCEPT ![r].status = "missed"]
      /\ writer' = [writer EXCEPT ![r] = "glare"]
      /\ log' = log
  BY <1>a DEF GlareWrite
<1>3. rec'[r].status = "missed" /\ \A d \in Calls \ {r} : rec'[d] = rec[d]
  BY <1>1, <1>2 DEF TypeOK, Exists, Record
<1>4. PhaseOf(r) # "none" /\ PhaseOf(r)' = "missed"
  BY <1>1, <1>3 DEF PhaseOf, Pending, Exists
<1>5. Outcome!Cross(r)
  BY <1>1, <1>2, <1>3, <1>4, OneCallMoves DEF Outcome!Cross, Exists
<1>6. QED
  BY <1>1, <1>5 DEF Outcome!Next, Exists

(* An answer to a call that has ended, or was answered before, is no step. *)
LEMMA AcceptStep ==
  ASSUME IInv, NEW t \in Tasks, WriteAnswer(t)
  PROVE  Outcome!Next \/ UNCHANGED Outcome!vars
<1> USE DEF mongo, redis, replica, client
<1>a. PICK c \in Calls : c = task[t].call /\ Exists(c)
  BY DEF IInv, WriteAnswer, At, Shape, Exists
<1> DEFINE v == IF rec[c].answered # "no" THEN rec[c].answered
                ELSE IF Ended(c) THEN "late" ELSE "yes"
<1>1. Exists(c) /\ TypeOK
  BY <1>a DEF IInv
<1>2. rec' = [rec EXCEPT ![c].answered = v] /\ writer' = writer /\ log' = log
  BY <1>a DEF WriteAnswer
<1>3. /\ rec'[c].status = rec[c].status /\ rec'[c].answered = v
      /\ \A d \in Calls \ {c} : rec'[d] = rec[d]
  BY <1>1, <1>2 DEF TypeOK, Exists, Record
<1>4. CASE Pending(c) /\ rec[c].answered = "no"
  <2>1. ~Ended(c)
    BY <1>4 DEF Pending, Ended, Terminal
  <2>2. PhaseOf(c) = "ringing" /\ PhaseOf(c)' = "accepted"
    BY <1>3, <1>4, <2>1 DEF PhaseOf, Pending
  <2>3. Outcome!Accept(c)
    BY <1>1, <1>2, <1>3, <2>2, OneCallMoves DEF Outcome!Accept, Exists
  <2>4. QED
    BY <1>1, <2>3 DEF Outcome!Next, Exists
<1>5. CASE ~(Pending(c) /\ rec[c].answered = "no")
  <2>1. PhaseOf(c)' = PhaseOf(c)
    BY <1>3, <1>5 DEF PhaseOf, Pending
  <2>2. UNCHANGED [d \in Calls |-> PhaseOf(d)]
    BY <1>1, <1>3, <2>1, OneCallMoves DEF Exists
  <2>3. QED
    BY <1>2, <2>2 DEF Outcome!vars
<1>6. QED
  BY <1>4, <1>5

(* The status a winner of the conditional update writes is one its path    *)
(* may give the call in the state the update found it in.                  *)
LEMMA EndStep ==
  ASSUME IInv, NEW t \in Tasks, Finalize(t)
  PROVE  Outcome!Next \/ UNCHANGED Outcome!vars
<1> USE DEF mongo, redis, replica, client
<1>a. PICK k \in Task : k = task[t]
  BY DEF IInv, TypeOK
<1>b. PICK c \in Calls : c = k.call
  BY <1>a DEF IInv, Finalize, At, Shape, Exists
<1> DEFINE p == PathOf(k.op)
<1>1. /\ TypeOK /\ Written /\ Exists(c)
      /\ k.op \in {"reject", "end", "disconnect", "timeout", "poll"}
      /\ k.status \in Terminal \ {"unreachable"}
      /\ k.sawAnswer => rec[c].answered # "no"
      /\ k.op \in {"timeout", "poll"} => k.status = "missed"
      /\ k.op = "disconnect" => k.status = IF k.sawAnswer THEN "completed" ELSE "rejected"
      /\ k.op \in {"reject", "end"} /\ k.status = "completed" => k.sawAnswer
  BY <1>a, <1>b DEF IInv, Finalize, At, Shape, Derived
<1>2. log' = log
  BY DEF Finalize
<1>3. CASE Finalizable(t)
  <2>1. rec' = [rec EXCEPT ![c].status = k.status] /\ writer' = [writer EXCEPT ![c] = p]
    BY <1>a, <1>b, <1>3 DEF Finalize
  <2>2. rec'[c].status = k.status /\ \A d \in Calls \ {c} : rec'[d] = rec[d]
    BY <1>1, <2>1 DEF TypeOK, Exists, Record
  <2>3. /\ Pending(c) /\ rec[c].answered \in {"no", "yes"}
        /\ k.op \in {"timeout", "poll"} => rec[c].answered = "no"
        /\ k.op = "disconnect" /\ ~k.sawAnswer => rec[c].answered = "no"
    <3>1. Pending(c) /\ (RequireUnanswered(t) => rec[c].answered = "no")
      BY <1>a, <1>b, <1>3 DEF Finalizable
    <3>2. rec[c].answered \in {"no", "yes", "late"}
      BY <1>1 DEF TypeOK, Exists, Record, Answered
    <3>3. QED
      BY <1>a, <1>1, <3>1, <3>2 DEF RequireUnanswered, Written, Exists
  <2>4. PhaseOf(c) = IF rec[c].answered = "yes" THEN "accepted" ELSE "ringing"
    BY <2>3 DEF PhaseOf
  <2>5. PhaseOf(c)' = k.status
    BY <1>1, <2>2 DEF PhaseOf, Pending, Terminal
  <2>6. Outcome!Fits(PhaseOf(c), p, k.status)
    BY <1>1, <2>3, <2>4 DEF Outcome!Fits, Outcome!Outcomes, PathOf, Terminal
  <2>7. p \in {"user", "disconnect", "timeout", "cleanup"} /\ k.status \in Outcome!Outcomes
    BY <1>1 DEF PathOf, Outcome!Outcomes, Terminal
  <2>8. Outcome!End(c)
    BY <1>1, <1>2, <2>1, <2>2, <2>4, <2>5, <2>6, <2>7, OneCallMoves DEF Outcome!End, Exists
  <2>9. QED
    BY <1>1, <2>8 DEF Outcome!Next, Exists
<1>4. CASE ~Finalizable(t)
  <2>1. UNCHANGED <<rec, writer>>
    BY <1>4 DEF Finalize
  <2>2. QED
    BY <1>2, <2>1, NoRecordMoves DEF Outcome!vars
<1>5. QED
  BY <1>3, <1>4

LEMMA LogStep ==
  ASSUME IInv, NEW t \in Tasks, WriteLog(t)
  PROVE  Outcome!Next
<1> USE DEF mongo, redis, replica, client
<1>a. PICK k \in Task : k = task[t]
  BY DEF IInv, TypeOK
<1>b. PICK c \in Calls : c = k.call
  BY <1>a DEF IInv, WriteLog, At, Shape, Exists
<1>1. /\ TypeOK /\ Exists(c)
      /\ k.op \in {"reject", "end", "disconnect", "timeout", "poll"}
      /\ k.status \in Terminal
      /\ writer[c] = "glare" \/ (writer[c] = PathOf(k.op) /\ rec[c].status = k.status)
  BY <1>a, <1>b DEF IInv, WriteLog, At, Shape, Derived
<1>2. log' = [log EXCEPT ![c] = k.status] /\ UNCHANGED <<rec, writer>>
  BY <1>a, <1>b DEF WriteLog
<1>3. writer[c] \in {"user", "disconnect", "timeout", "glare"}
  BY <1>1 DEF PathOf
<1>4. writer[c] # "glare" => k.status = PhaseOf(c)
  BY <1>1 DEF PhaseOf, Pending, Terminal
<1>5. k.status \in Outcome!Outcomes
  BY <1>1 DEF Outcome!Outcomes, Terminal
<1>6. Outcome!Log(c)
  BY <1>1, <1>2, <1>3, <1>4, <1>5, NoRecordMoves DEF Outcome!Log, Exists
<1>7. QED
  BY <1>1, <1>6 DEF Outcome!Next, Exists

LEMMA CleanupStep ==
  ASSUME IInv, NEW c \in Calls, Cleanup(c)
  PROVE  Outcome!Next
<1> USE DEF mongo, redis, replica, client
<1>1. TypeOK /\ Pending(c)
  BY DEF IInv, Cleanup
<1>2. /\ rec' = [rec EXCEPT ![c].status = "unreachable"]
      /\ writer' = [writer EXCEPT ![c] = "cleanup"]
      /\ log' = log
  BY DEF Cleanup
<1>3. rec'[c].status = "unreachable" /\ \A d \in Calls \ {c} : rec'[d] = rec[d]
  BY <1>1, <1>2 DEF TypeOK, Record
<1>4. PhaseOf(c) \in {"ringing", "accepted"} /\ PhaseOf(c)' = "unreachable"
  BY <1>1, <1>3 DEF PhaseOf, Pending
<1>5. Outcome!Fits(PhaseOf(c), "cleanup", "unreachable") /\ "unreachable" \in Outcome!Outcomes
  BY DEF Outcome!Fits, Outcome!Outcomes
<1>6. Outcome!End(c)
  BY <1>2, <1>3, <1>4, <1>5, OneCallMoves DEF Outcome!End
<1>7. QED
  BY <1>6 DEF Outcome!Next

LEMMA OutcomeStep ==
  ASSUME IInv, [Next]_vars
  PROVE  [Outcome!Next]_(Outcome!vars)
<1>1. CASE Writes
  BY <1>1, RingStep, CrossStep, AcceptStep, EndStep, LogStep, CleanupStep DEF Writes
<1>2. CASE UNCHANGED <<rec, log, writer>>
  BY <1>2, NoRecordMoves DEF Outcome!vars
<1>3. QED
  BY <1>1, <1>2, OnlyWrites

(* The detailed protocol implements the abstract one, for any pair of      *)
(* users and any number of replicas, sockets, handlers and crashes: the    *)
(* records and the logs never show anything but a legal life of each call. *)
THEOREM ImplementsOutcome == Spec => Implements
<1>1. Init => Outcome!Init
  BY InitOutcome
<1>2. IInv /\ [Next]_vars => [Outcome!Next]_(Outcome!vars)
  BY OutcomeStep
<1>3. QED
  BY <1>1, <1>2, Inductive, PTL DEF Spec, Implements, Outcome!Spec
=============================================================================
