--------------------------- MODULE BenchmarkProofs ---------------------------
(***************************************************************************)
(* Proofs about the benchmark, for any number of shells, commands, sockets,*)
(* messages, campaigns and faults.                                         *)
(***************************************************************************)
EXTENDS MCBenchmark, TLAPS

(* What the runner notes of a socket is what has become of it.             *)
Noted(i) ==
  /\ i \in steady <=> socket[i] = "connected"
  /\ socket[i] = "connected" => record[i].outcome = "authenticated"
  /\ record[i].lost => socket[i] = "closed"
  /\ record[i].outcome = "none" => socket[i] = "connecting"
  /\ socket[i] = "connecting" => record[i].outcome \in {"none", "handshake_timeout"}
  /\ record[i].outcome = "authenticated" => socket[i] = "connected" \/ record[i].lost

(* The count of a settled workload is of sockets that are connected.       *)
SocketInv ==
  /\ S!TypeOK
  /\ S!ConcurrencyEarned
  /\ phase # "done" => \A i \in Attempts : Noted(i)
  /\ phase \in {"settling", "plateau"} => S!Authenticated = Attempts

(* No socket is open and nothing is noted before the first connects.        *)
LEMMA SocketInit == S!Init => SocketInv
<1> SUFFICES ASSUME S!Init PROVE SocketInv
  OBVIOUS
<1> USE DEF S!Init, S!NewRecord, S!Outcomes
<1>1. \A i \in Attempts : record[i] \in [outcome : S!Outcomes, lost : BOOLEAN]
  OBVIOUS
<1>2. S!TypeOK
  BY <1>1 DEF S!TypeOK, S!NoReport
<1>3. \A i \in Attempts : Noted(i)
  BY DEF Noted
<1> QED
  BY <1>2, <1>3 DEF SocketInv, S!ConcurrencyEarned

(* Every step of the socket workload keeps its notes in step with the       *)
(* sockets, an attempt that is lost or times out included                   *)
(* (socketConcurrency.js).                                                  *)
LEMMA SocketStep == SocketInv /\ [S!Next]_socketVars => SocketInv'
<1> SUFFICES ASSUME SocketInv, [S!Next]_socketVars PROVE SocketInv'
  OBVIOUS
<1> USE DEF SocketInv, S!Awaits, S!Unsettled, S!Outcomes
<1>a. \A i \in Attempts : record[i].outcome \in S!Outcomes /\ record[i].lost \in BOOLEAN
  BY DEF S!TypeOK
<1>1. ASSUME NEW i \in Attempts,
             S!Connect(i) \/ S!ConnectError(i) \/ S!HandshakeTimeout(i) \/ S!Disconnect(i)
      PROVE SocketInv'
  <2> USE DEF S!Connect, S!ConnectError, S!HandshakeTimeout, S!Disconnect, S!Settle, S!OpenFor
  <2>1. phase # "done" /\ phase' = phase /\ report' = report
    BY <1>1
  <2>a. record' \in [Attempts -> [outcome : S!Outcomes, lost : BOOLEAN]]
    <3>1. CASE S!Connect(i) \/ S!ConnectError(i) \/ S!HandshakeTimeout(i)
      BY <3>1 DEF S!TypeOK
    <3>2. CASE S!Disconnect(i)
      BY ZenonT(40), <3>2 DEF S!TypeOK
    <3> QED
      BY <1>1, <3>1, <3>2
  <2>2. S!TypeOK'
    BY <1>1, <2>1, <2>a DEF S!TypeOK
  <2>b. \A j \in Attempts \ {i} :
          /\ socket'[j] = socket[j] /\ record'[j] = record[j]
          /\ j \in steady' <=> j \in steady
    BY <1>1 DEF S!TypeOK
  <2>c. Noted(i)'
    <3> USE DEF Noted, S!TypeOK
    <3>1. Noted(i)
      BY <2>1
    <3>2. CASE S!Connect(i)
      BY <3>1, <3>2, <1>a
    <3>3. CASE S!ConnectError(i)
      BY <3>1, <3>3, <1>a
    <3>4. CASE S!HandshakeTimeout(i)
      BY <3>1, <3>4, <1>a
    <3>5. CASE S!Disconnect(i)
      BY <3>1, <3>5, <1>a
    <3> QED
      BY <1>1, <3>2, <3>3, <3>4, <3>5
  <2>3. \A j \in Attempts : Noted(j)'
    BY <2>1, <2>b, <2>c DEF Noted
  <2>4. phase \in {"settling", "plateau"} => S!Authenticated' = Attempts
    BY <1>1, <1>a, <2>1 DEF Noted, S!TypeOK, S!Authenticated
  <2> QED
    BY <2>1, <2>2, <2>3, <2>4 DEF S!ConcurrencyEarned
<1>2. ASSUME S!RampEnds \/ S!SettlingEnds \/ S!PlateauEnds
      PROVE SocketInv'
  <2> USE DEF S!RampEnds, S!SettlingEnds, S!PlateauEnds, S!Return, S!TornDown, S!NoReport
  <2>1. S!TypeOK'
    BY <1>2, <1>a DEF S!TypeOK
  <2>2. phase' # "done" => UNCHANGED <<socket, record, steady>>
    BY <1>2
  <2>3. phase' # "done" => \A j \in Attempts : Noted(j)'
    BY <1>2, <2>2 DEF Noted
  <2>4. S!Active = steady
    BY <1>2 DEF Noted, S!Active, S!TypeOK
  <2>5. phase' \in {"settling", "plateau"} => S!Authenticated' = Attempts
    BY <1>2, <2>2 DEF S!Authenticated
  <2>6. steady = Attempts => S!Stable
    BY <1>2 DEF Noted, S!Stable
  <2>7. steady = Attempts => S!Authenticated = Attempts
    BY <1>2 DEF Noted, S!Authenticated
  <2>8. S!ConcurrencyEarned'
    BY <1>2, <2>4, <2>6, <2>7 DEF S!ConcurrencyEarned, S!Claims, S!TypeOK
  <2> QED
    BY <2>1, <2>3, <2>5, <2>8
<1>3. CASE UNCHANGED socketVars
  BY <1>3 DEF socketVars, S!TypeOK, S!ConcurrencyEarned, S!Claims, Noted, S!Authenticated
<1> QED
  BY <1>1, <1>2, <1>3 DEF S!Next


-----------------------------------------------------------------------------
(* The message workload.                                                   *)

(* A packet in the air, to one of the two clients.                         *)
Packets == [to : W!Actors, id : W!Ops, saved : BOOLEAN]

(* An opportunity that has not started has left no trace.                  *)
Untouched(i) ==
  op[i].status # "started" =>
    /\ op[i].ack = "pending" /\ op[i].delivery = "pending"
    /\ i \notin sent \cup received \cup answered
    /\ \A p \in air : p.id # i

(* A message is on its way to the server, or its packets are on theirs.    *)
OnItsWay(i) ==
  i \in sent => /\ {op[i].ack, op[i].delivery} \cap {"resolved", "unnamed"} = {}
                /\ i \notin received \cup answered
                /\ \A p \in air : p.id # i

(* Each promise is settled by the one packet meant for it.                 *)
Answering(i) ==
  /\ op[i].ack = "resolved" =>
       i \in answered /\ fixture \notin {"acknowledgement-failure", "acknowledgement-timeout"}
  /\ i \in answered =>
       op[i].ack = "resolved" \/ fixture \in {"acknowledgement-failure", "acknowledgement-timeout"}
Delivering(i) ==
  /\ op[i].delivery = "resolved" =>
       op[i].got = i /\ i \in received /\ fixture # "recipient-delivery-timeout"
  /\ i \in received => op[i].delivery = "resolved" \/ fixture = "recipient-delivery-timeout"
  /\ \A p \in air : p.to = "recipient" /\ p.id = i =>
       op[i].delivery \in {"pending", "rejected"} /\ i \notin received
  /\ \A p \in air : p.to = "sender" /\ p.id = i =>
       op[i].ack \in {"pending", "rejected"} /\ i \notin answered

(* What is said of an opportunity.                                         *)
Faithful(i) == Untouched(i) /\ OnItsWay(i) /\ Answering(i) /\ Delivering(i)

(* No packet twice, and every opportunity told faithfully.                 *)
MessageInv ==
  /\ W!TypeOK /\ air \subseteq Packets
  /\ W!DeliveriesCorrelated
  /\ \A p, q \in air : p.to = q.to /\ p.id = q.id => p = q
  /\ \A i \in W!Ops : Faithful(i)
  /\ \A i \in W!Ops : next <= i => op[i].status = "waiting"
  /\ stage = "done" => sent = {} /\ air = {}

(* Before the first opportunity nothing is sent, in the air or settled.     *)
LEMMA MessageInit == W!Init => MessageInv
<1> SUFFICES ASSUME W!Init PROVE MessageInv
  OBVIOUS
<1> USE WorkloadAssumption DEF W!Init, W!NewOp, W!Ops
<1>1. \A i \in W!Ops : op[i] = W!NewOp
  OBVIOUS
<1>2. W!TypeOK
  BY <1>1 DEF W!TypeOK, W!Promises, W!Actors
<1>3. \A i \in W!Ops : Faithful(i)
  BY <1>1 DEF Faithful, Untouched, OnItsWay, Answering, Delivering
<1> QED
  BY <1>1, <1>2, <1>3 DEF MessageInv, W!DeliveriesCorrelated, Packets


(* Every step of the message workload keeps each promise tied to the one    *)
(* packet meant for it: a packet is in the air at most once, and an         *)
(* opportunity that has not started has left no trace.                      *)
LEMMA MessageStep == MessageInv /\ [W!Next]_messageVars => MessageInv'
<1> SUFFICES ASSUME MessageInv, [W!Next]_messageVars PROVE MessageInv'
  OBVIOUS
<1> USE WorkloadAssumption DEF MessageInv, W!Ops, W!net, W!history
<1>a. /\ Slots \in Nat /\ next \in Nat /\ op \in [W!Ops -> [status : {"waiting", "started", "not-started"},
            ack : W!Promises, delivery : W!Promises, got : 0 .. Slots]]
  BY DEF W!TypeOK
<1> DEFINE Op == [status : {"waiting", "started", "not-started"},
                  ack : W!Promises, delivery : W!Promises, got : 0 .. Slots]
<1>1. ASSUME NEW a \in W!Actors, W!Connect(a) \/ W!ConnectFails(a) \/ W!Drop(a)
      PROVE MessageInv'
  <2> USE DEF W!Connect, W!ConnectFails, W!Drop, W!Trouble
  <2>1. /\ UNCHANGED <<fixture, next, op, sent, received, answered, result>>
        /\ air' \subseteq air /\ stage # "done" /\ stage' # "done"
    BY <1>1
  <2>2. W!TypeOK'
    BY <1>1, <2>1 DEF W!TypeOK
  <2>3. \A i \in W!Ops : Faithful(i)'
    BY <2>1 DEF Faithful, Untouched, OnItsWay, Answering, Delivering
  <2> QED
    BY <2>1, <2>2, <2>3 DEF W!DeliveriesCorrelated
<1>2. CASE W!Slot
  <2> PICK n \in W!Ops : n = next
    BY <1>2 DEF W!Slot
  <2>0. /\ op[n].status = "waiting" /\ stage' # "done" /\ next' = next + 1
        /\ UNCHANGED <<fixture, stage, link, air, result, received, answered>>
    BY <1>2 DEF W!Slot
  <2>1. op' \in [W!Ops -> Op] /\ \A i \in W!Ops \ {n} : op'[i] = op[i]
    <3>1. op' = [op EXCEPT ![n].status = "not-started"] \/ op' = [op EXCEPT ![n].status = "started"]
      BY <1>2 DEF W!Slot
    <3>2. CASE op' = [op EXCEPT ![n].status = "not-started"]
      BY <3>2, <1>a
    <3>3. CASE op' = [op EXCEPT ![n].status = "started"]
      BY <3>3, <1>a
    <3> QED
      BY <3>1, <3>2, <3>3
  <2>2. W!TypeOK'
    BY <1>2, <2>1, <1>a DEF W!TypeOK, W!Slot, W!Trouble
  <2>3. /\ op'[n].status = "not-started" \/ op'[n].status = "started"
        /\ op'[n].ack = op[n].ack /\ op'[n].delivery = op[n].delivery
        /\ op'[n].status = "not-started" => sent' = sent
        /\ sent' \subseteq sent \cup {n}
    BY <1>2, <1>a, <2>0 DEF W!Slot
  <2>4. /\ n \notin sent \cup received \cup answered /\ \A p \in air : p.id # n
        /\ op[n].ack = "pending" /\ op[n].delivery = "pending"
    BY <2>0 DEF Faithful, Untouched
  <2>5. \A i \in W!Ops : Faithful(i)'
    <3>1. Faithful(n)'
      BY <2>0, <2>3, <2>4 DEF Faithful, Untouched, OnItsWay, Answering, Delivering
    <3>2. ASSUME NEW i \in W!Ops, i # n PROVE Faithful(i)'
      <4>1. op'[i] = op[i] /\ (i \in sent' => i \in sent)
        BY <2>1, <2>3, <3>2
      <4> QED
        BY <2>0, <4>1 DEF Faithful, Untouched, OnItsWay, Answering, Delivering
    <3> QED
      BY <3>1, <3>2
  <2>6. \A i \in W!Ops : next' <= i => op'[i].status = "waiting"
    BY <2>0, <2>1, <1>a
  <2> QED
    BY <2>0, <2>2, <2>5, <2>6 DEF W!DeliveriesCorrelated
<1>3. ASSUME NEW i \in W!Ops, W!Serve(i) PROVE MessageInv'
  <2>1. PICK saved \in BOOLEAN, refused \in BOOLEAN :
          /\ i \in sent /\ sent' = sent \ {i}
          /\ UNCHANGED <<fixture, stage, link, next, op, result, received, answered>>
          /\ lost' \in {lost, lost + 1} /\ (lost' = lost \/ lost < MaxLost)
          /\ air' = air \cup {p \in [to : W!Actors, id : {i}, saved : {saved}] :
                               /\ link[p.to] = "open"
                               /\ p.to = "recipient" => ~refused}
    BY <1>3 DEF W!Serve, W!Trouble
  <2>2. W!TypeOK' /\ air' \subseteq Packets
    BY <2>1 DEF W!TypeOK, Packets
  <2>3. \A p \in air' : p \in air \/ (p.id = i /\ p = [to |-> p.to, id |-> i, saved |-> saved])
    BY <2>1
  <2>4. /\ {op[i].ack, op[i].delivery} \cap {"resolved", "unnamed"} = {}
        /\ i \notin received \cup answered /\ \A p \in air : p.id # i
        /\ op[i].status = "started"
    BY <2>1 DEF Faithful, OnItsWay, Untouched
  <2>5. \A p, q \in air' : p.to = q.to /\ p.id = q.id => p = q
    BY <2>3, <2>4
  <2>6. \A j \in W!Ops : Faithful(j)'
    <3>1. Faithful(i)'
      BY <2>1, <2>4 DEF Faithful, Untouched, OnItsWay, Answering, Delivering, W!TypeOK, W!Promises
    <3>2. ASSUME NEW j \in W!Ops, j # i PROVE Faithful(j)'
      BY <2>1, <2>3, <3>2 DEF Faithful, Untouched, OnItsWay, Answering, Delivering
    <3> QED
      BY <3>1, <3>2
  <2> QED
    BY <2>1, <2>2, <2>5, <2>6 DEF W!DeliveriesCorrelated, W!Started
<1>4. ASSUME NEW i \in W!Ops, W!AckTimeout(i) \/ W!DeliveryTimeout(i) PROVE MessageInv'
  <2>1. /\ UNCHANGED <<fixture, stage, next, link, sent, air, lost, result, received, answered>>
        /\ stage = "run" /\ op[i].status = "started"
        /\ op' \in [W!Ops -> Op] /\ \A j \in W!Ops \ {i} : op'[j] = op[j]
        /\ op'[i].status = op[i].status /\ op'[i].got = op[i].got
        /\ op'[i].ack = op[i].ack \/ (op[i].ack = "pending" /\ op'[i].ack = "rejected")
        /\ op'[i].delivery = op[i].delivery
             \/ (op[i].delivery = "pending" /\ op'[i].delivery = "rejected")
    <3>1. CASE W!AckTimeout(i)
      BY <3>1, <1>a DEF W!AckTimeout, W!Started, W!Promises
    <3>2. CASE W!DeliveryTimeout(i)
      BY <3>2, <1>a DEF W!DeliveryTimeout, W!Started, W!Promises
    <3> QED
      BY <1>4, <3>1, <3>2
  <2>2. W!TypeOK'
    BY <2>1 DEF W!TypeOK
  <2>3. \A j \in W!Ops : Faithful(j)'
    <3>1. Faithful(i)'
      BY <2>1 DEF Faithful, Untouched, OnItsWay, Answering, Delivering
    <3>2. ASSUME NEW j \in W!Ops, j # i PROVE Faithful(j)'
      BY <2>1, <3>2 DEF Faithful, Untouched, OnItsWay, Answering, Delivering
    <3> QED
      BY <3>1, <3>2
  <2>4. \A j \in W!Ops : next' <= j => op'[j].status = "waiting"
    BY <2>1
  <2> QED
    BY <2>1, <2>2, <2>3, <2>4 DEF W!DeliveriesCorrelated
<1>5. ASSUME NEW p \in air, W!Lose(p) PROVE MessageInv'
  <2>1. /\ UNCHANGED <<fixture, stage, link, next, op, sent, result, received, answered>>
        /\ air' \subseteq air
        /\ lost' = lost + 1 /\ lost < MaxLost
    BY <1>5 DEF W!Lose, W!Trouble
  <2>2. W!TypeOK'
    BY <2>1 DEF W!TypeOK
  <2>3. \A j \in W!Ops : Faithful(j)'
    BY <2>1 DEF Faithful, Untouched, OnItsWay, Answering, Delivering
  <2> QED
    BY <2>1, <2>2, <2>3 DEF W!DeliveriesCorrelated, W!Started
<1>6. ASSUME NEW p \in air, W!Acknowledged(p) PROVE MessageInv'
  <2> DEFINE i == p.id
  <2>0. /\ i \in W!Ops /\ p.to = "sender" /\ p.saved \in BOOLEAN
        /\ op[i].status = "started" /\ i \notin sent /\ i \notin answered
        /\ op[i].ack \in {"pending", "rejected"}
    BY <1>6 DEF W!Acknowledged, Packets, Faithful, Untouched, OnItsWay, Delivering
  <2>a. op' = op \/ op' = [op EXCEPT ![i].ack = W!AckOf(p)]
    BY <1>6 DEF W!Acknowledged
  <2>b. W!AckOf(p) \in W!Promises
    BY DEF W!AckOf, W!Promises
  <2>1. /\ UNCHANGED <<fixture, stage, link, next, sent, lost, result, received>>
        /\ air' = air \ {p}
    BY <1>6 DEF W!Acknowledged
  <2>c. /\ op' \in [W!Ops -> Op] /\ \A j \in W!Ops \ {i} : op'[j] = op[j]
        /\ op'[i].status = op[i].status /\ op'[i].got = op[i].got
        /\ op'[i].delivery = op[i].delivery
    <3>1. CASE op' = op
      BY <3>1, <1>a
    <3>2. CASE op' = [op EXCEPT ![i].ack = W!AckOf(p)]
      BY <3>2, <2>0, <2>b, <1>a
    <3> QED
      BY <2>a, <3>1, <3>2
  <2>d. /\ \A j \in W!Ops \ {i} : j \in answered' <=> j \in answered
        /\ answered' \subseteq W!Ops
    <3>1. answered' = answered \/ answered' = answered \cup {i}
      BY <1>6 DEF W!Acknowledged
    <3> QED
      BY <2>0, <3>1 DEF W!TypeOK
  <2>2. /\ i \in answered' => op[i].ack = "pending" /\ p.saved
        /\ op[i].ack = "pending" /\ p.saved => i \in answered'
        /\ IF op[i].ack = "pending" /\ fixture # "acknowledgement-timeout"
           THEN op'[i].ack = IF p.saved /\ fixture # "acknowledgement-failure" THEN "resolved" ELSE "rejected"
           ELSE op'[i].ack = op[i].ack
    BY <1>6, <2>0, <1>a DEF W!Acknowledged, W!AckOf
  <2>3. W!TypeOK'
    BY <2>1, <2>c, <2>d DEF W!TypeOK
  <2>4. \A q \in air' : q.id = i => q.to = "recipient"
    BY <2>0, <2>1 DEF Packets, W!Actors
  <2>5. \A j \in W!Ops : Faithful(j)'
    <3>1. Faithful(i)'
      BY <2>0, <2>1, <2>c, <2>d, <2>2, <2>4 DEF Faithful, Untouched, OnItsWay, Answering, Delivering
    <3>2. ASSUME NEW j \in W!Ops, j # i PROVE Faithful(j)'
      BY <2>1, <2>c, <2>d, <3>2 DEF Faithful, Untouched, OnItsWay, Answering, Delivering
    <3> QED
      BY <3>1, <3>2
  <2>6. \A j \in W!Ops : next' <= j => op'[j].status = "waiting"
    BY <2>0, <2>1, <2>c
  <2> QED
    BY <2>1, <2>3, <2>5, <2>6 DEF W!DeliveriesCorrelated
<1>7. ASSUME NEW p \in air, W!Received(p) PROVE MessageInv'
  <2> DEFINE i == p.id
  <2>0. /\ i \in W!Ops /\ p.to = "recipient" /\ p.saved \in BOOLEAN
        /\ op[i].status = "started" /\ i \notin sent /\ i \notin received
        /\ op[i].delivery \in {"pending", "rejected"}
    BY <1>7 DEF W!Received, Packets, Faithful, Untouched, OnItsWay, Delivering
  <2>1. /\ UNCHANGED <<fixture, stage, link, next, sent, lost, result, answered>>
        /\ air' = air \ {p}
    BY <1>7 DEF W!Received
  <2>2. /\ op' \in [W!Ops -> Op] /\ \A j \in W!Ops \ {i} : op'[j] = op[j]
        /\ op'[i] = IF W!Waits(i)
                    THEN [op[i] EXCEPT !.delivery = IF p.saved THEN "resolved" ELSE "unnamed",
                                       !.got = i]
                    ELSE op[i]
    <3>1. op' = [j \in W!Ops |->
             IF W!Waits(j) /\ j = i
             THEN [op[j] EXCEPT !.delivery = IF p.saved THEN "resolved" ELSE "unnamed", !.got = i]
             ELSE op[j]]
      BY <1>7 DEF W!Received, W!Takes
    <3>2. op'[i] = IF W!Waits(i)
                   THEN [op[i] EXCEPT !.delivery = IF p.saved THEN "resolved" ELSE "unnamed",
                                      !.got = i]
                   ELSE op[i]
      BY <3>1, <2>0
    <3>3. \A j \in W!Ops \ {i} : op'[j] = op[j]
      BY <3>1
    <3>4. op'[i] \in Op
      <4>1. op[i] \in Op /\ i \in 0 .. Slots
        BY <2>0, <1>a
      <4>2. \A d \in W!Promises : [op[i] EXCEPT !.delivery = d, !.got = i] \in Op
        BY <4>1
      <4>3. (IF p.saved THEN "resolved" ELSE "unnamed") \in W!Promises
        BY DEF W!Promises
      <4> QED
        BY <3>2, <4>1, <4>2, <4>3
    <3>5. op' = [j \in W!Ops |-> op'[j]]
      BY <3>1
    <3> QED
      BY <3>2, <3>3, <3>4, <3>5, <1>a
  <2>3. /\ op'[i].status = op[i].status /\ op'[i].ack = op[i].ack
        /\ IF op[i].delivery = "pending" /\ fixture # "recipient-delivery-timeout"
           THEN op'[i].got = i /\ op'[i].delivery = IF p.saved THEN "resolved" ELSE "unnamed"
           ELSE op'[i].got = op[i].got /\ op'[i].delivery = op[i].delivery
    BY <2>2, <2>0, <1>a DEF W!Waits, W!Started
  <2>4. /\ \A j \in W!Ops \ {i} : j \in received' <=> j \in received
        /\ received' \subseteq W!Ops
        /\ i \in received' <=> op[i].delivery # "rejected" /\ p.saved
    BY <1>7, <2>0 DEF W!Received, W!TypeOK
  <2>5. W!TypeOK'
    BY <2>1, <2>2, <2>4 DEF W!TypeOK
  <2>6. \A q \in air' : q.id = i => q.to = "sender"
    BY <2>0, <2>1 DEF Packets, W!Actors
  <2>7. \A j \in W!Ops : Faithful(j)'
    <3>1. Faithful(i)'
      BY <2>0, <2>1, <2>3, <2>4, <2>6 DEF Faithful, Untouched, OnItsWay, Answering, Delivering
    <3>2. ASSUME NEW j \in W!Ops, j # i PROVE Faithful(j)'
      BY <2>1, <2>2, <2>4, <3>2 DEF Faithful, Untouched, OnItsWay, Answering, Delivering
    <3> QED
      BY <3>1, <3>2
  <2>8. \A j \in W!Ops : next' <= j => op'[j].status = "waiting"
    BY <2>0, <2>1, <2>2
  <2> QED
    BY <2>1, <2>5, <2>7, <2>8 DEF W!DeliveriesCorrelated
<1>8. CASE W!Finish
  <2>1. /\ UNCHANGED <<fixture, next, op, lost, received, answered>>
        /\ stage' = "done" /\ result' = W!Evidence
        /\ link' = [a \in W!Actors |-> "closed"] /\ sent' = {} /\ air' = {}
        /\ \A i \in W!Ops : W!Over(i)
    BY <1>8 DEF W!Finish
  <2>2. W!TypeOK'
    BY <2>1 DEF W!TypeOK
  <2>3. \A j \in W!Ops : Faithful(j)'
    BY <2>1 DEF Faithful, Untouched, OnItsWay, Answering, Delivering
  <2>4. W!DeliveriesCorrelated'
    <3> DEFINE Good == {i \in W!Ops : W!Succeeds(i)}
               Bad == {i \in W!Ops : W!Fails(i)}
    <3>1. ASSUME NEW i \in W!Ops
          PROVE W!Succeeds(i) <=> fixture = "none" /\ i \in received /\ i \in answered
      BY <2>1 DEF Faithful, Untouched, Answering, Delivering, W!Succeeds, W!Started,
                  W!Correlated, W!TypeOK, W!Fixtures
    <3>2. ASSUME NEW i \in W!Ops
          PROVE W!Fails(i) <=> W!Started(i) /\ ~W!Succeeds(i)
      BY <2>1 DEF W!Over, W!Fails, W!Succeeds, W!Started, W!Correlated
    <3>3. /\ result'.successes = Good /\ result'.failures = Bad
          /\ result'.complete => Good \cup Bad # {} /\ Bad = {}
      BY <2>1 DEF W!Evidence
    <3>4. Good = IF fixture = "none" THEN received \cap answered ELSE {}
      BY <3>1 DEF W!TypeOK
    <3>5. Bad = {i \in W!Ops : W!Started(i)} \ Good
      BY <3>2
    <3>6. \A i \in Good : i \in received /\ W!Started(i)
      BY <3>1 DEF W!Succeeds
    <3>7. \A i \in W!Ops : W!Started(i)' <=> W!Started(i)
      BY <2>1 DEF W!Started
    <3> QED
      BY <2>1, <3>3, <3>4, <3>5, <3>6, <3>7 DEF W!DeliveriesCorrelated
  <2> QED
    BY <2>1, <2>2, <2>3, <2>4
<1>9. CASE UNCHANGED messageVars
  <2>1. UNCHANGED <<fixture, stage, link, next, op, sent, air, lost, result, received, answered>>
    BY <1>9 DEF messageVars
  <2>2. W!TypeOK'
    BY <2>1 DEF W!TypeOK
  <2>3. \A j \in W!Ops : Faithful(j)'
    BY <2>1 DEF Faithful, Untouched, OnItsWay, Answering, Delivering
  <2> QED
    BY <2>1, <2>2, <2>3 DEF W!DeliveriesCorrelated, W!Started
<1> QED
  BY <1>1, <1>2, <1>3, <1>4, <1>5, <1>6, <1>7, <1>8, <1>9 DEF W!Next


-----------------------------------------------------------------------------
(* The runs.                                                               *)

(* What a shell is at, and the types of its view, its listing and its files. *)
RunOps == {"none"} \cup DOMAIN R!Start
Admission == {"fresh", "make", "mkdir", "own"}
Phases == {"up", "seed", "warm-up", "window", "workload", "observed", "teardown"}
Clearing == {"confirm", "containers", "networks", "volumes", "directory"}
Ending == {"mkfinal", "status", "manifest", "sources", "report", "bundle", "COMPLETED", "hangs"}
RunPcs == {"idle", "stop", "preview", "write"} \cup Admission \cup Phases \cup Clearing \cup Ending
Views == [containers : 0 .. MaxCommands, networks : 0 .. MaxCommands,
          volumes : BOOLEAN, directory : BOOLEAN]
Listings == SUBSET (R!Names \X R!Commands)
FileType == [by : 0 .. MaxCommands, axes : R!Axes, of : Listings]
ShellType == [op : RunOps, pc : RunPcs, id : 0 .. MaxCommands, axes : R!Axes, seen : Views,
              owns : BOOLEAN, clean : BOOLEAN, sampling : BOOLEAN, kept : Listings]

(* Where a command is, and that a run owns its resources from its claim on. *)
Busy(k) ==
  /\ k.id # 0
  /\ \/ k.op = "execute" /\ k.pc \in Admission \cup Phases \cup Clearing \cup Ending
     \/ k.op = "start" /\ k.pc \in {"up", "stop"}
     \/ k.op = "cleanup" /\ k.pc \in {"preview"} \cup Clearing
     \/ k.op \in {"provenance", "derive"} /\ k.pc = "write"
     \/ k.op = "finalize" /\ k.pc \in {"bundle", "COMPLETED"}
  /\ k.op = "execute" /\ k.pc \notin Admission => k.owns
  /\ k.clean => k.op = "execute" /\ k.pc \in Ending
  /\ k.axes = R!Measured => k.pc \in {"teardown"} \cup Clearing \cup Ending
Fits(k) == k = R!Idle \/ Busy(k)

(* Every shell and every file of its type, and every shell where it fits.  *)
RunTypes ==
  /\ R!TypeOK
  /\ files \in [R!Names -> FileType]
  /\ shell \in [Shells -> ShellType]
  /\ \A s \in Shells : Fits(shell[s])

(* With no run made and every shell idle, every file and shell is of its    *)
(* type.                                                                    *)
LEMMA RunTypesInit == R!Init => RunTypes
<1> SUFFICES ASSUME R!Init PROVE RunTypes
  OBVIOUS
<1>0. MaxCommands \in Nat /\ MaxCrashes \in Nat /\ MaxFaults \in Nat
  BY BenchmarkAssumption
<1>1. R!NoFile \in FileType /\ R!Idle \in ShellType
  BY <1>0 DEF FileType, ShellType, R!NoFile, R!Idle, R!NoView, R!Axes, R!NotRun, R!FailedSetup, RunOps,
         RunPcs, Views, Listings
<1>2. files = [n \in R!Names |-> R!NoFile] /\ shell = [s \in Shells |-> R!Idle]
  BY DEF R!Init, R!EmptyDisk
<1>3. files \in [R!Names -> FileType] /\ shell \in [Shells -> ShellType]
  BY <1>1, <1>2
<1>4. \A n \in R!Names : /\ files[n].by \in 0 .. MaxCommands /\ files[n].axes \in R!Axes
                        /\ files[n].of \subseteq R!Names \X R!Commands
  BY <1>3 DEF FileType, Listings
<1>5. R!TypeOK
  <2>1. docker = [c \in R!Classes |-> 0]
    BY DEF R!Init
  <2>2. docker \in [R!Classes -> 0 .. MaxCommands]
    BY <2>1, <1>0
  <2>3. seeds \subseteq R!Commands
    BY DEF R!Init
  <2>4. owner \in 0 .. MaxCommands
    BY <1>0 DEF R!Init
  <2>5. given \in 0 .. MaxCommands /\ crashes \in 0 .. MaxCrashes /\ faults \in 0 .. MaxFaults
    BY <1>0 DEF R!Init
  <2>6. measured \subseteq R!Commands /\ swept \subseteq R!Commands
    BY DEF R!Init
  <2>7. there \in BOOLEAN /\ pulled \in BOOLEAN /\ byHand \in BOOLEAN
    BY DEF R!Init
  <2> QED
    BY <1>4, <2>2, <2>3, <2>4, <2>5, <2>6, <2>7 DEF R!TypeOK
<1> QED
  BY <1>2, <1>3, <1>5 DEF RunTypes, Fits


(* A step of one command leaves the others alone.                          *)
Others(s) == \A t \in Shells \ {s} : shell'[t] = shell[t]
Stopped(s) == shell' \in [Shells -> ShellType] /\ Others(s) /\ shell'[s] = R!Idle
Moved(s, pc) ==
  /\ shell' \in [Shells -> ShellType] /\ Others(s)
  /\ shell'[s].pc = pc /\ shell'[s].op = shell[s].op /\ shell'[s].id = shell[s].id
  /\ shell'[s].seen = shell[s].seen /\ shell'[s].kept = shell[s].kept
  /\ shell'[s].owns = shell[s].owns /\ shell'[s].clean = shell[s].clean
Keeps(s) == shell'[s].axes = shell[s].axes

(* A shell with nothing to do is of its type and fits.                      *)
LEMMA IdleType == R!Idle \in ShellType /\ Fits(R!Idle)
<1>0. MaxCommands \in Nat
  BY BenchmarkAssumption
<1> QED
  BY <1>0 DEF ShellType, R!Idle, R!NoView, R!Axes, R!FailedSetup, RunOps, RunPcs, Views, Listings, Fits

(* A command that ends leaves its shell idle and the others alone.          *)
LEMMA EndsStops ==
  ASSUME RunTypes, NEW s \in Shells, R!Ends(s)
  PROVE  Stopped(s)
  BY IdleType DEF RunTypes, R!Ends, Stopped, Others

(* A command that goes on changes nothing of its shell but where it is.     *)
LEMMA GoesMoves ==
  ASSUME RunTypes, NEW s \in Shells, NEW pc \in RunPcs, R!Goes(s, pc)
  PROVE  Moved(s, pc) /\ Keeps(s)
<1>1. shell \in [Shells -> ShellType]
  BY DEF RunTypes
<1>2. shell' = [shell EXCEPT ![s].pc = pc]
  BY DEF R!Goes
<1>3. shell' \in [Shells -> ShellType]
  BY <1>1, <1>2 DEF ShellType
<1> QED
  BY <1>1, <1>2, <1>3 DEF Moved, Others, Keeps, ShellType

(* A phase that throws takes the run to its teardown with the axes of the   *)
(* failure.                                                                 *)
LEMMA BreaksMoves ==
  ASSUME RunTypes, NEW s \in Shells, NEW axes \in R!Axes,
         R!Breaks(s, axes)
  PROVE  Moved(s, "teardown") /\ shell'[s].axes = axes
<1>1. shell \in [Shells -> ShellType]
  BY DEF RunTypes
<1>2. shell' = [shell EXCEPT ![s].pc = "teardown", ![s].axes = axes]
  BY DEF R!Breaks
<1>3. shell' \in [Shells -> ShellType]
  BY ZenonT(40), <1>1, <1>2 DEF ShellType, RunPcs, Phases
<1> QED
  BY <1>1, <1>2, <1>3 DEF Moved, Others, ShellType


(* What each action makes of its command.                                  *)
Quiet == UNCHANGED <<docker, seeds, owner, files, measured, swept, pulled, byHand>>

(* A run that failed in its set-up or was not run does not pass for a       *)
(* measured one.                                                            *)
LEMMA AxesDiffer == R!FailedSetup # R!Measured /\ R!NotRun # R!Measured
<1>1. R!FailedSetup.artifact # R!Measured.artifact /\ R!NotRun.artifact # R!Measured.artifact
  BY DEF R!FailedSetup, R!NotRun, R!Measured
<1> QED
  BY <1>1

(* A new command takes an idle shell and the next number, and nothing       *)
(* else.                                                                    *)
LEMMA CommandEffect ==
  ASSUME RunTypes, NEW s \in Shells, NEW o \in DOMAIN R!Start, R!Command(s, o)
  PROVE  /\ Quiet /\ UNCHANGED <<there, crashes, faults>>
         /\ given' = given + 1 /\ given' \in 0 .. MaxCommands
         /\ shell[s] = R!Idle
         /\ shell' \in [Shells -> ShellType] /\ Others(s) /\ Fits(shell'[s])
         /\ shell'[s] = [R!Idle EXCEPT !.op = o, !.pc = R!Start[o], !.id = given']
<1>0. MaxCommands \in Nat /\ given \in 0 .. MaxCommands /\ shell \in [Shells -> ShellType]
  BY BenchmarkAssumption DEF RunTypes, R!TypeOK
<1>1. given' = given + 1 /\ given' \in 0 .. MaxCommands /\ given' # 0
  BY <1>0 DEF R!Command
<1>2. shell' = [shell EXCEPT ![s] = [R!Idle EXCEPT !.op = o, !.pc = R!Start[o], !.id = given']]
  BY DEF R!Command
<1> DEFINE k == [R!Idle EXCEPT !.op = o, !.pc = R!Start[o], !.id = given']
<1>3. o \in {"execute", "start", "cleanup", "provenance", "derive", "finalize"}
  BY DEF R!Start
<1>4. R!Start[o] \in RunPcs /\ o \in RunOps
  BY <1>3 DEF R!Start, RunPcs, Admission, Phases, Clearing, Ending, RunOps
<1>5. k \in ShellType
  BY <1>1, <1>4, IdleType DEF ShellType
<1>6. k.op = o /\ k.pc = R!Start[o] /\ k.id = given' /\ ~k.clean /\ k.axes # R!Measured
  BY AxesDiffer DEF R!Idle
<1>7. Fits(k)
  <2> HIDE DEF k
  <2> QED
    BY <1>1, <1>3, <1>6 DEF Fits, Busy, R!Start, Admission, Phases, Clearing, Ending
<1>8. shell'[s] = k /\ shell' \in [Shells -> ShellType] /\ Others(s)
  BY <1>0, <1>2, <1>5 DEF Others
<1>9. Fits(shell'[s])
  BY <1>7, <1>8
<1>10. shell[s] = R!Idle
  BY DEF R!Command, RunTypes, Fits, Busy, Admission, Phases, Clearing, Ending
<1> QED
  BY <1>1, <1>8, <1>9, <1>10 DEF R!Command, Quiet, R!disk, R!history

(* The steps that only look, or make the directory.                        *)
LEMMA LookEffect ==
  ASSUME RunTypes, NEW s \in Shells,
         \/ R!Fresh(s) \/ R!Make(s) \/ R!Mkdir(s) \/ R!StartEnds(s) \/ R!WarmUp(s)
         \/ R!Confirm(s) \/ R!MakeFinal(s) \/ R!Crash(s)
  PROVE  /\ Quiet /\ given' = given /\ crashes' \in {crashes, crashes + 1}
         /\ faults' \in {faults, faults + 1}
         /\ crashes' # crashes => crashes < MaxCrashes
         /\ faults' # faults => faults < MaxFaults
         /\ there' \in {there, TRUE}
         /\ \/ Stopped(s)
            \/ /\ shell[s].pc = "fresh" /\ Moved(s, "make") /\ Keeps(s)
            \/ /\ shell[s].pc = "make" /\ Moved(s, "mkdir") /\ Keeps(s)
            \/ /\ shell[s].pc = "mkdir" /\ Moved(s, "own") /\ Keeps(s)
            \/ /\ shell[s].pc = "warm-up" /\ Moved(s, "window") /\ Keeps(s)
            \/ /\ shell[s].pc = "warm-up" /\ Moved(s, "teardown")
               /\ shell'[s].axes = R!FailedSetup
            \/ /\ shell[s].pc = "confirm" /\ R!View = shell[s].seen
               /\ Moved(s, "containers") /\ Keeps(s)
            \/ /\ shell[s].pc = "confirm" /\ shell[s].op = "execute"
               /\ Moved(s, "mkfinal") /\ Keeps(s)
            \/ /\ shell[s].pc = "mkfinal" /\ Moved(s, "status") /\ Keeps(s)
<1> USE DEF Quiet, R!disk, R!history, R!bounds, R!Fault
<1>p. {"make", "mkdir", "own", "window", "teardown", "containers", "mkfinal", "status"} \subseteq RunPcs
  BY DEF RunPcs, Admission, Phases, Clearing, Ending
<1>a. R!FailedSetup \in R!Axes
  BY DEF R!Axes
<1>1. CASE R!Fresh(s)
  BY <1>1, <1>p, EndsStops, GoesMoves DEF R!Fresh
<1>2. CASE R!Make(s)
  BY <1>2, <1>p, EndsStops, GoesMoves DEF R!Make
<1>3. CASE R!Mkdir(s)
  BY <1>3, <1>p, GoesMoves DEF R!Mkdir
<1>4. CASE R!StartEnds(s)
  BY <1>4, EndsStops DEF R!StartEnds
<1>5. CASE R!WarmUp(s)
  BY <1>5, <1>p, <1>a, GoesMoves, BreaksMoves DEF R!WarmUp
<1>6. CASE R!Confirm(s)
  BY <1>6, <1>p, EndsStops, GoesMoves DEF R!Confirm, R!GivesUp, R!Tearing
<1>7. CASE R!MakeFinal(s)
  BY <1>7, <1>p, GoesMoves DEF R!MakeFinal
<1>8. CASE R!Crash(s)
  BY <1>8, EndsStops DEF R!Crash
<1> QED
  BY <1>1, <1>2, <1>3, <1>4, <1>5, <1>6, <1>7, <1>8

(* A look at the resources, which ends a teardown that has nothing to do.  *)
LEMMA PreviewEffect ==
  ASSUME RunTypes, NEW s \in Shells, R!Teardown(s) \/ R!Preview(s)
  PROVE  /\ Quiet /\ UNCHANGED <<there, given, crashes, faults>>
         /\ shell' \in [Shells -> ShellType] /\ Others(s)
         /\ shell'[s].op = shell[s].op /\ shell'[s].id = shell[s].id
         /\ shell'[s].kept = shell[s].kept /\ shell'[s].axes = shell[s].axes
         /\ shell'[s].owns = shell[s].owns
         /\ \/ /\ shell[s].pc \in {"teardown", "preview"}
               /\ shell'[s].pc = "confirm" /\ shell'[s].seen = R!View
               /\ shell'[s].clean = shell[s].clean
            \/ /\ shell[s].pc = "teardown" /\ (~shell[s].owns \/ R!NoTargets(R!View))
               /\ shell'[s].pc = "mkfinal" /\ shell'[s].clean
<1>0. MaxCommands \in Nat /\ shell \in [Shells -> ShellType] /\ docker \in [R!Classes -> 0 .. MaxCommands]
  BY BenchmarkAssumption DEF RunTypes, R!TypeOK
<1>1. docker["containers"] \in 0 .. MaxCommands /\ docker["networks"] \in 0 .. MaxCommands
  BY <1>0 DEF R!Classes
<1>2. (docker["volumes"] # 0) \in BOOLEAN /\ (there /\ owner # 0) \in BOOLEAN
  OBVIOUS
<1>3. R!View \in Views
  BY <1>1, <1>2 DEF R!View, Views
<1>p. {"mkfinal", "confirm"} \subseteq RunPcs
  BY DEF RunPcs, Clearing, Ending
<1> DEFINE v == R!View
<1>q. v \in Views
  BY <1>3
<1>4. \/ /\ shell[s].pc \in {"teardown", "preview"}
         /\ shell' = [shell EXCEPT ![s] = [@ EXCEPT !.pc = "confirm", !.seen = v]]
      \/ /\ shell[s].pc = "teardown" /\ (~shell[s].owns \/ R!NoTargets(v))
         /\ shell' = [shell EXCEPT ![s] = [@ EXCEPT !.pc = "mkfinal", !.clean = TRUE]]
  <2> HIDE DEF v
  <2>1. CASE R!Teardown(s)
    BY <2>1 DEF R!Teardown, v
  <2>2. CASE R!Preview(s)
    BY <2>2 DEF R!Preview, v
  <2> QED
    BY <2>1, <2>2
<1>5. UNCHANGED <<docker, seeds, owner, files, measured, swept, pulled, byHand,
                  there, given, crashes, faults>>
  BY DEF R!Teardown, R!Preview, R!disk, R!history, R!bounds
<1> HIDE DEF v
<1>6. CASE shell[s].pc \in {"teardown", "preview"}
         /\ shell' = [shell EXCEPT ![s] = [@ EXCEPT !.pc = "confirm", !.seen = v]]
  BY <1>0, <1>p, <1>q, <1>5, <1>6 DEF ShellType, Others, Quiet, v
<1>7. CASE /\ shell[s].pc = "teardown" /\ (~shell[s].owns \/ R!NoTargets(v))
           /\ shell' = [shell EXCEPT ![s] = [@ EXCEPT !.pc = "mkfinal", !.clean = TRUE]]
  BY <1>0, <1>p, <1>5, <1>7 DEF ShellType, Others, Quiet, v
<1> QED
  BY <1>4, <1>6, <1>7

(* Own claims a directory that nobody owns, or the command ends             *)
(* (lifecycle.js, the mkdir of the run's own directory).                    *)
LEMMA OwnEffect ==
  ASSUME RunTypes, NEW s \in Shells, R!Own(s)
  PROVE  /\ UNCHANGED <<docker, seeds, there, files, given, crashes, faults>>
         /\ UNCHANGED <<measured, swept, pulled, byHand>>
         /\ shell[s].pc = "own"
         /\ \/ Stopped(s) /\ owner' = owner
            \/ /\ there /\ owner = 0 /\ owner' = R!Id(s)
               /\ shell' \in [Shells -> ShellType] /\ Others(s)
               /\ shell'[s].op = shell[s].op /\ shell'[s].id = shell[s].id
               /\ shell'[s].clean = shell[s].clean /\ shell'[s].axes = shell[s].axes
               /\ shell'[s].pc = "up" /\ shell'[s].owns
<1>0. shell \in [Shells -> ShellType] /\ "up" \in RunPcs
  BY DEF RunTypes, RunPcs, Phases
<1>1. UNCHANGED <<docker, seeds, there, files, given, crashes, faults, measured, swept, pulled, byHand>>
  BY DEF R!Own, R!bounds, R!history
<1>2. CASE R!Claimable
  <2>1. shell' = [shell EXCEPT ![s].pc = "up", ![s].owns = TRUE] /\ owner' = R!Id(s)
    BY <1>2 DEF R!Own, R!OwnsEarly
  <2> QED
    BY <1>0, <1>1, <1>2, <2>1 DEF R!Own, R!Claimable, ShellType, Others
<1>3. CASE ~R!Claimable
  BY <1>1, <1>3, EndsStops DEF R!Own
<1> QED
  BY <1>2, <1>3

(* Up makes each missing resource in the command's name, leaves the others  *)
(* as they are, may make the directory, and goes on, ends or breaks.        *)
LEMMA UpEffect ==
  ASSUME RunTypes, NEW s \in Shells, R!Up(s)
  PROVE  /\ UNCHANGED <<seeds, owner, files, given, crashes>>
         /\ there' \in {there, TRUE}
         /\ UNCHANGED <<measured, swept, pulled, byHand>>
         /\ faults' \in {faults, faults + 1} /\ (faults' # faults => faults < MaxFaults)
         /\ shell[s].pc = "up"
         /\ docker' \in [R!Classes -> 0 .. MaxCommands]
         /\ \A c \in R!Classes :
              docker'[c] = docker[c] \/ (docker[c] = 0 /\ docker'[c] = R!Id(s))
         /\ \/ Stopped(s)
            \/ shell[s].op = "start" /\ Moved(s, "stop") /\ Keeps(s)
            \/ shell[s].op # "start" /\ Moved(s, "seed") /\ Keeps(s)
            \/ shell[s].op # "start" /\ Moved(s, "teardown") /\ shell'[s].axes = R!FailedSetup
<1>0. /\ shell \in [Shells -> ShellType] /\ R!Id(s) \in 0 .. MaxCommands
      /\ docker \in [R!Classes -> 0 .. MaxCommands]
      /\ {"stop", "seed", "teardown"} \subseteq RunPcs /\ R!FailedSetup \in R!Axes
  BY DEF RunTypes, ShellType, R!TypeOK, R!Id, RunPcs, Phases, R!Axes
<1>1. UNCHANGED <<seeds, owner, files, given, crashes, measured, swept, pulled, byHand>>
  BY DEF R!Up, R!history
<1>6. there' \in {there, TRUE}
  <2>1. there \in BOOLEAN
    BY DEF RunTypes, R!TypeOK
  <2> QED
    BY <2>1 DEF R!Up
<1>2. faults' \in {faults, faults + 1} /\ (faults' # faults => faults < MaxFaults)
  BY DEF R!Up, R!Fault
<1>3. PICK made \in {{}, {"networks"}, {"networks", "volumes"}, R!Classes} :
        /\ docker' = [c \in R!Classes |->
             IF docker[c] = 0 /\ c \in made THEN R!Id(s) ELSE docker[c]]
        /\ \/ R!Goes(s, R!AfterUp(s))
           \/ shell[s].op = "start" /\ R!Ends(s)
           \/ shell[s].op # "start" /\ R!Breaks(s, R!FailedSetup)
  BY DEF R!Up
<1>4. /\ docker' \in [R!Classes -> 0 .. MaxCommands]
      /\ \A c \in R!Classes : docker'[c] = docker[c] \/ (docker[c] = 0 /\ docker'[c] = R!Id(s))
  BY <1>0, <1>3
<1>5. \/ Stopped(s)
      \/ shell[s].op = "start" /\ Moved(s, "stop") /\ Keeps(s)
      \/ shell[s].op # "start" /\ Moved(s, "seed") /\ Keeps(s)
      \/ shell[s].op # "start" /\ Moved(s, "teardown") /\ shell'[s].axes = R!FailedSetup
  BY <1>0, <1>3, EndsStops, GoesMoves, BreaksMoves DEF R!AfterUp
<1> QED
  BY <1>1, <1>2, <1>4, <1>5, <1>6 DEF R!Up

(* Seed adds this run's seeds to volumes that exist, or breaks with none    *)
(* added.                                                                   *)
LEMMA SeedEffect ==
  ASSUME RunTypes, NEW s \in Shells, R!Seed(s)
  PROVE  /\ UNCHANGED <<docker, there, owner, files, given, crashes>>
         /\ UNCHANGED <<measured, swept, pulled, byHand>>
         /\ faults' \in {faults, faults + 1} /\ (faults' # faults => faults < MaxFaults)
         /\ shell[s].pc = "seed"
         /\ \/ /\ docker["volumes"] # 0 /\ seeds' = seeds \cup {R!Id(s)}
               /\ shell' \in [Shells -> ShellType] /\ Others(s)
               /\ shell'[s].op = shell[s].op /\ shell'[s].id = shell[s].id
               /\ shell'[s].clean = shell[s].clean /\ shell'[s].axes = shell[s].axes
               /\ shell'[s].pc = "warm-up" /\ shell'[s].owns
            \/ seeds' = seeds /\ Moved(s, "teardown") /\ shell'[s].axes = R!FailedSetup
<1>0. shell \in [Shells -> ShellType] /\ {"warm-up", "teardown"} \subseteq RunPcs
      /\ R!FailedSetup \in R!Axes
  BY DEF RunTypes, RunPcs, Phases, R!Axes
<1>1. UNCHANGED <<docker, there, owner, files, given, crashes, measured, swept, pulled, byHand>>
  BY DEF R!Seed, R!disk, R!history
<1>2. faults' \in {faults, faults + 1} /\ (faults' # faults => faults < MaxFaults)
  BY DEF R!Seed, R!Fault
<1>3. \/ /\ docker["volumes"] # 0 /\ seeds' = seeds \cup {R!Id(s)}
         /\ shell' = [shell EXCEPT ![s].pc = "warm-up", ![s].owns = TRUE]
      \/ seeds' = seeds /\ R!Breaks(s, R!FailedSetup)
  BY DEF R!Seed
<1>4. CASE shell' = [shell EXCEPT ![s].pc = "warm-up", ![s].owns = TRUE]
  <2>1. /\ shell' \in [Shells -> ShellType] /\ Others(s)
        /\ shell'[s].op = shell[s].op /\ shell'[s].id = shell[s].id
        /\ shell'[s].clean = shell[s].clean /\ shell'[s].axes = shell[s].axes
        /\ shell'[s].pc = "warm-up" /\ shell'[s].owns
    BY <1>0, <1>4 DEF ShellType, Others
  <2>2. ~R!Breaks(s, R!FailedSetup)
    BY <1>0, <1>4 DEF R!Breaks, ShellType
  <2> QED
    BY <1>1, <1>2, <1>3, <2>1, <2>2 DEF R!Seed
<1>5. CASE seeds' = seeds /\ R!Breaks(s, R!FailedSetup)
  BY <1>0, <1>1, <1>2, <1>5, BreaksMoves DEF R!Seed
<1> QED
  BY <1>3, <1>4, <1>5

(* A measurement leaves its file, or ends the run's work.                  *)
LEMMA MeasureEffect ==
  ASSUME RunTypes, NEW s \in Shells, R!Measure(s)
  PROVE  /\ UNCHANGED <<docker, seeds, owner, given, crashes, swept, pulled, byHand>>
         /\ faults' \in {faults, faults + 1} /\ (faults' # faults => faults < MaxFaults)
         /\ shell[s].pc \in R!Raw
         /\ shell' \in [Shells -> ShellType] /\ Others(s)
         /\ shell'[s].op = shell[s].op /\ shell'[s].id = shell[s].id
         /\ shell'[s].owns = shell[s].owns /\ shell'[s].clean = shell[s].clean
         /\ \/ /\ files[shell[s].pc].by = 0 /\ there' = TRUE
               /\ files' = [files EXCEPT ![shell[s].pc] = R!File(s, R!NotRun, {})]
               /\ shell'[s].pc = R!NextRaw[shell[s].pc]
               /\ shell[s].pc = "observed" =>
                    shell'[s].axes = R!Measured /\ measured' = measured \cup {R!Id(s)}
               /\ shell[s].pc # "observed" =>
                    shell'[s].axes = shell[s].axes /\ measured' = measured
            \/ /\ UNCHANGED <<files, there, measured>>
               /\ shell'[s].pc = "teardown" /\ shell'[s].axes = R!NotRun
<1>0. shell \in [Shells -> ShellType] /\ {R!Measured, R!NotRun} \subseteq R!Axes
      /\ {"window", "workload", "observed", "teardown"} \subseteq RunPcs
  BY DEF RunTypes, R!Axes, RunPcs, Phases
<1>1. UNCHANGED <<docker, seeds, owner, given, crashes, swept, pulled, byHand>>
  BY DEF R!Measure
<1>2. faults' \in {faults, faults + 1} /\ (faults' # faults => faults < MaxFaults)
  BY DEF R!Measure, R!Fault
<1>3. PICK n \in R!Raw : n = shell[s].pc
  BY DEF R!Measure
<1>4. R!NextRaw[n] \in RunPcs
  BY <1>0, <1>3 DEF R!Raw, R!NextRaw
<1>5. CASE /\ R!Writes(n, R!File(s, R!NotRun, {}), n # "workload")
           /\ shell' = [shell EXCEPT ![s].pc = R!NextRaw[n],
                          ![s].axes = IF n = "observed" THEN R!Measured ELSE @]
           /\ measured' = IF n = "observed" THEN measured \cup {R!Id(s)} ELSE measured
  <2>1. /\ shell' \in [Shells -> ShellType] /\ Others(s)
        /\ shell'[s].op = shell[s].op /\ shell'[s].id = shell[s].id
        /\ shell'[s].owns = shell[s].owns /\ shell'[s].clean = shell[s].clean
        /\ shell'[s].pc = R!NextRaw[n]
        /\ shell'[s].axes = IF n = "observed" THEN R!Measured ELSE shell[s].axes
    <3> DEFINE ax == IF n = "observed" THEN R!Measured ELSE shell[s].axes
    <3>1. ax \in R!Axes
      BY <1>0 DEF ShellType
    <3>2. shell' = [shell EXCEPT ![s].pc = R!NextRaw[n], ![s].axes = ax]
      BY <1>5, <1>0
    <3> HIDE DEF ax
    <3>3. /\ shell' \in [Shells -> ShellType] /\ Others(s)
          /\ shell'[s].op = shell[s].op /\ shell'[s].id = shell[s].id
          /\ shell'[s].owns = shell[s].owns /\ shell'[s].clean = shell[s].clean
          /\ shell'[s].pc = R!NextRaw[n] /\ shell'[s].axes = ax
      BY <1>0, <1>4, <3>1, <3>2 DEF ShellType, Others
    <3> QED
      BY <3>3 DEF ax
  <2>2. files[n].by = 0 /\ there' = TRUE /\ files' = [files EXCEPT ![n] = R!File(s, R!NotRun, {})]
    BY <1>5 DEF R!Writes
  <2> QED
    BY <1>1, <1>2, <1>3, <1>5, <2>1, <2>2
<1>6. ASSUME NEW b \in BOOLEAN, R!Loses(s, b), UNCHANGED <<files, there, measured>>
      PROVE  /\ shell' \in [Shells -> ShellType] /\ Others(s)
             /\ shell'[s].op = shell[s].op /\ shell'[s].id = shell[s].id
             /\ shell'[s].owns = shell[s].owns /\ shell'[s].clean = shell[s].clean
             /\ shell'[s].pc = "teardown" /\ shell'[s].axes = R!NotRun
  BY ZenonT(40), <1>0, <1>6 DEF R!Loses, ShellType, Others
<1>7. \/ /\ R!Writes(n, R!File(s, R!NotRun, {}), n # "workload")
         /\ shell' = [shell EXCEPT ![s].pc = R!NextRaw[n],
                        ![s].axes = IF n = "observed" THEN R!Measured ELSE @]
         /\ measured' = IF n = "observed" THEN measured \cup {R!Id(s)} ELSE measured
      \/ \E b \in BOOLEAN : R!Loses(s, b) /\ UNCHANGED <<files, there, measured>>
  BY <1>3 DEF R!Measure
<1>8. CASE \E b \in BOOLEAN : R!Loses(s, b) /\ UNCHANGED <<files, there, measured>>
  <2>1. PICK b \in BOOLEAN : R!Loses(s, b) /\ UNCHANGED <<files, there, measured>>
    BY <1>8
  <2> QED
    BY <1>1, <1>2, <1>3, <1>6, <2>1
<1> QED
  BY <1>5, <1>7, <1>8

(* A clean-up goes on to the next class, or gives up.                      *)
GaveUp(s) ==
  \/ Stopped(s)
  \/ shell[s].op = "execute" /\ Moved(s, "mkfinal") /\ Keeps(s)

(* Remove passes over a class it does not target, empties the one it does,  *)
(* or gives up with all as it was.                                          *)
LEMMA RemoveEffect ==
  ASSUME RunTypes, NEW s \in Shells, R!Remove(s)
  PROVE  /\ UNCHANGED <<there, owner, files, given, crashes, measured, swept, byHand>>
         /\ faults' \in {faults, faults + 1} /\ (faults' # faults => faults < MaxFaults)
         /\ shell[s].pc \in R!Classes
         /\ \/ /\ ~R!Target(s, shell[s].pc) /\ UNCHANGED <<docker, seeds, pulled>>
               /\ Moved(s, R!AfterClass[shell[s].pc]) /\ Keeps(s)
            \/ /\ docker' = [docker EXCEPT ![shell[s].pc] = 0]
               /\ seeds' = IF shell[s].pc = "volumes" THEN {} ELSE seeds
               /\ pulled' = (pulled \/ R!Pulls(s))
               /\ Moved(s, R!AfterClass[shell[s].pc]) /\ Keeps(s)
            \/ GaveUp(s) /\ UNCHANGED <<docker, seeds, pulled>>
<1>1. UNCHANGED <<there, owner, files, given, crashes, measured, swept, byHand>>
  BY DEF R!Remove, R!disk
<1>2. faults' \in {faults, faults + 1} /\ (faults' # faults => faults < MaxFaults)
  BY DEF R!Remove, R!Fault
<1>3. PICK class \in R!Classes : class = shell[s].pc
  BY DEF R!Remove
<1>4. R!AfterClass[class] \in RunPcs /\ "mkfinal" \in RunPcs
  BY <1>3 DEF R!Classes, R!AfterClass, RunPcs, Clearing, Ending
<1>5. \/ /\ ~R!Target(s, class) /\ UNCHANGED <<docker, seeds, pulled>>
         /\ R!Goes(s, R!AfterClass[class])
      \/ /\ docker' = [docker EXCEPT ![class] = 0]
         /\ seeds' = IF class = "volumes" THEN {} ELSE seeds
         /\ pulled' = (pulled \/ R!Pulls(s))
         /\ R!Goes(s, R!AfterClass[class])
      \/ R!GivesUp(s) /\ UNCHANGED <<docker, seeds, pulled>>
  BY <1>3 DEF R!Remove
<1>6. R!Goes(s, R!AfterClass[class]) => Moved(s, R!AfterClass[class]) /\ Keeps(s)
  BY <1>4, GoesMoves
<1>7. R!GivesUp(s) => GaveUp(s)
  BY <1>4, GoesMoves, EndsStops DEF R!GivesUp, R!Tearing, GaveUp
<1> QED
  BY <1>1, <1>2, <1>3, <1>5, <1>6, <1>7

(* A run leaves its directory and calls its clean-up complete; a clean-up   *)
(* command removes it with its claim and its files, or not.                 *)
LEMMA DirectoryEffect ==
  ASSUME RunTypes, NEW s \in Shells, R!RemoveDirectory(s)
  PROVE  /\ UNCHANGED <<docker, seeds, given, crashes, faults, measured, swept, byHand>>
         /\ shell[s].pc = "directory"
         /\ \/ /\ shell[s].op = "execute" /\ UNCHANGED <<there, owner, files, pulled>>
               /\ shell' \in [Shells -> ShellType] /\ Others(s)
               /\ shell'[s].op = shell[s].op /\ shell'[s].id = shell[s].id
               /\ shell'[s].axes = shell[s].axes /\ shell'[s].owns = shell[s].owns
               /\ shell'[s].pc = "mkfinal" /\ shell'[s].clean
            \/ /\ shell[s].op # "execute" /\ Stopped(s)
               /\ \/ UNCHANGED <<there, owner, files, pulled>>
                  \/ /\ there' = FALSE /\ owner' = 0 /\ files' = R!EmptyDisk
                     /\ pulled' = (pulled \/ R!Pulls(s) \/ docker["volumes"] # 0)
<1>0. shell \in [Shells -> ShellType] /\ "mkfinal" \in RunPcs
  BY DEF RunTypes, RunPcs, Ending
<1>1. UNCHANGED <<docker, seeds, given, crashes, faults, measured, swept, byHand>>
  BY DEF R!RemoveDirectory, R!bounds
<1>2. CASE R!Tearing(s)
  <2>1. /\ shell' = [shell EXCEPT ![s].pc = "mkfinal", ![s].clean = TRUE]
        /\ UNCHANGED <<there, owner, files, pulled>>
    BY <1>2 DEF R!RemoveDirectory, R!disk
  <2> QED
    BY <1>0, <1>1, <1>2, <2>1 DEF R!RemoveDirectory, R!Tearing, ShellType, Others
<1>3. CASE ~R!Tearing(s)
  <2>1. R!Ends(s)
    BY <1>3 DEF R!RemoveDirectory
  <2>2. \/ UNCHANGED <<there, owner, files, pulled>>
        \/ /\ there' = FALSE /\ owner' = 0 /\ files' = R!EmptyDisk
           /\ pulled' = (pulled \/ R!Pulls(s) \/ docker["volumes"] # 0)
    BY <1>3 DEF R!RemoveDirectory, R!disk
  <2> QED
    BY <1>1, <1>3, <2>1, <2>2, EndsStops DEF R!RemoveDirectory, R!Tearing
<1> QED
  BY <1>2, <1>3

(* What the lists of the files hold.                                       *)
LEMMA ListsTyped ==
  ASSUME RunTypes, NEW s \in Shells, R!Id(s) # 0, NEW name \in R!Names, R!Ready(s, name)
  PROVE  R!Lists(s, name) \in Listings
<1>0. /\ R!Id(s) \in R!Commands /\ shell[s].kept \in Listings /\ MaxCommands \in Nat
      /\ files \in [R!Names -> FileType]
  BY BenchmarkAssumption DEF RunTypes, ShellType, R!Id, R!Commands
<1>1. \A n \in R!Present : files[n].by \in R!Commands
  BY <1>0 DEF R!Present, FileType, R!Commands
<1>2. \A names \in SUBSET R!Present : R!Ids(names) \in Listings
  BY <1>1 DEF R!Ids, Listings, R!Present
<1>3. <<"sources", R!Id(s)>> \in R!Names \X R!Commands /\ <<"bundle", R!Id(s)>> \in R!Names \X R!Commands
  BY <1>0 DEF R!Names
<1>4. CASE name = "sources"
  BY <1>2, <1>4 DEF R!Lists
<1>5. CASE name \in {"report", "COMPLETED"}
  BY <1>3, <1>5 DEF R!Lists, Listings
<1>6. CASE name = "bundle"
  <2>1. CASE shell[s].axes = R!Measured
    BY <1>2, <1>6, <2>1 DEF R!Lists, R!Ready
  <2>2. CASE shell[s].axes # R!Measured
    BY <1>0, <1>3, <1>6, <2>2 DEF R!Lists, Listings
  <2> QED
    BY <2>1, <2>2
<1>7. CASE name \notin {"sources", "report", "bundle", "COMPLETED"}
  BY <1>7 DEF R!Lists, Listings
<1> QED
  BY <1>4, <1>5, <1>6, <1>7

(* A command that is over stops or hangs.                                   *)
LEMMA OverEffect ==
  ASSUME RunTypes, NEW s \in Shells, R!Over(s)
  PROVE  Stopped(s) \/ (Moved(s, "hangs") /\ Keeps(s))
<1>1. "hangs" \in RunPcs
  BY DEF RunPcs, Ending
<1> QED
  BY <1>1, EndsStops, GoesMoves DEF R!Over

(* A file of the end is written, or it is the end.                         *)
LEMMA FinalEffect ==
  ASSUME RunTypes, NEW s \in Shells, R!WriteFinal(s)
  PROVE  /\ UNCHANGED <<docker, seeds, owner, given, crashes, faults, measured, pulled, byHand>>
         /\ shell[s].op = "execute" /\ shell[s].pc \in R!Names \ R!Raw
         /\ \/ /\ there /\ there' = TRUE
               /\ files[shell[s].pc].by = 0 /\ R!Ready(s, shell[s].pc)
               /\ files' = [files EXCEPT ![shell[s].pc] =
                             R!File(s, shell[s].axes, R!Lists(s, shell[s].pc))]
               /\ swept' = IF shell[s].pc = "status" /\ shell[s].clean
                           THEN swept \cup {R!Id(s)} ELSE swept
               /\ \/ Stopped(s) \/ (Moved(s, "hangs") /\ Keeps(s))
                  \/ /\ shell[s].pc # "COMPLETED"
                     /\ shell' \in [Shells -> ShellType] /\ Others(s)
                     /\ shell'[s].op = shell[s].op /\ shell'[s].id = shell[s].id
                     /\ shell'[s].axes = shell[s].axes /\ shell'[s].owns = shell[s].owns
                     /\ shell'[s].clean = shell[s].clean
                     /\ shell'[s].pc = R!AfterName(shell[s].axes)[shell[s].pc]
            \/ /\ UNCHANGED <<files, there, swept>>
               /\ Stopped(s) \/ (Moved(s, "hangs") /\ Keeps(s))
<1>0. shell \in [Shells -> ShellType]
  BY DEF RunTypes
<1>1. UNCHANGED <<docker, seeds, owner, given, crashes, faults, measured, pulled, byHand>>
  BY DEF R!WriteFinal, R!bounds
<1>2. PICK name \in R!Names \ R!Raw : name = shell[s].pc /\ shell[s].op = "execute"
  BY DEF R!WriteFinal
<1> DEFINE next0 == R!AfterName(shell[s].axes)[name]
<1>3. CASE there /\ files[name].by = 0 /\ R!Ready(s, name)
  <2>1. /\ there' = TRUE
        /\ files' = [files EXCEPT ![name] = R!File(s, shell[s].axes, R!Lists(s, name))]
        /\ swept' = IF name = "status" /\ shell[s].clean THEN swept \cup {R!Id(s)} ELSE swept
    BY <1>2, <1>3 DEF R!WriteFinal, R!Writes
  <2>2. CASE next0 = "over"
    <3>1. R!Over(s)
      BY <1>2, <1>3, <2>2 DEF R!WriteFinal
    <3> QED
      BY <1>1, <1>2, <1>3, <2>1, <3>1, OverEffect
  <2>3. CASE next0 # "over"
    <3>1. PICK k \in Listings, p \in RunPcs : p = next0
            /\ shell' = [shell EXCEPT ![s].pc = p, ![s].kept = k]
      <4>1. next0 \in RunPcs
        BY <1>2, <2>3 DEF R!AfterName, R!Names, R!Raw, RunPcs, Ending
      <4>2. Fits(shell[s])
        BY DEF RunTypes
      <4>3. R!Id(s) # 0
        BY <1>2, <4>2 DEF Fits, Busy, R!Idle, R!Id
      <4>4. R!Lists(s, name) \in Listings /\ shell[s].kept \in Listings
        BY <1>0, <1>2, <1>3, <4>3, ListsTyped DEF ShellType
      <4>5. shell' = [shell EXCEPT ![s].pc = next0,
                        ![s].kept = IF name = "sources" THEN R!Lists(s, name) ELSE @]
        BY <1>2, <1>3, <2>3 DEF R!WriteFinal
      <4> DEFINE k == IF name = "sources" THEN R!Lists(s, name) ELSE shell[s].kept
      <4>6. shell' = [shell EXCEPT ![s].pc = next0, ![s].kept = k]
        BY <4>5, <1>0
      <4>7. k \in Listings
        BY <4>4
      <4> HIDE DEF next0, k
      <4> QED
        BY <4>1, <4>6, <4>7
    <3>2. name # "COMPLETED"
      BY <2>3 DEF R!AfterName
    <3>3. /\ shell' \in [Shells -> ShellType] /\ Others(s)
          /\ shell'[s].op = shell[s].op /\ shell'[s].id = shell[s].id
          /\ shell'[s].axes = shell[s].axes /\ shell'[s].owns = shell[s].owns
          /\ shell'[s].clean = shell[s].clean
          /\ shell'[s].pc = p
      BY ZenonT(40), <1>0, <3>1 DEF ShellType, Others
    <3> QED
      BY <1>1, <1>2, <1>3, <2>1, <3>1, <3>2, <3>3
  <2> QED
    BY <2>2, <2>3
<1>4. CASE ~(there /\ files[name].by = 0 /\ R!Ready(s, name))
  BY <1>1, <1>2, <1>4, OverEffect DEF R!WriteFinal
<1> QED
  BY <1>3, <1>4

(* Evidence by hand.                                                       *)
LEMMA HandEffect ==
  ASSUME RunTypes, NEW s \in Shells, R!Provenance(s) \/ R!Derive(s) \/ R!Finalize(s)
  PROVE  /\ UNCHANGED <<docker, seeds, owner, given, crashes, faults, measured, swept, pulled>>
         /\ shell[s].op \notin {"execute", "start", "cleanup"}
         /\ \/ Stopped(s)
            \/ /\ shell' \in [Shells -> ShellType] /\ Others(s)
               /\ shell'[s].op = shell[s].op /\ shell'[s].id = shell[s].id
               /\ shell'[s].clean = shell[s].clean /\ shell[s].op = "finalize"
               /\ shell'[s].pc = "COMPLETED"
         /\ \/ UNCHANGED <<files, there, byHand>>
            \/ /\ byHand' = TRUE /\ there' = TRUE
               /\ \E n \in R!Names, of \in Listings :
                    files[n].by = 0 /\ files' = [files EXCEPT ![n] = R!File(s, R!Measured, of)]
<1>0. /\ shell \in [Shells -> ShellType] /\ files \in [R!Names -> FileType]
      /\ MaxCommands \in Nat /\ Fits(shell[s])
  BY BenchmarkAssumption DEF RunTypes
<1>1. UNCHANGED <<docker, seeds, owner, given, crashes, faults, measured, swept, pulled>>
  BY DEF R!Provenance, R!Derive, R!Finalize, R!HandOnly, R!bounds
<1>2. R!Id(s) \in R!Commands
  BY <1>0 DEF R!Provenance, R!Derive, R!Finalize, Fits, Busy, R!Id, R!Idle, ShellType, R!Commands
<1>3. \A n \in R!Present : files[n].by \in R!Commands
  BY <1>0 DEF R!Present, FileType, R!Commands
<1>4. \A names \in SUBSET R!Present : R!Ids(names) \in Listings
  BY <1>3 DEF R!Ids, Listings, R!Present
<1>5. ASSUME NEW n \in R!Names, NEW of \in Listings, R!ByHand(s, n, of)
      PROVE  /\ byHand' = TRUE /\ there' = TRUE
             /\ files[n].by = 0 /\ files' = [files EXCEPT ![n] = R!File(s, R!Measured, of)]
  BY <1>5 DEF R!ByHand, R!Writes
<1>6. {"sources", "report", "bundle", "COMPLETED"} \subseteq R!Names
  BY DEF R!Names
<1>7. CASE R!Provenance(s)
  <2>1. \/ UNCHANGED <<files, there, byHand>>
        \/ R!ByHand(s, "sources", R!Ids(R!Present \ {"sources", "report", "bundle", "COMPLETED"}))
    BY <1>7 DEF R!Provenance
  <2>2. R!Ids(R!Present \ {"sources", "report", "bundle", "COMPLETED"}) \in Listings
    BY <1>4
  <2>3. Stopped(s) /\ shell[s].op = "provenance"
    BY <1>7, EndsStops DEF R!Provenance
  <2> QED
    BY <1>1, <1>5, <1>6, <2>1, <2>2, <2>3
<1>8. CASE R!Derive(s)
  <2>1. \/ UNCHANGED <<files, there, byHand>>
        \/ "sources" \in R!Present /\ R!ByHand(s, "report", R!Ids({"sources"}))
    BY <1>6, <1>8 DEF R!Derive, R!SourcesHold, R!Present
  <2>2. "sources" \in R!Present => R!Ids({"sources"}) \in Listings
    BY <1>4
  <2>3. Stopped(s) /\ shell[s].op = "derive"
    BY <1>8, EndsStops DEF R!Derive
  <2> QED
    BY <1>1, <1>5, <1>6, <2>1, <2>2, <2>3
<1>9. CASE R!Finalize(s) /\ shell[s].pc = "bundle"
  <2>1. CASE there /\ files["bundle"].by = 0 /\ R!SourcesHold /\ R!Bundled \subseteq R!Present
    <3>1. /\ R!ByHand(s, "bundle", R!Ids(R!Bundled))
          /\ shell' = [shell EXCEPT ![s].pc = "COMPLETED", ![s].kept = R!Ids({"sources"})]
      BY <1>9, <2>1 DEF R!Finalize
    <3>2. R!Ids(R!Bundled) \in Listings
      BY <1>4, <2>1
    <3>3. R!Ids({"sources"}) \in Listings /\ "COMPLETED" \in RunPcs
      BY <1>4, <1>6, <2>1 DEF R!SourcesHold, R!Present, RunPcs, Ending
    <3>4. /\ shell' \in [Shells -> ShellType] /\ Others(s)
          /\ shell'[s].op = shell[s].op /\ shell'[s].id = shell[s].id
          /\ shell'[s].clean = shell[s].clean
          /\ shell'[s].pc = "COMPLETED"
      BY <1>0, <3>1, <3>3 DEF ShellType, Others
    <3> QED
      BY <1>1, <1>5, <1>6, <1>9, <3>1, <3>2, <3>4 DEF R!Finalize
  <2>2. CASE ~(there /\ files["bundle"].by = 0 /\ R!SourcesHold /\ R!Bundled \subseteq R!Present)
    BY <1>1, <1>9, <2>2, EndsStops DEF R!Finalize
  <2> QED
    BY <2>1, <2>2
<1>10. CASE R!Finalize(s) /\ shell[s].pc # "bundle"
  <2>1. \/ UNCHANGED <<files, there, byHand>>
        \/ R!ByHand(s, "COMPLETED", shell[s].kept \cup {<<"bundle", R!Id(s)>>})
    BY <1>10 DEF R!Finalize
  <2>2. shell[s].kept \cup {<<"bundle", R!Id(s)>>} \in Listings
    BY <1>0, <1>2, <1>6 DEF ShellType, Listings
  <2>3. Stopped(s) /\ shell[s].op = "finalize"
    BY <1>10, EndsStops DEF R!Finalize
  <2> QED
    BY <1>1, <1>5, <1>6, <2>1, <2>2, <2>3
<1> QED
  BY <1>7, <1>8, <1>9, <1>10


-----------------------------------------------------------------------------
(* The steps of a command: every one is one of these.                      *)
Looks(s) ==
  \/ R!Fresh(s) \/ R!Make(s) \/ R!Mkdir(s) \/ R!StartEnds(s) \/ R!WarmUp(s)
  \/ R!Confirm(s) \/ R!MakeFinal(s) \/ R!Crash(s)
Previews(s) == R!Teardown(s) \/ R!Preview(s)
Hands(s) == R!Provenance(s) \/ R!Derive(s) \/ R!Finalize(s)

Acts(s) ==
  \/ \E o \in DOMAIN R!Start : R!Command(s, o)
  \/ Looks(s) \/ Previews(s) \/ R!Own(s) \/ R!Up(s) \/ R!Seed(s) \/ R!Measure(s)
  \/ R!Remove(s) \/ R!RemoveDirectory(s) \/ R!WriteFinal(s) \/ Hands(s)

(* Every step of the runner is a step of one shell.                         *)
LEMMA RunSteps ==
  ASSUME R!Next
  PROVE  \E s \in Shells : Acts(s)
  BY DEF R!Next, Acts, Looks, Previews, Hands

(* Where a command goes, it fits.                                          *)
LEMMA ShellStep ==
  ASSUME RunTypes, NEW s \in Shells, Acts(s)
  PROVE  shell' \in [Shells -> ShellType] /\ Others(s) /\ Fits(shell'[s])
<1> USE DEF Admission, Phases, Clearing, Ending
<1>0. Fits(shell[s])
  BY DEF RunTypes
<1>1. Stopped(s) => shell' \in [Shells -> ShellType] /\ Others(s) /\ Fits(shell'[s])
  BY IdleType DEF Stopped
<1>i. shell[s].pc # "idle" => Busy(shell[s])
  BY <1>0 DEF Fits, R!Idle
<1>2. ASSUME NEW o \in DOMAIN R!Start, R!Command(s, o)
      PROVE  shell' \in [Shells -> ShellType] /\ Others(s) /\ Fits(shell'[s])
  BY <1>2, CommandEffect
<1>3. CASE Looks(s)
  <2>1. CASE shell[s].op # "execute"
    BY <1>i, <1>1, <1>3, <2>1, LookEffect DEF Looks, Moved, Keeps, Fits, Busy
  <2>2. CASE shell[s].op = "execute" /\ shell[s].pc \in Admission
    BY <1>i, <1>1, <1>3, <2>2, LookEffect DEF Looks, Moved, Keeps, Fits, Busy
  <2>3. CASE shell[s].op = "execute" /\ shell[s].pc = "warm-up"
    BY <1>i, <1>1, <1>3, <2>3, LookEffect, AxesDiffer DEF Looks, Moved, Keeps, Fits, Busy
  <2>4. CASE shell[s].op = "execute" /\ shell[s].pc \notin Admission \cup {"warm-up"}
    BY <1>i, <1>1, <1>3, <2>4, LookEffect DEF Looks, Moved, Fits, Busy
  <2> QED
    BY <2>1, <2>2, <2>3, <2>4
<1>4. CASE Previews(s)
  <2>1. /\ shell' \in [Shells -> ShellType] /\ Others(s)
        /\ shell'[s].op = shell[s].op /\ shell'[s].id = shell[s].id
        /\ shell'[s].owns = shell[s].owns
        /\ \/ shell[s].pc \in {"teardown", "preview"} /\ shell'[s].pc = "confirm"
              /\ shell'[s].clean = shell[s].clean
           \/ shell[s].pc = "teardown" /\ shell'[s].pc = "mkfinal" /\ shell'[s].clean
    BY <1>4, PreviewEffect DEF Previews
  <2>2. Busy(shell'[s])
    BY <1>i, <2>1 DEF Busy
  <2> QED
    BY <2>1, <2>2 DEF Fits
<1>5. CASE R!Own(s)
  BY <1>i, <1>1, <1>5, OwnEffect DEF Fits, Busy
<1>6. CASE R!Up(s)
  <2>1. shell[s].pc = "up" /\ shell[s].axes # R!Measured /\ R!FailedSetup # R!Measured
    BY <1>i, <1>6, UpEffect, AxesDiffer DEF Busy
  <2>2. \/ Stopped(s)
        \/ /\ shell' \in [Shells -> ShellType] /\ Others(s)
           /\ shell'[s].op = shell[s].op /\ shell'[s].id = shell[s].id
           /\ shell'[s].owns = shell[s].owns /\ shell'[s].clean = shell[s].clean
           /\ shell'[s].axes # R!Measured
           /\ shell'[s].pc \in IF shell[s].op = "start" THEN {"stop"} ELSE {"seed", "teardown"}
    BY <1>6, <2>1, UpEffect DEF Moved, Keeps
  <2> QED
    BY <1>i, <1>1, <2>1, <2>2 DEF Fits, Busy
<1>7. CASE R!Seed(s)
  BY <1>i, <1>1, <1>7, SeedEffect DEF Moved, Fits, Busy
<1>8. CASE R!Measure(s)
  <2>1. /\ shell' \in [Shells -> ShellType] /\ Others(s) /\ shell[s].pc \in R!Raw
        /\ shell'[s].op = shell[s].op /\ shell'[s].id = shell[s].id
        /\ shell'[s].owns = shell[s].owns /\ shell'[s].clean = shell[s].clean
        /\ shell'[s].pc \in {R!NextRaw[shell[s].pc], "teardown"}
        /\ shell[s].pc # "observed" /\ shell[s].axes # R!Measured => shell'[s].axes # R!Measured
    BY <1>8, MeasureEffect, AxesDiffer
  <2>2. Busy(shell'[s])
    BY <1>i, <2>1 DEF Busy, R!Raw, R!NextRaw
  <2> QED
    BY <2>1, <2>2 DEF Fits
<1>9. CASE R!Remove(s)
  BY <1>i, <1>1, <1>9, RemoveEffect DEF Moved, GaveUp, R!Classes, R!AfterClass, Fits, Busy
<1>10. CASE R!RemoveDirectory(s)
  BY <1>i, <1>1, <1>10, DirectoryEffect DEF Fits, Busy
<1>11. CASE R!WriteFinal(s)
  <2>1. /\ shell[s].op = "execute" /\ shell[s].pc \in R!Names \ R!Raw
        /\ \/ Stopped(s)
           \/ Moved(s, "hangs")
           \/ /\ shell[s].pc # "COMPLETED"
              /\ shell' \in [Shells -> ShellType] /\ Others(s)
              /\ shell'[s].op = shell[s].op /\ shell'[s].id = shell[s].id
              /\ shell'[s].owns = shell[s].owns /\ shell'[s].clean = shell[s].clean
              /\ shell'[s].pc = R!AfterName(shell[s].axes)[shell[s].pc]
    BY <1>11, FinalEffect
  <2>2. CASE Moved(s, "hangs")
    BY <1>i, <2>1, <2>2 DEF Moved, R!Names, R!Raw, Fits, Busy
  <2>3. CASE /\ shell[s].pc # "COMPLETED"
             /\ shell' \in [Shells -> ShellType] /\ Others(s)
             /\ shell'[s].op = shell[s].op /\ shell'[s].id = shell[s].id
             /\ shell'[s].owns = shell[s].owns /\ shell'[s].clean = shell[s].clean
             /\ shell'[s].pc = R!AfterName(shell[s].axes)[shell[s].pc]
    <3>1. shell'[s].pc \in Ending /\ shell[s].pc \in Ending
      BY <2>1, <2>3 DEF R!AfterName, R!Names, R!Raw
    <3> QED
      BY <1>i, <2>1, <2>3, <3>1 DEF Fits, Busy
  <2> QED
    BY <1>1, <2>1, <2>2, <2>3
<1>12. CASE Hands(s)
  <2>1. \/ Stopped(s)
        \/ /\ shell' \in [Shells -> ShellType] /\ Others(s)
           /\ shell'[s].op = shell[s].op /\ shell'[s].id = shell[s].id
           /\ shell'[s].clean = shell[s].clean /\ shell[s].op = "finalize"
           /\ shell'[s].pc = "COMPLETED" /\ shell[s].pc # "idle"
    <3>1. R!Provenance(s) \/ R!Derive(s) \/ R!Finalize(s)
      BY <1>12 DEF Hands
    <3>2. shell[s].pc # "idle"
      BY <3>1 DEF R!Provenance, R!Derive, R!Finalize
    <3> QED
      BY <3>1, <3>2, HandEffect
  <2> QED
    BY <1>i, <1>1, <2>1 DEF Fits, Busy
<1> QED
  BY <1>2, <1>3, <1>4, <1>5, <1>6, <1>7, <1>8, <1>9, <1>10, <1>11, <1>12 DEF Acts

(* A file written by a command of a typed shell is typed.                   *)
LEMMA FileWritten ==
  ASSUME RunTypes, NEW s \in Shells, NEW n, NEW axes \in R!Axes, NEW of \in Listings,
         files' = [files EXCEPT ![n] = R!File(s, axes, of)]
  PROVE  files' \in [R!Names -> FileType]
<1>1. R!File(s, axes, of) \in FileType
  BY DEF RunTypes, ShellType, R!File, R!Id, FileType
<1> QED
  BY <1>1 DEF RunTypes

(* Every step keeps the types.                                              *)
LEMMA RunTypesStep ==
  ASSUME RunTypes, R!Next
  PROVE  RunTypes'
<1>0. PICK s \in Shells : Acts(s)
  BY RunSteps
<1>1. shell' \in [Shells -> ShellType] /\ Others(s) /\ Fits(shell'[s])
  BY <1>0, ShellStep
<1>2. \A t \in Shells : Fits(shell[t])'
  BY <1>1 DEF Others, RunTypes
<1>3. /\ R!TypeOK /\ files \in [R!Names -> FileType] /\ shell \in [Shells -> ShellType]
      /\ {MaxCommands, MaxCrashes, MaxFaults} \subseteq Nat
      /\ R!Id(s) \in 0 .. MaxCommands
      /\ {R!Measured, R!NotRun, R!FailedSetup} \subseteq R!Axes
  BY BenchmarkAssumption DEF RunTypes, ShellType, R!Id, R!Axes
<1>4. shell[s].pc # "idle" => R!Id(s) \in R!Commands
  BY <1>3 DEF RunTypes, Fits, Busy, R!Idle, R!Id, R!Commands
<1>5. CASE \/ \E o \in DOMAIN R!Start : R!Command(s, o)
           \/ Looks(s) \/ Previews(s)
  <2>1. /\ UNCHANGED <<docker, seeds, owner, files, measured, swept, pulled, byHand>>
        /\ given' \in 0 .. MaxCommands /\ crashes' \in {crashes, crashes + 1}
        /\ faults' \in {faults, faults + 1}
        /\ (crashes' # crashes => crashes < MaxCrashes)
        /\ (faults' # faults => faults < MaxFaults)
        /\ there' \in {there, TRUE}
    <3>1. CASE \E o \in DOMAIN R!Start : R!Command(s, o)
      BY <3>1, CommandEffect DEF Quiet
    <3>2. CASE Looks(s)
      BY <1>3, <3>2, LookEffect DEF Quiet, Looks, R!TypeOK
    <3>3. CASE Previews(s)
      BY <1>3, <3>3, PreviewEffect DEF Quiet, Previews, R!TypeOK
    <3> QED
      BY <1>5, <3>1, <3>2, <3>3
  <2>2. there' \in BOOLEAN
    BY <1>3, <2>1 DEF R!TypeOK
  <2> QED
    BY <1>1, <1>2, <1>3, <2>1, <2>2 DEF RunTypes, R!TypeOK
<1>6. CASE R!Own(s)
  <2>1. /\ UNCHANGED <<docker, seeds, there, files, given, crashes, faults>>
        /\ UNCHANGED <<measured, swept, pulled, byHand>>
        /\ owner' \in {owner, R!Id(s)}
    BY <1>6, OwnEffect
  <2> QED
    BY <1>1, <1>2, <1>3, <2>1 DEF RunTypes, R!TypeOK
<1>7. CASE R!Up(s)
  <2>1. /\ UNCHANGED <<seeds, owner, files, given, crashes>>
        /\ there' \in {there, TRUE}
        /\ UNCHANGED <<measured, swept, pulled, byHand>>
        /\ faults' \in {faults, faults + 1} /\ (faults' # faults => faults < MaxFaults)
        /\ docker' \in [R!Classes -> 0 .. MaxCommands]
    BY <1>7, UpEffect
  <2>2. there' \in BOOLEAN
    BY <1>3, <2>1 DEF R!TypeOK
  <2> QED
    BY <1>1, <1>2, <1>3, <2>1, <2>2 DEF RunTypes, R!TypeOK
<1>8. CASE R!Seed(s)
  <2>1. /\ UNCHANGED <<docker, there, owner, files, given, crashes>>
        /\ UNCHANGED <<measured, swept, pulled, byHand>>
        /\ faults' \in {faults, faults + 1} /\ (faults' # faults => faults < MaxFaults)
        /\ seeds' \subseteq seeds \cup {R!Id(s)}
        /\ R!Id(s) \in R!Commands
    BY <1>4, <1>8, SeedEffect
  <2> QED
    BY <1>1, <1>2, <1>3, <2>1 DEF RunTypes, R!TypeOK
<1>9. CASE R!Measure(s)
  <2>1. /\ UNCHANGED <<docker, seeds, owner, given, crashes, swept, pulled, byHand>>
        /\ faults' \in {faults, faults + 1} /\ (faults' # faults => faults < MaxFaults)
        /\ measured' \subseteq measured \cup {R!Id(s)} /\ R!Id(s) \in R!Commands
        /\ there' \in {there, TRUE}
        /\ files' = files \/ files' = [files EXCEPT ![shell[s].pc] = R!File(s, R!NotRun, {})]
    BY <1>4, <1>9, MeasureEffect DEF R!Raw
  <2>2. files' \in [R!Names -> FileType]
    BY <1>3, <2>1, FileWritten DEF Listings
  <2>3. \A n \in R!Names : /\ files'[n].by \in 0 .. MaxCommands /\ files'[n].axes \in R!Axes
                          /\ files'[n].of \subseteq R!Names \X R!Commands
    BY <2>2 DEF FileType, Listings
  <2>4. faults' \in 0 .. MaxFaults
    BY <1>3, <2>1 DEF R!TypeOK
  <2>5. there' \in BOOLEAN /\ measured' \subseteq R!Commands
    BY <1>3, <2>1 DEF R!TypeOK
  <2> QED
    BY <1>1, <1>2, <1>3, <2>1, <2>2, <2>3, <2>4, <2>5 DEF RunTypes, R!TypeOK
<1>10. CASE R!Remove(s)
  <2>1. /\ UNCHANGED <<there, owner, files, given, crashes, measured, swept, byHand>>
        /\ faults' \in {faults, faults + 1} /\ (faults' # faults => faults < MaxFaults)
        /\ docker' = docker \/ docker' = [docker EXCEPT ![shell[s].pc] = 0]
        /\ seeds' \subseteq seeds
    BY <1>10, RemoveEffect
  <2>2. pulled' \in BOOLEAN
    BY <1>3, <1>10, RemoveEffect DEF R!TypeOK
  <2> QED
    BY <1>1, <1>2, <1>3, <2>1, <2>2 DEF RunTypes, R!TypeOK
<1>11. CASE R!RemoveDirectory(s)
  <2>1. /\ UNCHANGED <<docker, seeds, given, crashes, faults, measured, swept, byHand>>
        /\ there' \in {there, FALSE} /\ owner' \in {owner, 0}
        /\ files' = files \/ files' = R!EmptyDisk
    BY <1>11, DirectoryEffect
  <2>2. pulled' \in BOOLEAN
    BY <1>3, <1>11, DirectoryEffect DEF R!TypeOK
  <2>3. files' \in [R!Names -> FileType]
    BY <1>3, <2>1 DEF R!EmptyDisk, R!NoFile, FileType, Listings
  <2>4. there' \in BOOLEAN /\ owner' \in 0 .. MaxCommands
    <3>1. there \in BOOLEAN /\ owner \in 0 .. MaxCommands /\ 0 \in 0 .. MaxCommands
      BY <1>3 DEF R!TypeOK
    <3> QED
      BY <2>1, <3>1
  <2>5. \A n \in R!Names : /\ files'[n].by \in 0 .. MaxCommands /\ files'[n].axes \in R!Axes
                          /\ files'[n].of \subseteq R!Names \X R!Commands
    BY <2>3 DEF FileType, Listings
  <2> QED
    BY <1>1, <1>2, <1>3, <2>1, <2>2, <2>3, <2>4, <2>5 DEF RunTypes, R!TypeOK
<1>12. CASE R!WriteFinal(s)
  <2>1. /\ UNCHANGED <<docker, seeds, owner, given, crashes, faults, measured, pulled, byHand>>
        /\ there' \in {there, TRUE} /\ swept' \subseteq swept \cup {R!Id(s)}
        /\ R!Id(s) \in R!Commands
    <3>1. shell[s].pc # "idle"
      BY <1>12, FinalEffect DEF R!Names
    <3> QED
      BY <1>4, <1>12, <3>1, FinalEffect
  <2>2. files' \in [R!Names -> FileType]
    <3>1. \/ files' = files
          \/ /\ shell[s].pc \in R!Names /\ R!Ready(s, shell[s].pc)
             /\ files' = [files EXCEPT ![shell[s].pc] =
                           R!File(s, shell[s].axes, R!Lists(s, shell[s].pc))]
      BY <1>12, FinalEffect
    <3>2. R!Id(s) # 0 /\ shell[s].axes \in R!Axes
      BY <1>3, <2>1 DEF R!Commands, ShellType
    <3> QED
      BY <1>3, <3>1, <3>2, ListsTyped, FileWritten
  <2> QED
    BY <1>1, <1>2, <1>3, <2>1, <2>2 DEF RunTypes, R!TypeOK, FileType, Listings
<1>13. CASE Hands(s)
  <2>1. /\ UNCHANGED <<docker, seeds, owner, given, crashes, faults, measured, swept, pulled>>
        /\ there' \in {there, TRUE} /\ byHand' \in {byHand, TRUE}
    BY <1>13, HandEffect DEF Hands
  <2>2. files' \in [R!Names -> FileType]
    <3>1. \/ files' = files
          \/ \E n \in R!Names, of \in Listings : files' = [files EXCEPT ![n] = R!File(s, R!Measured, of)]
      BY <1>13, HandEffect DEF Hands
    <3> QED
      BY <1>3, <3>1, FileWritten
  <2> QED
    BY <1>1, <1>2, <1>3, <2>1, <2>2 DEF RunTypes, R!TypeOK, FileType, Listings
<1> QED
  BY <1>0, <1>5, <1>6, <1>7, <1>8, <1>9, <1>10, <1>11, <1>12, <1>13 DEF Acts


-----------------------------------------------------------------------------
(* Commands are told apart, and what they made is known by them.           *)
Told ==
  /\ \A s, t \in Shells : R!Id(s) # 0 /\ R!Id(s) = R!Id(t) => s = t
  /\ \A s \in Shells : R!Id(s) <= given
  /\ \A c \in R!Classes : docker[c] <= given
  /\ \A r \in swept : r <= given

(* What a run's clean-up still has before it holds all that the run made.   *)
ToCome == [containers |-> R!Classes, networks |-> {"networks", "volumes"},
           volumes |-> {"volumes"}, directory |-> {}]
Targeted(s) ==
  shell[s].op = "execute" /\ shell[s].pc \in DOMAIN ToCome =>
    \A c \in R!Classes : docker[c] = R!Id(s) => c \in ToCome[shell[s].pc] /\ R!Target(s, c)

(* A run that calls its clean-up complete has nothing left, nor will have.  *)
Swept ==
  /\ R!NothingLeft
  /\ \A s \in Shells :
       /\ shell[s].clean => \A c \in R!Classes : docker[c] # R!Id(s)
       /\ R!Id(s) \in swept => shell[s].clean
       /\ Targeted(s)

(* The directory is the claim that keeps two runs apart.                   *)
Owned ==
  /\ docker["volumes"] = 0 => seeds = {}
  /\ ~pulled => /\ seeds \subseteq {owner}
                /\ \A s \in Shells : R!Running(s) => owner = R!Id(s)

(* The files that a measured run has written when it comes to the next.     *)
Before == [manifest |-> {"status"}, sources |-> {"status", "manifest"},
           report |-> {"status", "manifest", "sources"},
           bundle |-> {"status", "manifest", "sources", "report"},
           COMPLETED |-> {"status", "manifest", "sources", "report", "bundle"}]
Earlier(pc) == IF pc \in DOMAIN Before THEN Before[pc] ELSE {}
By(r, names) == \A n \in names : files[n].by = r
ListsRaw(r) == \A n \in R!Raw : <<n, r>> \in files["sources"].of

Progress(s) ==
  /\ shell[s].pc = "workload" => By(R!Id(s), {"window"})
  /\ shell[s].pc = "observed" => By(R!Id(s), {"window", "workload"})
  /\ shell[s].axes = R!Measured =>
       /\ R!Id(s) \in measured /\ By(R!Id(s), R!Raw)
       /\ By(R!Id(s), Earlier(shell[s].pc))
       /\ shell[s].pc \in {"report", "bundle", "COMPLETED"} => ListsRaw(R!Id(s))

(* Files are the owner's, and the marker is the last of them.              *)
Evidenced ==
  ~pulled /\ ~byHand =>
    /\ \A n \in R!Names : files[n].by \in {0, owner}
    /\ \A s \in Shells : R!Running(s) => Progress(s)
    /\ files["COMPLETED"].by # 0 /\ files["COMPLETED"].axes = R!Measured =>
         owner \in measured /\ By(owner, R!Names) /\ ListsRaw(owner)

RunInv == RunTypes /\ Told /\ Swept /\ Owned /\ Evidenced

(* The invariant of the runs holds before the first command.                *)
LEMMA RunInit == R!Init => RunInv
<1> SUFFICES ASSUME R!Init PROVE RunInv
  OBVIOUS
<1>1. RunTypes
  BY RunTypesInit
<1>2. /\ \A s \in Shells : shell[s] = R!Idle
      /\ \A n \in R!Names : files[n] = R!NoFile
      /\ \A c \in R!Classes : docker[c] = 0
      /\ given = 0 /\ owner = 0 /\ seeds = {} /\ swept = {} /\ pulled = FALSE
  BY DEF R!Init, R!EmptyDisk
<1>3. Told
  BY <1>2 DEF Told, R!Id, R!Idle
<1>4. Swept
  BY <1>2 DEF Swept, R!NothingLeft, Targeted, R!Idle, R!Id
<1>5. Owned
  BY <1>2 DEF Owned, R!Running, R!Idle
<1>6. Evidenced
  <2>1. (\A n \in R!Names : files[n].by = 0) /\ "COMPLETED" \in R!Names
    BY <1>2 DEF R!NoFile, R!Names
  <2> QED
    BY <1>2, <2>1 DEF Evidenced, R!Running, R!Idle, By
<1> QED
  BY <1>1, <1>3, <1>4, <1>5, <1>6 DEF RunInv

(* Who a command is does not change while it runs.                         *)
LEMMA StepIds ==
  ASSUME RunTypes, NEW s \in Shells, Acts(s)
  PROVE  \/ /\ \E o \in DOMAIN R!Start : R!Command(s, o)
            /\ R!Id(s)' = given + 1 /\ given' = given + 1 /\ R!Id(s) = 0
         \/ given' = given /\ shell'[s] = R!Idle
         \/ given' = given /\ R!Id(s)' = R!Id(s) /\ shell'[s].op = shell[s].op
<1> USE DEF Stopped, Moved, R!Id
<1>1. CASE \E o \in DOMAIN R!Start : R!Command(s, o)
  <2>1. PICK o \in DOMAIN R!Start : R!Command(s, o)
    BY <1>1
  <2>2. /\ given' = given + 1 /\ shell[s] = R!Idle
        /\ shell'[s] = [R!Idle EXCEPT !.op = o, !.pc = R!Start[o], !.id = given']
    BY <2>1, CommandEffect
  <2> QED
    BY <2>1, <2>2 DEF R!Idle
<1>2. CASE Looks(s)
  BY <1>2, LookEffect DEF Looks
<1>3. CASE Previews(s)
  BY <1>3, PreviewEffect DEF Previews
<1>4. CASE R!Own(s)
  BY <1>4, OwnEffect
<1>5. CASE R!Up(s)
  BY <1>5, UpEffect
<1>6. CASE R!Seed(s)
  BY <1>6, SeedEffect
<1>7. CASE R!Measure(s)
  BY <1>7, MeasureEffect
<1>8. CASE R!Remove(s)
  BY <1>8, RemoveEffect DEF GaveUp
<1>9. CASE R!RemoveDirectory(s)
  BY <1>9, DirectoryEffect
<1>10. CASE R!WriteFinal(s)
  BY <1>10, FinalEffect
<1>11. CASE Hands(s)
  BY <1>11, HandEffect DEF Hands
<1> QED
  BY <1>1, <1>2, <1>3, <1>4, <1>5, <1>6, <1>7, <1>8, <1>9, <1>10, <1>11 DEF Acts

(* What a command makes or sweeps is its own.                              *)
LEMMA StepMakes ==
  ASSUME RunTypes, NEW s \in Shells, Acts(s)
  PROVE  /\ \A c \in R!Classes :
              \/ docker'[c] \in {0, docker[c]}
              \/ docker'[c] = R!Id(s) /\ R!Id(s) # 0 /\ shell[s].pc = "up"
         /\ \/ swept' = swept
            \/ /\ swept' = swept \cup {R!Id(s)} /\ R!Id(s) # 0
               /\ shell[s].pc = "status" /\ shell[s].clean
<1>0. docker \in [R!Classes -> 0 .. MaxCommands] /\ Fits(shell[s])
  BY DEF RunTypes, R!TypeOK
<1>i. shell[s].pc # "idle" => R!Id(s) # 0
  BY <1>0 DEF Fits, Busy, R!Idle, R!Id
<1>1. CASE \E o \in DOMAIN R!Start : R!Command(s, o)
  BY <1>1, CommandEffect DEF Quiet
<1>2. CASE Looks(s)
  BY <1>2, LookEffect DEF Looks, Quiet
<1>3. CASE Previews(s)
  BY <1>3, PreviewEffect DEF Previews, Quiet
<1>4. CASE R!Own(s)
  BY <1>4, OwnEffect
<1>5. CASE R!Up(s)
  BY <1>5, <1>i, UpEffect
<1>6. CASE R!Seed(s)
  BY <1>6, SeedEffect
<1>7. CASE R!Measure(s)
  BY <1>7, MeasureEffect
<1>8. CASE R!Remove(s)
  BY <1>0, <1>8, RemoveEffect
<1>9. CASE R!RemoveDirectory(s)
  BY <1>9, DirectoryEffect
<1>10. CASE R!WriteFinal(s)
  BY <1>10, <1>i, FinalEffect
<1>11. CASE Hands(s)
  BY <1>11, HandEffect DEF Hands
<1> QED
  BY <1>1, <1>2, <1>3, <1>4, <1>5, <1>6, <1>7, <1>8, <1>9, <1>10, <1>11 DEF Acts

(* Numbers stay apart: a step gives one shell the next number or none at    *)
(* all, and what it makes has that number.                                  *)
LEMMA ToldStep ==
  ASSUME RunTypes, Told, R!Next
  PROVE  Told'
<1>0. PICK s \in Shells : Acts(s)
  BY RunSteps
<1>1. \A t \in Shells \ {s} : R!Id(t)' = R!Id(t)
  BY <1>0, ShellStep DEF Others, R!Id
<1>2. \/ R!Id(s)' = given + 1 /\ given' = given + 1
      \/ given' = given /\ R!Id(s)' \in {0, R!Id(s)}
  BY <1>0, StepIds DEF R!Id, R!Idle
<1>3. given \in Nat /\ \A t \in Shells : R!Id(t) \in Nat
  BY DEF RunTypes, R!TypeOK, ShellType, R!Id
<1>4. /\ \A c \in R!Classes : docker'[c] \in {0, docker[c], R!Id(s)}
      /\ swept' \subseteq swept \cup {R!Id(s)}
  BY <1>0, StepMakes
<1>5. (\A c \in R!Classes : docker[c] \in Nat) /\ \A r \in swept : r \in Nat
  <2>1. docker \in [R!Classes -> 0 .. MaxCommands] /\ swept \subseteq R!Commands
    BY DEF RunTypes, R!TypeOK
  <2>2. \A r \in swept : r \in Nat
    BY <2>1 DEF R!Commands
  <2>3. \A c \in R!Classes : docker[c] \in Nat
    BY <2>1
  <2> QED
    BY <2>2, <2>3
<1>6. \A t, u \in Shells : R!Id(t)' # 0 /\ R!Id(t)' = R!Id(u)' => t = u
  BY <1>1, <1>2, <1>3 DEF Told
<1>7. \A t \in Shells : R!Id(t)' <= given'
  BY <1>1, <1>2, <1>3 DEF Told
<1>8. \A c \in R!Classes : docker'[c] <= given'
  BY <1>2, <1>3, <1>4, <1>5 DEF Told
<1>9. \A r \in swept' : r <= given'
  BY <1>2, <1>3, <1>4, <1>5 DEF Told
<1> QED
  BY <1>6, <1>7, <1>8, <1>9 DEF Told

(* Where a command's clean-up goes from here.                              *)
LEMMA StepClears ==
  ASSUME RunTypes, NEW s \in Shells, Acts(s)
  PROVE  \/ \E o \in DOMAIN R!Start : R!Command(s, o)
         \/ shell'[s] = R!Idle
         \/ /\ shell'[s].clean = shell[s].clean
            /\ shell'[s].op = "execute" => shell'[s].pc \notin DOMAIN ToCome
         \/ /\ shell[s].pc = "teardown" /\ R!NoTargets(R!View) /\ docker' = docker
            /\ shell'[s].pc = "mkfinal" /\ shell'[s].clean
         \/ /\ shell[s].pc = "confirm" /\ R!View = shell[s].seen /\ docker' = docker
            /\ shell'[s].pc = "containers" /\ shell'[s].clean = shell[s].clean
            /\ shell'[s].seen = shell[s].seen
         \/ /\ shell[s].pc \in R!Classes /\ shell'[s].pc = R!AfterClass[shell[s].pc]
            /\ shell'[s].clean = shell[s].clean /\ shell'[s].seen = shell[s].seen
            /\ \/ ~R!Target(s, shell[s].pc) /\ docker' = docker
               \/ docker' = [docker EXCEPT ![shell[s].pc] = 0]
         \/ /\ shell[s].pc = "directory" /\ shell[s].op = "execute" /\ docker' = docker
            /\ shell'[s].pc = "mkfinal" /\ shell'[s].clean
<1> USE DEF Stopped, Moved
<1>d. DOMAIN ToCome = {"containers", "networks", "volumes", "directory"}
  BY DEF ToCome
<1>0. Fits(shell[s])
  BY DEF RunTypes
<1>1. CASE \E o \in DOMAIN R!Start : R!Command(s, o)
  BY <1>1
<1>2. CASE Looks(s)
  BY <1>d, <1>2, LookEffect DEF Looks, Quiet
<1>3. CASE Previews(s)
  <2>1. shell[s].pc = "teardown" => shell[s].owns
    BY <1>0 DEF Fits, Busy, R!Idle, Admission, Phases, Clearing, Ending
  <2> QED
    BY <1>d, <1>3, <2>1, PreviewEffect DEF Previews, Quiet
<1>4. CASE R!Own(s)
  BY <1>d, <1>4, OwnEffect
<1>5. CASE R!Up(s)
  BY <1>d, <1>5, UpEffect
<1>6. CASE R!Seed(s)
  BY <1>d, <1>6, SeedEffect
<1>7. CASE R!Measure(s)
  <2>1. /\ shell[s].pc \in R!Raw /\ shell'[s].clean = shell[s].clean
        /\ shell'[s].pc \in {R!NextRaw[shell[s].pc], "teardown"}
    BY <1>7, MeasureEffect
  <2>2. shell'[s].pc \notin DOMAIN ToCome
    BY <1>d, <2>1 DEF R!Raw, R!NextRaw
  <2> QED
    BY <2>1, <2>2
<1>8. CASE R!Remove(s)
  BY <1>d, <1>8, RemoveEffect DEF GaveUp
<1>9. CASE R!RemoveDirectory(s)
  BY <1>d, <1>9, DirectoryEffect
<1>10. CASE R!WriteFinal(s)
  <2>1. /\ shell[s].pc \in R!Names \ R!Raw
        /\ \/ Stopped(s)
           \/ Moved(s, "hangs")
           \/ /\ shell[s].pc # "COMPLETED" /\ shell'[s].clean = shell[s].clean
              /\ shell'[s].pc = R!AfterName(shell[s].axes)[shell[s].pc]
    BY <1>10, FinalEffect
  <2>2. shell[s].pc # "COMPLETED" => R!AfterName(shell[s].axes)[shell[s].pc] \notin DOMAIN ToCome
    BY <1>d, <2>1 DEF R!Names, R!Raw, R!AfterName
  <2> QED
    BY <1>d, <2>1, <2>2
<1>11. CASE Hands(s)
  BY <1>d, <1>11, HandEffect DEF Hands
<1> QED
  BY <1>1, <1>2, <1>3, <1>4, <1>5, <1>6, <1>7, <1>8, <1>9, <1>10, <1>11 DEF Acts

(* A step that is not a new command is the step of a command with a         *)
(* number.                                                                  *)
LEMMA BusyActs ==
  ASSUME RunTypes, NEW s \in Shells, Acts(s), ~(\E o \in DOMAIN R!Start : R!Command(s, o))
  PROVE  R!Id(s) # 0
<1>1. shell[s].pc # "idle"
  BY DEF Acts, Looks, Previews, Hands, R!Fresh, R!Make, R!Mkdir, R!Own, R!Up, R!StartEnds,
         R!Seed, R!WarmUp, R!Measure, R!Teardown, R!Preview, R!Confirm, R!Remove,
         R!RemoveDirectory, R!MakeFinal, R!WriteFinal, R!Provenance, R!Derive, R!Finalize,
         R!Crash, R!Raw, R!Classes, R!Names
<1> QED
  BY <1>1 DEF RunTypes, Fits, Busy, R!Idle, R!Id

(* A run that calls its clean-up complete has nothing left: while it        *)
(* clears one class it holds the later ones as targets, and once past a     *)
(* class nothing of its own is made in it again.                            *)
LEMMA SweptStep ==
  ASSUME RunTypes, RunTypes', Told, Swept, R!Next
  PROVE  Swept'
<1>0. PICK s \in Shells : Acts(s)
  BY RunSteps
<1> DEFINE Tidy(t) == /\ shell[t].clean => \A c \in R!Classes : docker[c] # R!Id(t)
                      /\ R!Id(t) \in swept => shell[t].clean
                      /\ Targeted(t)
<1>1. /\ \A c \in R!Classes :
           \/ docker'[c] \in {0, docker[c]}
           \/ docker'[c] = R!Id(s) /\ R!Id(s) # 0 /\ shell[s].pc = "up"
      /\ \/ swept' = swept
         \/ /\ swept' = swept \cup {R!Id(s)} /\ R!Id(s) # 0
            /\ shell[s].pc = "status" /\ shell[s].clean
  BY <1>0, StepMakes
<1>2. 0 \notin swept /\ 0 \notin swept'
  BY DEF RunTypes, R!TypeOK, R!Commands
<1>3. \A t \in Shells :
        /\ shell[t].clean => shell[t].pc \in Ending /\ R!Id(t) # 0
        /\ shell[t].op = "execute" => R!Id(t) # 0
  BY DEF RunTypes, Fits, Busy, R!Idle, R!Id
<1>4. R!NothingLeft'
  BY <1>1, <1>2, <1>3 DEF Swept, R!NothingLeft, Ending
<1>5. ASSUME NEW t \in Shells \ {s} PROVE Tidy(t)'
  <2>1. shell'[t] = shell[t]
    BY <1>0, ShellStep DEF Others
  <2>2. R!Id(t)' = R!Id(t) /\ \A c \in R!Classes : R!Target(t, c)' <=> R!Target(t, c)
    BY <2>1 DEF R!Id, R!Target
  <2>3. R!Id(t) # 0 => \A c \in R!Classes : docker'[c] = R!Id(t) => docker[c] = R!Id(t)
    BY <1>1 DEF Told
  <2>4. R!Id(t) \in swept' => R!Id(t) \in swept
    BY <1>1 DEF Told
  <2>5. Targeted(t)'
    BY <1>3, <2>1, <2>2, <2>3 DEF Swept, Targeted
  <2> QED
    BY <1>3, <2>1, <2>2, <2>3, <2>4, <2>5 DEF Swept
<1>6. Tidy(s)'
  <2>1. CASE \E o \in DOMAIN R!Start : R!Command(s, o)
    <3>1. PICK o \in DOMAIN R!Start : R!Command(s, o)
      BY <2>1
    <3>2. /\ swept' = swept /\ given' = given + 1
          /\ shell'[s] = [R!Idle EXCEPT !.op = o, !.pc = R!Start[o], !.id = given']
      BY <3>1, CommandEffect DEF Quiet
    <3>3. R!Id(s)' = given + 1 /\ ~shell'[s].clean /\ shell'[s].pc = R!Start[o] /\ shell'[s].op = o
      BY <3>2 DEF R!Idle, R!Id
    <3>4. R!Id(s)' \notin swept'
      BY <3>2, <3>3 DEF RunTypes, R!TypeOK, Told
    <3>5. Targeted(s)'
      BY <3>3 DEF Targeted, R!Start, ToCome
    <3> QED
      BY <3>3, <3>4, <3>5
  <2>2. CASE shell'[s] = R!Idle
    BY <1>2, <2>2 DEF Targeted, R!Idle, R!Id
  <2>3. CASE ~(\E o \in DOMAIN R!Start : R!Command(s, o)) /\ shell'[s] # R!Idle
    <3>1. R!Id(s)' = R!Id(s) /\ shell'[s].op = shell[s].op
      BY <1>0, <2>3, StepIds
    <3>2. R!Id(s) # 0
      BY <2>3, <1>0, BusyActs
    <3>3. \/ /\ shell'[s].clean = shell[s].clean
             /\ shell'[s].op = "execute" => shell'[s].pc \notin DOMAIN ToCome
          \/ /\ shell[s].pc = "teardown" /\ R!NoTargets(R!View) /\ docker' = docker
             /\ shell'[s].pc = "mkfinal" /\ shell'[s].clean
          \/ /\ shell[s].pc = "confirm" /\ R!View = shell[s].seen /\ docker' = docker
             /\ shell'[s].pc = "containers" /\ shell'[s].clean = shell[s].clean
             /\ shell'[s].seen = shell[s].seen
          \/ /\ shell[s].pc \in R!Classes /\ shell'[s].pc = R!AfterClass[shell[s].pc]
             /\ shell'[s].clean = shell[s].clean /\ shell'[s].seen = shell[s].seen
             /\ \/ ~R!Target(s, shell[s].pc) /\ docker' = docker
                \/ docker' = [docker EXCEPT ![shell[s].pc] = 0]
          \/ /\ shell[s].pc = "directory" /\ shell[s].op = "execute" /\ docker' = docker
             /\ shell'[s].pc = "mkfinal" /\ shell'[s].clean
      BY <1>0, <2>3, StepClears
    <3>4. shell[s].clean => shell'[s].clean
      BY <3>3
    <3>5. R!Id(s)' \in swept' => shell'[s].clean
      BY <1>1, <3>1, <3>4 DEF Swept
    <3>6. CASE /\ shell'[s].clean = shell[s].clean
               /\ shell'[s].op = "execute" => shell'[s].pc \notin DOMAIN ToCome
      <4>1. shell[s].clean => \A c \in R!Classes : docker'[c] # R!Id(s)
        BY <1>1, <1>3, <3>2 DEF Swept, Ending
      <4> QED
        BY <3>1, <3>5, <3>6, <4>1 DEF Targeted
    <3>7. CASE /\ shell[s].pc = "teardown" /\ R!NoTargets(R!View) /\ docker' = docker
               /\ shell'[s].pc = "mkfinal" /\ shell'[s].clean
      <4>1. \A c \in R!Classes : docker[c] = 0
        BY <3>7 DEF R!NoTargets, R!View, R!Classes
      <4> QED
        BY <3>1, <3>2, <3>7, <4>1 DEF Targeted, ToCome
    <3>8. CASE /\ shell[s].pc = "confirm" /\ R!View = shell[s].seen /\ docker' = docker
               /\ shell'[s].pc = "containers" /\ shell'[s].clean = shell[s].clean
               /\ shell'[s].seen = shell[s].seen
      <4>1. \A c \in R!Classes : docker[c] = R!Id(s) => R!Target(s, c)'
        <5>1. /\ shell'[s].seen = R!View
              /\ docker["containers"] # 0 => R!View["containers"] # 0
              /\ docker["networks"] # 0 => R!View["networks"] # 0
              /\ docker["volumes"] # 0 => R!View.volumes
          BY <3>8 DEF R!View
        <5>2. \A c \in R!Classes : docker[c] # 0 => R!Target(s, c)'
          BY <5>1 DEF R!Target, R!Classes
        <5> QED
          BY <3>2, <5>2
      <4>2. Targeted(s)'
        BY <3>1, <3>8, <4>1 DEF Targeted, ToCome
      <4> QED
        BY <3>1, <3>5, <3>8, <4>2 DEF Swept
    <3>9. CASE /\ shell[s].pc \in R!Classes /\ shell'[s].pc = R!AfterClass[shell[s].pc]
               /\ shell'[s].clean = shell[s].clean /\ shell'[s].seen = shell[s].seen
               /\ \/ ~R!Target(s, shell[s].pc) /\ docker' = docker
                  \/ docker' = [docker EXCEPT ![shell[s].pc] = 0]
      <4>1. ~shell[s].clean
        BY <1>3, <3>9 DEF Ending, R!Classes
      <4>2. PICK k \in R!Classes : k = shell[s].pc
        BY <3>9
      <4>3. \A c \in R!Classes : docker'[c] = R!Id(s) =>
              docker[c] = R!Id(s) /\ (c # k \/ ~R!Target(s, k))
        <5>1. docker \in [R!Classes -> 0 .. MaxCommands]
          BY DEF RunTypes, R!TypeOK
        <5> QED
          BY <3>2, <3>9, <4>2, <5>1
      <4>4. \A c \in R!Classes : R!Target(s, c)' <=> R!Target(s, c)
        BY <3>9 DEF R!Target
      <4>5. \A c \in ToCome[k] : c = k \/ c \in ToCome[R!AfterClass[k]]
        BY DEF ToCome, R!AfterClass, R!Classes
      <4>6. shell[s].op = "execute" => \A c \in R!Classes : docker[c] = R!Id(s) => c \in ToCome[k] /\ R!Target(s, c)
        BY <4>2 DEF Swept, Targeted, ToCome, R!Classes
      <4>7. Targeted(s)'
        BY <3>1, <3>9, <4>2, <4>3, <4>4, <4>5, <4>6 DEF Targeted
      <4> QED
        BY <3>5, <3>9, <4>1, <4>7
    <3>10. CASE /\ shell[s].pc = "directory" /\ shell[s].op = "execute" /\ docker' = docker
                /\ shell'[s].pc = "mkfinal" /\ shell'[s].clean
      <4>1. \A c \in R!Classes : docker[c] # R!Id(s)
        BY <3>10 DEF Swept, Targeted, ToCome
      <4> QED
        BY <3>1, <3>10, <4>1 DEF Targeted, ToCome
    <3> QED
      BY <3>3, <3>6, <3>7, <3>8, <3>9, <3>10
  <2> QED
    BY <2>1, <2>2, <2>3
<1> QED
  BY <1>4, <1>5, <1>6 DEF Swept

(* A run begins with its claim, and nothing else gives it one.             *)
LEMMA StepRuns ==
  ASSUME RunTypes, NEW s \in Shells, Acts(s), NEW t \in Shells, R!Running(t)'
  PROVE  /\ R!Id(t)' = R!Id(t) /\ R!Id(t) # 0
         /\ \/ R!Running(t)
            \/ t = s /\ R!Own(s) /\ owner = 0 /\ owner' = R!Id(s)
<1> USE DEF R!Running
<1>0. \A u \in Shells : shell[u].op = "execute" => R!Id(u) # 0
  BY DEF RunTypes, Fits, Busy, R!Idle, R!Id
<1>1. CASE t # s
  <2>1. shell'[t] = shell[t]
    BY <1>1, ShellStep DEF Others
  <2> QED
    BY <1>0, <2>1 DEF R!Id
<1>2. CASE t = s
  <2> USE <1>2 DEF Stopped, Moved, R!Id, R!Idle
  <2>1. ASSUME NEW o \in DOMAIN R!Start, R!Command(s, o) PROVE FALSE
    <3> HIDE DEF R!Idle
    <3>0. shell'[s] = [R!Idle EXCEPT !.op = o, !.pc = R!Start[o], !.id = given']
      BY <2>1, CommandEffect
    <3>1. shell'[s].op = o /\ shell'[s].pc = R!Start[o]
      BY <3>0 DEF R!Idle
    <3> QED
      BY <3>1 DEF R!Start
  <2>a. shell'[s].op = "execute"
    OBVIOUS
  <2>2. R!Id(s)' = R!Id(s) /\ shell[s].op = "execute"
    BY <2>1, StepIds
  <2>3. CASE Looks(s)
    <3>0. shell'[s].op = "execute" /\ R!Idle.op # "execute"
      BY <2>a DEF R!Idle
    <3> HIDE DEF R!Idle
    <3>1. \/ shell[s].pc = "fresh" /\ shell'[s].pc = "make"
          \/ shell[s].pc = "make" /\ shell'[s].pc = "mkdir"
          \/ shell[s].pc = "mkdir" /\ shell'[s].pc = "own"
          \/ shell[s].pc \in {"warm-up", "confirm", "mkfinal"}
      BY <2>3, <3>0, LookEffect DEF Looks
    <3> QED
      BY <1>0, <2>2, <3>1
  <2>4. CASE Previews(s)
    BY <1>0, <2>2, <2>4, PreviewEffect DEF Previews
  <2>5. CASE R!Own(s)
    BY <1>0, <2>2, <2>5, OwnEffect
  <2>6. CASE ~Looks(s) /\ ~Previews(s) /\ ~R!Own(s)
    BY <1>0, <2>1, <2>2, <2>6 DEF Acts, Hands, R!Up, R!Seed, R!Measure, R!Remove, R!Raw, R!Classes,
                R!RemoveDirectory, R!WriteFinal, R!Names, R!Provenance, R!Derive, R!Finalize
  <2> QED
    BY <2>3, <2>4, <2>5, <2>6
<1> QED
  BY <1>1, <1>2

(* What becomes of the claim and of the volumes.                           *)
LEMMA StepClaims ==
  ASSUME RunTypes, NEW s \in Shells, Acts(s)
  PROVE  /\ pulled => pulled'
         /\ \/ /\ owner' = owner /\ pulled' = pulled /\ seeds' = seeds
               /\ docker'["volumes"] = 0 => docker["volumes"] = 0
               /\ files' # files => \/ R!Measure(s) \/ R!WriteFinal(s)
                                   \/ byHand'
            \/ /\ owner' = owner /\ files' = files /\ pulled' = (pulled \/ R!Pulls(s))
               /\ \/ seeds' = {}
                  \/ seeds' = seeds /\ docker'["volumes"] = docker["volumes"]
            \/ /\ R!Own(s) /\ owner = 0 /\ owner' = R!Id(s)
               /\ UNCHANGED <<docker, seeds, files, pulled>>
            \/ /\ R!Seed(s) /\ docker["volumes"] # 0 /\ seeds' = seeds \cup {R!Id(s)}
               /\ UNCHANGED <<docker, owner, files, pulled>>
            \/ /\ shell[s].op # "execute" /\ owner' = 0 /\ files' = R!EmptyDisk
               /\ shell'[s] = R!Idle /\ UNCHANGED <<docker, seeds>>
               /\ pulled' = (pulled \/ R!Pulls(s) \/ docker["volumes"] # 0)
<1>0. docker \in [R!Classes -> 0 .. MaxCommands] /\ pulled \in BOOLEAN /\ "volumes" \in R!Classes
  BY DEF RunTypes, R!TypeOK, R!Classes
<1>1. CASE \E o \in DOMAIN R!Start : R!Command(s, o)
  BY <1>1, CommandEffect DEF Quiet
<1>2. CASE Looks(s)
  BY <1>2, LookEffect DEF Looks, Quiet
<1>3. CASE Previews(s)
  BY <1>3, PreviewEffect DEF Previews, Quiet
<1>4. CASE R!Own(s)
  BY <1>4, OwnEffect
<1>5. CASE R!Up(s)
  <2>1. docker'["volumes"] = 0 => docker["volumes"] = 0
    <3>1. Acts(s)
      OBVIOUS
    <3>2. R!Id(s) # 0 => docker'["volumes"] = docker["volumes"] \/ docker'["volumes"] # 0
      BY <1>0, <1>5, UpEffect
    <3>3. R!Id(s) # 0
      BY <1>5 DEF R!Up, RunTypes, Fits, Busy, R!Idle, R!Id
    <3> QED
      BY <3>2, <3>3
  <2> QED
    BY <1>5, <2>1, UpEffect
<1>6. CASE R!Seed(s)
  BY <1>6, SeedEffect
<1>7. CASE R!Measure(s)
  BY <1>7, MeasureEffect
<1>8. CASE R!Remove(s)
  BY <1>0, <1>8, RemoveEffect
<1>9. CASE R!RemoveDirectory(s)
  BY <1>0, <1>9, DirectoryEffect DEF Stopped
<1>10. CASE R!WriteFinal(s)
  BY <1>10, FinalEffect
<1>11. CASE Hands(s)
  BY <1>11, HandEffect DEF Hands
<1> QED
  BY <1>1, <1>2, <1>3, <1>4, <1>5, <1>6, <1>7, <1>8, <1>9, <1>10, <1>11 DEF Acts

(* While no claim has been pulled from under a run, the owner of the        *)
(* directory is the one run that is running, and the seeds are its own.     *)
LEMMA OwnedStep ==
  ASSUME RunTypes, Owned, R!Next
  PROVE  Owned'
<1>0. PICK s \in Shells : Acts(s)
  BY RunSteps
<1>1. /\ seeds \subseteq R!Commands /\ 0 \notin R!Commands
      /\ docker \in [R!Classes -> 0 .. MaxCommands] /\ "volumes" \in R!Classes
      /\ R!Seed(s) => R!Running(s)
  BY DEF RunTypes, R!TypeOK, R!Commands, R!Classes, R!Seed, R!Running, Fits, Busy, R!Idle,
         Admission, Phases, Clearing, Ending
<1>2. docker'["volumes"] = 0 => seeds' = {}
  BY <1>0, StepClaims DEF Owned
<1>3. ASSUME ~pulled' PROVE seeds' \subseteq {owner'}
  BY <1>0, <1>1, <1>3, StepClaims DEF Owned
<1>4. ASSUME ~pulled', NEW t \in Shells, R!Running(t)' PROVE owner' = R!Id(t)'
  <2>1. R!Id(t)' = R!Id(t) /\ R!Id(t) # 0
    BY <1>0, <1>4, StepRuns
  <2>2. CASE R!Running(t)
    <3>1. owner = R!Id(t)
      BY <1>0, <1>4, <2>2, StepClaims DEF Owned
    <3>2. owner' = owner
      BY <1>0, <1>4, <2>1, <2>2, <3>1, StepClaims DEF R!Pulls, R!Tearing
    <3> QED
      BY <2>1, <3>1, <3>2
  <2>3. CASE t = s /\ R!Own(s) /\ owner = 0 /\ owner' = R!Id(s)
    BY <2>1, <2>3
  <2> QED
    BY <1>0, <1>4, <2>2, <2>3, StepRuns
<1> QED
  BY <1>2, <1>3, <1>4 DEF Owned

(* A run's evidence grows with its work.                                   *)
LEMMA MeasureProgress ==
  ASSUME RunTypes, NEW s \in Shells, R!Measure(s), Progress(s)
  PROVE  Progress(s)'
<1> USE DEF R!Id
<1>0. files \in [R!Names -> FileType] /\ R!Raw \subseteq R!Names /\ Busy(shell[s])
  BY DEF RunTypes, R!Raw, R!Names, R!Measure, Fits, R!Idle
<1>1. PICK n \in R!Raw : n = shell[s].pc
  BY MeasureEffect
<1>2. shell[s].axes # R!Measured /\ shell'[s].id = shell[s].id
  BY <1>0, <1>1, MeasureEffect DEF Busy, R!Raw, Clearing, Ending
<1>3. CASE /\ files' = [files EXCEPT ![n] = R!File(s, R!NotRun, {})]
           /\ shell'[s].pc = R!NextRaw[n]
           /\ n = "observed" => shell'[s].axes = R!Measured /\ measured' = measured \cup {shell[s].id}
           /\ n # "observed" => shell'[s].axes = shell[s].axes
  <2>1. files'[n].by = shell[s].id /\ \A m \in R!Names \ {n} : files'[m].by = files[m].by
    BY <1>0, <1>3 DEF R!File
  <2>2. CASE n = "window"
    BY <1>1, <1>2, <1>3, <2>1, <2>2 DEF Progress, R!NextRaw, By
  <2>3. CASE n = "workload"
    BY <1>0, <1>1, <1>2, <1>3, <2>1, <2>3 DEF Progress, R!NextRaw, By, R!Raw
  <2>4. CASE n = "observed"
    BY <1>0, <1>1, <1>2, <1>3, <2>1, <2>4 DEF Progress, R!NextRaw, By, R!Raw, Earlier, Before
  <2> QED
    BY <2>2, <2>3, <2>4 DEF R!Raw
<1>4. CASE shell'[s].pc = "teardown" /\ shell'[s].axes = R!NotRun
  BY <1>4, AxesDiffer DEF Progress
<1> QED
  BY <1>1, <1>3, <1>4, MeasureEffect

(* A final file is written when those before it are there, and by the run   *)
(* whose files they are.                                                    *)
LEMMA FinalProgress ==
  ASSUME RunTypes, NEW s \in Shells, R!WriteFinal(s), Progress(s), ~Stopped(s)
  PROVE  Progress(s)'
<1> USE DEF R!Id
<1>0. files \in [R!Names -> FileType] /\ R!Raw \subseteq R!Names /\ shell[s].id # 0
  BY DEF RunTypes, R!Raw, R!Names, R!WriteFinal, Fits, Busy, R!Idle
<1>1. PICK n \in R!Names \ R!Raw : n = shell[s].pc
  BY FinalEffect
<1>r. PICK r : r = shell[s].id /\ r # 0
  BY <1>0
<1>2. shell'[s].axes = shell[s].axes /\ shell'[s].id = r /\ measured' = measured
  BY <1>r, FinalEffect DEF Moved, Keeps
<1>3. \/ files' = files
      \/ files[n].by = 0 /\ files' = [files EXCEPT ![n] = R!File(s, shell[s].axes, R!Lists(s, n))]
  BY <1>1, FinalEffect
<1>4. \A m \in R!Names : m # n => files'[m] = files[m]
  BY <1>0, <1>3
<1>5. CASE shell[s].axes = R!Measured
  <2>1. r \in measured /\ By(r, R!Raw) /\ By(r, Earlier(n))
        /\ (n \in {"report", "bundle", "COMPLETED"} => ListsRaw(r))
    BY <1>1, <1>r, <1>5 DEF Progress
  <2>2. By(r, R!Raw)'
    BY <1>0, <1>2, <1>4, <2>1 DEF By
  <2>3. CASE shell'[s].pc = "hangs"
    BY <1>2, <2>1, <2>2, <2>3 DEF Progress, Earlier, Before, By
  <2>4. CASE shell'[s].pc # "hangs"
    <3>1. /\ n # "COMPLETED" /\ shell'[s].pc = R!AfterName(R!Measured)[n]
          /\ files' = [files EXCEPT ![n] = R!File(s, shell[s].axes, R!Lists(s, n))]
      BY <1>1, <1>5, <2>4, FinalEffect DEF Moved
    <3>p. PICK p : p = shell'[s].pc
      OBVIOUS
    <3>2. files'[n].by = r /\ files'[n].of = R!Lists(s, n)
      BY <1>0, <1>r, <3>1 DEF R!File
    <3>3. n \in {"status", "manifest", "sources", "report", "bundle"}
      BY <3>1 DEF R!Names, R!Raw
    <3>4. p \in {"manifest", "sources", "report", "bundle", "COMPLETED"}
      BY <3>1, <3>3, <3>p DEF R!AfterName
    <3>5. Earlier(p) \subseteq Earlier(n) \cup {n} /\ Earlier(p) \subseteq R!Names
      BY <3>1, <3>3, <3>p DEF R!AfterName, Earlier, Before, R!Names
    <3>6. By(r, Earlier(p))'
      BY <1>4, <2>1, <3>2, <3>5 DEF By
    <3>7. p \in {"report", "bundle", "COMPLETED"} => ListsRaw(r)'
      <4>1. CASE n = "sources"
        <5>1. \A m \in R!Raw : m \in R!Present \ {"bundle", "COMPLETED"} /\ files[m].by = r
          BY <1>0, <1>r, <2>1 DEF By, R!Present, R!Raw
        <5>2. \A m \in R!Raw : <<m, r>> \in R!Ids(R!Present \ {"bundle", "COMPLETED"})
          BY <5>1 DEF R!Ids
        <5>3. files'["sources"].of = R!Ids(R!Present \ {"bundle", "COMPLETED"})
          BY <3>2, <4>1 DEF R!Lists
        <5> QED
          BY <5>2, <5>3 DEF ListsRaw
      <4>2. CASE n \in {"report", "bundle"}
        <5>1. files'["sources"] = files["sources"]
          BY <1>4, <4>2 DEF R!Names
        <5> QED
          BY <2>1, <4>2, <5>1 DEF ListsRaw
      <4>3. CASE n \in {"status", "manifest"}
        BY <3>1, <3>p, <4>3 DEF R!AfterName
      <4> QED
        BY <3>3, <4>1, <4>2, <4>3
    <3>8. p \notin {"workload", "observed"}
      BY <3>4
    <3> QED
      BY <1>2, <2>1, <2>2, <3>p, <3>6, <3>7, <3>8 DEF Progress
  <2> QED
    BY <2>3, <2>4
<1>6. CASE shell[s].axes # R!Measured
  <2>1. shell'[s].pc \notin {"workload", "observed"}
    <3>1. \/ Moved(s, "hangs")
          \/ n # "COMPLETED" /\ shell'[s].pc = R!AfterName(shell[s].axes)[n]
      BY <1>1, FinalEffect
    <3>2. n # "COMPLETED" => R!AfterName(shell[s].axes)[n] \notin {"workload", "observed"}
      BY DEF R!AfterName, R!Names, R!Raw
    <3> QED
      BY <3>1, <3>2 DEF Moved
  <2> QED
    BY <1>2, <1>6, <2>1 DEF Progress
<1> QED
  BY <1>5, <1>6

(* A step that neither measures nor writes a file leaves what the run has   *)
(* written.                                                                 *)
LEMMA OtherProgress ==
  ASSUME RunTypes, NEW s \in Shells, Acts(s), R!Running(s), R!Running(s)', Progress(s),
         ~R!Measure(s), ~R!WriteFinal(s), files' = files, measured \subseteq measured'
  PROVE  Progress(s)'
<1> USE DEF R!Id
<1>0. shell[s].op = "execute" /\ shell'[s].op = "execute" /\ shell'[s] # R!Idle
      /\ shell[s].pc \notin Admission
  BY DEF R!Running, R!Idle, Admission
<1>1. shell'[s].id = shell[s].id
  BY <1>0, StepRuns
<1>2. /\ shell'[s].axes \in {shell[s].axes, R!FailedSetup}
      /\ shell'[s].pc \notin {"workload", "observed"} \cup DOMAIN Before
  <2> USE DEF Before, Moved, Keeps, Stopped
  <2>1. CASE \E o \in DOMAIN R!Start : R!Command(s, o)
    <3>1. shell[s] = R!Idle
      BY <2>1, CommandEffect
    <3> QED
      BY <1>0, <3>1 DEF R!Idle
  <2>2. CASE Looks(s)
    BY <1>0, <2>2, LookEffect DEF Looks
  <2>3. CASE Previews(s)
    BY <2>3, PreviewEffect DEF Previews
  <2>4. CASE R!Own(s)
    BY <1>0, <2>4, OwnEffect DEF Admission
  <2>5. CASE R!Up(s)
    BY <1>0, <2>5, UpEffect
  <2>6. CASE R!Seed(s)
    BY <2>6, SeedEffect
  <2>7. CASE R!Remove(s)
    BY <1>0, <2>7, RemoveEffect DEF GaveUp, R!Classes, R!AfterClass
  <2>8. CASE R!RemoveDirectory(s)
    BY <1>0, <2>8, DirectoryEffect
  <2>9. CASE Hands(s)
    BY <1>0, <2>9, HandEffect DEF Hands
  <2> QED
    BY <2>1, <2>2, <2>3, <2>4, <2>5, <2>6, <2>7, <2>8, <2>9 DEF Acts
<1>3. Earlier(shell'[s].pc) = {} /\ shell'[s].pc \notin {"report", "bundle", "COMPLETED"}
  BY <1>2 DEF Earlier, Before
<1> QED
  BY <1>1, <1>2, <1>3, AxesDiffer DEF Progress, By

(* What becomes of the files, as long as nobody interferes.                *)
LEMMA StepFiles ==
  ASSUME RunTypes, NEW s \in Shells, Acts(s), ~pulled', ~byHand'
  PROVE  /\ ~pulled /\ ~byHand /\ measured \subseteq measured'
         /\ \/ files' = files /\ owner' = owner
            \/ files' = files /\ R!Own(s) /\ owner = 0 /\ owner' = R!Id(s)
            \/ /\ files' = R!EmptyDisk /\ owner' = 0
               /\ \A t \in Shells : ~R!Running(t)
            \/ /\ owner' = owner /\ R!Running(s) /\ (R!Measure(s) \/ R!WriteFinal(s))
               /\ \E n \in R!Names :
                    /\ n = shell[s].pc /\ files[n].by = 0
                    /\ files'[n].by = R!Id(s) /\ \A m \in R!Names \ {n} : files'[m] = files[m]
                    /\ n = "COMPLETED" => files'[n].axes = shell[s].axes
<1>0. files \in [R!Names -> FileType] /\ pulled \in BOOLEAN /\ byHand \in BOOLEAN
  BY DEF RunTypes, R!TypeOK
<1>1. CASE R!Measure(s)
  <2>1. R!Running(s)
    BY <1>1 DEF R!Measure, R!Raw, RunTypes, Fits, Busy, R!Idle, R!Running, Admission, Phases, Clearing
  <2>2. /\ owner' = owner /\ pulled' = pulled /\ byHand' = byHand
        /\ shell[s].pc \in R!Raw /\ measured \subseteq measured'
        /\ \/ files' = files
           \/ /\ files[shell[s].pc].by = 0
              /\ files' = [files EXCEPT ![shell[s].pc] = R!File(s, R!NotRun, {})]
    BY <1>1, MeasureEffect
  <2>3. PICK n \in R!Names : n = shell[s].pc /\ n # "COMPLETED"
    BY <2>2 DEF R!Raw, R!Names
  <2> QED
    BY <1>0, <1>1, <2>1, <2>2, <2>3 DEF R!File
<1>2. CASE R!WriteFinal(s)
  <2>1. R!Running(s)
    BY <1>2 DEF R!WriteFinal, R!Raw, R!Names, R!Running
  <2>2. /\ owner' = owner /\ pulled' = pulled /\ byHand' = byHand
        /\ shell[s].pc \in R!Names /\ measured' = measured
        /\ \/ files' = files
           \/ /\ files[shell[s].pc].by = 0
              /\ files' = [files EXCEPT ![shell[s].pc] =
                            R!File(s, shell[s].axes, R!Lists(s, shell[s].pc))]
    BY <1>2, FinalEffect
  <2> QED
    BY <1>0, <1>2, <2>1, <2>2 DEF R!File
<1>3. CASE ~R!Measure(s) /\ ~R!WriteFinal(s)
  <2>1. measured' = measured /\ (byHand => byHand')
    <3>1. CASE \E o \in DOMAIN R!Start : R!Command(s, o)
      BY <3>1, CommandEffect DEF Quiet
    <3>2. CASE Looks(s)
      BY <3>2, LookEffect DEF Looks, Quiet
    <3>3. CASE Previews(s)
      BY <3>3, PreviewEffect DEF Previews, Quiet
    <3>4. CASE R!Own(s) \/ R!Up(s) \/ R!Seed(s)
      BY <3>4, OwnEffect, UpEffect, SeedEffect
    <3>5. CASE R!Remove(s) \/ R!RemoveDirectory(s)
      BY <3>5, RemoveEffect, DirectoryEffect
    <3>6. CASE Hands(s)
      BY <3>6, HandEffect DEF Hands
    <3> QED
      BY <1>3, <3>1, <3>2, <3>3, <3>4, <3>5, <3>6 DEF Acts
  <2> QED
    BY <1>0, <1>3, <2>1, StepClaims DEF R!Pulls, R!Tearing
<1> QED
  BY <1>1, <1>2, <1>3

(* While nobody pulls a claim or writes by hand, the marker of a measured   *)
(* run comes after every file it vouches for, and all of them are that      *)
(* run's.                                                                   *)
LEMMA EvidencedStep ==
  ASSUME RunTypes, Told, Owned, Evidenced, R!Next
  PROVE  Evidenced'
<1> SUFFICES ASSUME ~pulled', ~byHand'
             PROVE  /\ \A n \in R!Names : files'[n].by \in {0, owner'}
                    /\ \A t \in Shells : R!Running(t)' => Progress(t)'
                    /\ files'["COMPLETED"].by # 0 /\ files'["COMPLETED"].axes = R!Measured =>
                         owner' \in measured' /\ By(owner, R!Names)' /\ ListsRaw(owner)'
  BY DEF Evidenced
<1>0. PICK s \in Shells : Acts(s)
  BY RunSteps
<1>1. /\ ~pulled /\ ~byHand /\ measured \subseteq measured'
      /\ "COMPLETED" \in R!Names /\ "sources" \in R!Names
  BY <1>0, StepFiles DEF R!Names
<1>2. /\ \A n \in R!Names : files[n].by \in {0, owner}
      /\ \A t \in Shells : R!Running(t) => Progress(t) /\ owner = R!Id(t) /\ R!Id(t) # 0
      /\ files["COMPLETED"].by # 0 /\ files["COMPLETED"].axes = R!Measured =>
           owner \in measured /\ By(owner, R!Names) /\ ListsRaw(owner)
  BY <1>1 DEF Evidenced, Owned, RunTypes, Fits, Busy, R!Idle, R!Running, R!Id
<1>3. \/ files' = files /\ owner' = owner
      \/ files' = files /\ R!Own(s) /\ owner = 0 /\ owner' = R!Id(s)
      \/ /\ files' = R!EmptyDisk /\ owner' = 0
         /\ \A t \in Shells : ~R!Running(t)
      \/ /\ owner' = owner /\ R!Running(s) /\ (R!Measure(s) \/ R!WriteFinal(s))
         /\ \E n \in R!Names :
              /\ n = shell[s].pc /\ files[n].by = 0
              /\ files'[n].by = R!Id(s) /\ \A m \in R!Names \ {n} : files'[m] = files[m]
              /\ n = "COMPLETED" => files'[n].axes = shell[s].axes
  BY <1>0, StepFiles
<1>4. ASSUME NEW t \in Shells, R!Running(t)' PROVE Progress(t)'
  <2>1. CASE t = s /\ R!Own(s)
    <3>1. shell'[s].op = "execute" /\ shell[s].axes # R!Measured /\ R!Idle.op # "execute"
      BY <1>4, <2>1 DEF R!Running, R!Own, RunTypes, Fits, Busy, R!Idle, Clearing, Ending
    <3>2. shell'[s].axes # R!Measured /\ shell'[s].pc = "up"
      BY <2>1, <3>1, OwnEffect DEF Stopped
    <3> QED
      BY <2>1, <3>2 DEF Progress
  <2>2. CASE R!Running(t) /\ t # s
    <3>1. shell'[t] = shell[t] /\ R!Id(t) # R!Id(s)
      BY <1>0, <1>2, <2>2, ShellStep DEF Others, Told
    <3>2. files' = files
      BY <1>2, <1>3, <2>2, <3>1
    <3> QED
      BY <1>1, <1>2, <2>2, <3>1, <3>2 DEF Progress, By, ListsRaw, R!Id
  <2>3. CASE R!Running(t) /\ t = s
    <3>1. CASE R!Measure(s)
      BY <1>2, <2>3, <3>1, MeasureProgress
    <3>2. CASE R!WriteFinal(s)
      <4>1. ~Stopped(s)
        BY <1>4, <2>3 DEF Stopped, R!Running, R!Idle
      <4> QED
        BY <1>2, <2>3, <3>2, <4>1, FinalProgress
    <3>3. CASE ~R!Measure(s) /\ ~R!WriteFinal(s)
      <4>1. files' = files
        BY <1>3, <2>3, <3>3
      <4> QED
        BY <1>0, <1>1, <1>2, <1>4, <2>3, <3>3, <4>1, OtherProgress
    <3> QED
      BY <3>1, <3>2, <3>3
  <2> QED
    BY <1>0, <1>4, <2>1, <2>2, <2>3, StepRuns
<1>5. \A n \in R!Names : files'[n].by \in {0, owner'}
  <2>1. CASE files' = R!EmptyDisk
    BY <2>1 DEF R!EmptyDisk, R!NoFile
  <2>2. CASE files' # R!EmptyDisk
    BY <1>2, <1>3, <2>2
  <2> QED
    BY <2>1, <2>2
<1>6. ASSUME files'["COMPLETED"].by # 0, files'["COMPLETED"].axes = R!Measured
      PROVE  owner' \in measured' /\ By(owner, R!Names)' /\ ListsRaw(owner)'
  <2>1. CASE files' = files /\ owner' = owner
    BY <1>1, <1>2, <1>6, <2>1 DEF By, ListsRaw
  <2>2. CASE files' = files /\ owner = 0
    BY <1>1, <1>2, <1>6, <2>2
  <2>3. CASE files' = R!EmptyDisk
    BY <1>1, <1>6, <2>3 DEF R!EmptyDisk, R!NoFile
  <2>4. ASSUME NEW n \in R!Names, owner' = owner, R!Running(s),
               n = shell[s].pc, files[n].by = 0, files'[n].by = R!Id(s),
               \A m \in R!Names \ {n} : files'[m] = files[m],
               n = "COMPLETED" => files'[n].axes = shell[s].axes
        PROVE  owner' \in measured' /\ By(owner, R!Names)' /\ ListsRaw(owner)'
    <3>1. CASE n # "COMPLETED"
      <4>1. By(owner, R!Names) /\ files["COMPLETED"].by # 0
        BY <1>1, <1>2, <1>6, <2>4, <3>1
      <4> QED
        BY <1>1, <2>4, <4>1 DEF By
    <3>2. CASE n = "COMPLETED"
      <4>1. PICK r : r = owner /\ r = R!Id(s) /\ r # 0
        BY <1>2, <2>4
      <4>2. /\ r \in measured /\ By(r, R!Raw) /\ By(r, Before["COMPLETED"]) /\ ListsRaw(r)
        BY <1>2, <1>6, <2>4, <3>2, <4>1 DEF Progress, Earlier, Before
      <4>3. \A m \in R!Names \ {n} : m \in R!Raw \/ m \in Before["COMPLETED"]
        BY <3>2 DEF R!Names, Before
      <4>4. \A m \in R!Names : files'[m].by = r
        BY <2>4, <4>1, <4>2, <4>3 DEF By
      <4>5. ListsRaw(r)'
        BY <1>1, <2>4, <3>2, <4>2 DEF ListsRaw
      <4> QED
        BY <1>1, <2>4, <4>1, <4>2, <4>4, <4>5 DEF By
    <3> QED
      BY <3>1, <3>2
  <2> QED
    BY <1>3, <2>1, <2>2, <2>3, <2>4
<1> QED
  BY <1>4, <1>5, <1>6

(* The run keeps its invariant.                                            *)
LEMMA RunStep == RunInv /\ [R!Next]_runVars => RunInv'
<1> SUFFICES ASSUME RunInv, [R!Next]_runVars PROVE RunInv'
  OBVIOUS
<1>1. CASE R!Next
  <2>1. RunTypes' /\ Told'
    BY <1>1, RunTypesStep, ToldStep DEF RunInv
  <2> QED
    BY <1>1, <2>1, SweptStep, OwnedStep, EvidencedStep DEF RunInv
<1>2. CASE UNCHANGED runVars
  <2>1. /\ UNCHANGED <<docker, seeds, there, owner, files, shell, given>>
        /\ UNCHANGED <<crashes, faults, measured, swept, pulled, byHand>>
    BY <1>2 DEF runVars
  <2>2. RunTypes'
    BY <2>1 DEF RunInv, RunTypes, R!TypeOK
  <2>3. Told'
    BY <2>1 DEF RunInv, Told, R!Id
  <2>4. Swept'
    BY <2>1 DEF RunInv, Swept, R!NothingLeft, Targeted, R!Target, R!Id
  <2>5. Owned'
    BY <2>1 DEF RunInv, Owned, R!Running, R!Id
  <2>6. Evidenced'
    BY <2>1 DEF RunInv, Evidenced, Progress, By, ListsRaw, R!Running, R!Id
  <2> QED
    BY <2>2, <2>3, <2>4, <2>5, <2>6 DEF RunInv
<1> QED
  BY <1>1, <1>2


-----------------------------------------------------------------------------
(* The campaigns.                                                          *)
Kinds == {"thrown", "unavailable", "kept"}
RecordType == [kind : Kinds, run : Runs]
ReportType == [claims : SUBSET (Cells \X Claims), of : [Cells -> Campaigns \cup {"none"}]]
ChainType ==
  [pc : {"idle", "admit", "run", "judge", "report", "dossier", "done"}, at : Nat,
   cells : [Cells -> RecordType], several : BOOLEAN, scoped : BOOLEAN, valid : BOOLEAN,
   report : ReportType, status : {"BLOCKED", "READY_FOR_HUMAN_GATE"}, cell : Cells, claim : Claims]

(* What an earned claim rests on, whatever becomes of the disk.            *)
Grounds(i, kept, claim) ==
  /\ IsMeasured(kept)
  /\ claim = "multiReplica" => "TOPOLOGY_NOT_EXERCISED" \notin kept.run.flags
  /\ claim \in {"resource", "bottleneck"} => "OBSERVATION_INCOMPLETE" \notin kept.run.flags
  /\ claim = "bottleneck" => "LOAD_GENERATOR_LIMITED" \notin kept.run.flags

Campaign(c) ==
  /\ \A i \in Cells :
       /\ chain[c].cells[i].kind = "kept" => chain[c].cells[i].run.by = c
       /\ chain[c].cells[i].kind = "unavailable" => Several(i)
  /\ chain[c].pc # "dossier" => chain[c].report.claims = {}
  /\ \A p \in chain[c].report.claims : Grounds(p[1], chain[c].cells[p[1]], p[2])

CampaignInv ==
  /\ disk \in [Cells -> Runs] /\ troubles \in 0 .. MaxTroubles
  /\ chain \in [Campaigns -> ChainType]
  /\ \A c \in Campaigns : Campaign(c)

(* The records of runs that the model lists are records of runs.            *)
LEMMA RunsTyped ==
  /\ Absent \in Runs /\ Sound \in Runs /\ Unsound \subseteq Runs
  /\ \A c \in Campaigns, run \in Runs : [run EXCEPT !.by = c] \in Runs
                                     /\ [run EXCEPT !.by = c].by = c
<1>1. \A o \in {"none", "MEASURED", "NOT_RUN", "FAILED_SETUP"}, n \in 1 .. 2, b, d \in BOOLEAN, f \in SUBSET Flags :
         Run(o, n, b, f, d) \in Runs
  BY DEF Run, Runs
<1>n. 1 \in 1 .. 2 /\ 2 \in 1 .. 2
  OBVIOUS
<1>e. {} \in SUBSET Flags /\ TRUE \in BOOLEAN /\ FALSE \in BOOLEAN
  OBVIOUS
<1>2. Absent \in Runs /\ Sound \in Runs
  BY <1>1, <1>n, <1>e, Zenon DEF Absent, Sound
<1>3. \A f \in Flags : {f} \in SUBSET Flags
  OBVIOUS
<1>4. Unsound \subseteq Runs
  <2>1. /\ Run("MEASURED", 2, TRUE, {}, TRUE) \in Runs /\ Run("MEASURED", 1, FALSE, {}, TRUE) \in Runs
        /\ Run("NOT_RUN", 1, TRUE, {}, TRUE) \in Runs
    BY <1>1, <1>n, <1>e, Zenon
  <2>2. "OBSERVATION_INCOMPLETE" \in Flags
    BY DEF Flags
  <2>3. Run("MEASURED", 1, FALSE, {"OBSERVATION_INCOMPLETE"}, TRUE) \in Runs
    BY <1>1, <1>3, <1>n, <1>e, <2>2, Zenon
  <2>4. \A f \in Flags : Run("MEASURED", 1, TRUE, {f}, TRUE) \in Runs
    BY <1>1, <1>3, <1>n, <1>e, Zenon
  <2>5. \A d \in BOOLEAN : Run("FAILED_SETUP", 1, TRUE, {}, d) \in Runs
    BY <1>1, <1>n, <1>e, Zenon
  <2> QED
    BY <2>1, <2>3, <2>4, <2>5, Zenon DEF Unsound
<1> QED
  BY <1>2, <1>4 DEF Runs

(* A chain with nothing done is of its type.                                *)
LEMMA CampaignIdle == Idle \in ChainType /\ Thrown \in RecordType /\ Unavailable \in RecordType
<1>1. Thrown \in RecordType /\ Unavailable \in RecordType
  BY RunsTyped DEF Thrown, Unavailable, RecordType, Kinds
<1>2. 1 \in Cells
  BY BaselineAssumption DEF Cells
<1>3. NoReport \in ReportType
  BY DEF NoReport, ReportType
<1>4. [i \in Cells |-> Thrown] \in [Cells -> RecordType]
  BY <1>1
<1> QED
  BY <1>1, <1>2, <1>3, <1>4 DEF Idle, ChainType, Claims

(* Before the first campaign nothing is claimed.                            *)
LEMMA CampaignInit == Init => CampaignInv
<1> SUFFICES ASSUME Init PROVE CampaignInv
  OBVIOUS
<1>1. disk \in [Cells -> Runs] /\ chain \in [Campaigns -> ChainType]
  BY RunsTyped, CampaignIdle DEF Init
<1>2. troubles \in 0 .. MaxTroubles
  BY BaselineAssumption DEF Init
<1>3. \A c \in Campaigns : Campaign(c)
  BY DEF Init, Campaign, Idle, Thrown, NoReport
<1> QED
  BY <1>1, <1>2, <1>3 DEF CampaignInv

(* A step of one campaign leaves the others alone.                         *)
Alone(c) == \A d \in Campaigns \ {c} : chain'[d] = chain[d]

(* A record put in a cell is of the campaign itself, and the chain goes on  *)
(* with nothing claimed.                                                    *)
LEMMA RecordsKept ==
  ASSUME CampaignInv, NEW c \in Campaigns, NEW r \in RecordType, Records(c, r),
         chain[c].pc \in {"admit", "run"},
         r.kind = "kept" => r.run.by = c,
         r.kind = "unavailable" => Several(chain[c].at)
  PROVE  chain' \in [Campaigns -> ChainType] /\ Alone(c) /\ Campaign(c)'
         /\ chain'[c].status = chain[c].status
<1>1. chain \in [Campaigns -> ChainType] /\ Campaign(c)
  BY DEF CampaignInv
<1> DEFINE i == chain[c].at
           p == IF i + 1 \in Cells THEN "admit" ELSE "judge"
<1>2. chain' = [chain EXCEPT ![c].cells[i] = r, ![c].at = i + 1, ![c].pc = p]
  BY DEF Records
<1>3. i \in Nat /\ p \in {"admit", "judge"} /\ chain[c].cells \in [Cells -> RecordType]
  BY <1>1 DEF ChainType
<1> DEFINE k == [chain[c].cells EXCEPT ![i] = r]
<1>4. k \in [Cells -> RecordType]
  BY <1>3
<1>5. chain' = [chain EXCEPT ![c] = [@ EXCEPT !.cells = k, !.at = i + 1, !.pc = p]]
  BY <1>1, <1>2 DEF ChainType
<1> HIDE DEF i, p, k
<1> DEFINE n == [chain[c] EXCEPT !.cells = k, !.at = i + 1, !.pc = p]
<1>a. /\ n \in ChainType /\ n.cells = k /\ n.pc = p /\ n.report = chain[c].report
      /\ n.status = chain[c].status
  <2>1. chain[c] \in ChainType /\ i + 1 \in Nat
    BY <1>1, <1>3
  <2> QED
    BY <1>3, <1>4, <2>1 DEF ChainType
<1> HIDE DEF n
<1>6. /\ chain' \in [Campaigns -> ChainType] /\ Alone(c)
      /\ chain'[c].cells = k /\ chain'[c].pc = p /\ chain'[c].report = chain[c].report
      /\ chain'[c].status = chain[c].status
  <2>1. chain' = [chain EXCEPT ![c] = n]
    BY <1>5 DEF n
  <2> QED
    BY <1>1, <1>a, <2>1 DEF Alone
<1>7. \A j \in Cells : k[j] = IF j = i THEN r ELSE chain[c].cells[j]
  BY <1>3 DEF k
<1>8. chain[c].report.claims = {}
  BY <1>1 DEF Campaign
<1>9. Campaign(c)'
  BY <1>1, <1>3, <1>6, <1>7, <1>8 DEF Campaign, i
<1> QED
  BY <1>6, <1>9

(* Every step of a campaign, and every trouble on the disk, keeps the       *)
(* records that its claims rest on.                                         *)
LEMMA CampaignStep == CampaignInv /\ [Next]_vars => CampaignInv'
<1> SUFFICES ASSUME CampaignInv, [Next]_vars PROVE CampaignInv'
  OBVIOUS
<1>0. /\ disk \in [Cells -> Runs] /\ troubles \in 0 .. MaxTroubles /\ MaxTroubles \in Nat
      /\ chain \in [Campaigns -> ChainType]
      /\ \A c \in Campaigns : Campaign(c)
  BY BaselineAssumption DEF CampaignInv
<1>1. ASSUME NEW c \in Campaigns, chain' \in [Campaigns -> ChainType], Alone(c), Campaign(c)',
             disk' \in [Cells -> Runs], troubles' \in 0 .. MaxTroubles
      PROVE CampaignInv'
  BY <1>0, <1>1 DEF CampaignInv, Alone, Campaign
<1>t. Trouble => troubles' \in 0 .. MaxTroubles
  BY <1>0 DEF Trouble
<1>2. ASSUME NEW c \in Campaigns, Begin(c) PROVE CampaignInv'
  <2>1. PICK several \in BOOLEAN, scoped \in BOOLEAN :
          chain' = [chain EXCEPT ![c].pc = "admit", ![c].several = several, ![c].scoped = scoped]
    BY <1>2 DEF Begin
  <2>2. /\ chain' \in [Campaigns -> ChainType] /\ Alone(c)
        /\ chain'[c].cells = chain[c].cells /\ chain'[c].report = chain[c].report
        /\ chain'[c].pc = "admit" /\ chain[c].pc = "idle"
    <3> DEFINE n == [chain[c] EXCEPT !.pc = "admit", !.several = several, !.scoped = scoped]
    <3>1. chain' = [chain EXCEPT ![c] = n]
      BY <1>0, <2>1 DEF ChainType
    <3>2. n \in ChainType /\ n.cells = chain[c].cells /\ n.report = chain[c].report /\ n.pc = "admit"
      BY <1>0 DEF ChainType
    <3> HIDE DEF n
    <3> QED
      BY <1>0, <1>2, <3>1, <3>2 DEF Alone, Begin
  <2>3. Campaign(c)'
    BY <1>0, <2>2 DEF Campaign
  <2> QED
    BY <1>0, <1>1, <1>2, <1>t, <2>2, <2>3 DEF Begin
<1>3. ASSUME NEW c \in Campaigns, Admit(c) PROVE CampaignInv'
  <2> DEFINE i == chain[c].at
  <2>0. chain[c].pc = "admit" /\ troubles' = troubles
    BY <1>3 DEF Admit
  <2>1. CASE Several(i) /\ Records(c, Unavailable) /\ disk' = disk
    <3>1. chain' \in [Campaigns -> ChainType] /\ Alone(c) /\ Campaign(c)'
      BY <2>0, <2>1, CampaignIdle, RecordsKept DEF Unavailable
    <3> QED
      BY <1>0, <1>1, <2>0, <2>1, <3>1
  <2>2. CASE Records(c, Thrown) /\ disk' = disk
    <3>1. chain' \in [Campaigns -> ChainType] /\ Alone(c) /\ Campaign(c)'
      BY <2>0, <2>2, CampaignIdle, RecordsKept DEF Thrown
    <3> QED
      BY <1>0, <1>1, <2>0, <2>2, <3>1
  <2>3. CASE /\ disk' = [disk EXCEPT ![i] = [Absent EXCEPT !.by = c]]
             /\ chain' = [chain EXCEPT ![c].pc = "run"]
    <3>1. disk' \in [Cells -> Runs]
      BY <1>0, <2>3, RunsTyped
    <3>2. /\ chain' \in [Campaigns -> ChainType] /\ Alone(c)
          /\ chain'[c].cells = chain[c].cells /\ chain'[c].report = chain[c].report
          /\ chain'[c].pc = "run"
      BY <1>0, <2>3 DEF ChainType, Alone
    <3>3. Campaign(c)'
      BY <1>0, <2>0, <3>2 DEF Campaign
    <3> QED
      BY <1>0, <1>1, <2>0, <3>1, <3>2, <3>3
  <2> QED
    BY <1>3, <2>1, <2>2, <2>3 DEF Admit
<1>4. ASSUME NEW c \in Campaigns, Retain(c) PROVE CampaignInv'
  <2> DEFINE i == chain[c].at
  <2>0. chain[c].pc = "run"
    BY <1>4 DEF Retain
  <2>1. ASSUME NEW run \in {Sound} \cup Unsound,
               disk' = [disk EXCEPT ![i] = [run EXCEPT !.by = c]],
               Records(c, Kept([run EXCEPT !.by = c])),
               troubles' = troubles \/ Trouble
        PROVE  CampaignInv'
    <3>1. [run EXCEPT !.by = c] \in Runs /\ [run EXCEPT !.by = c].by = c
      BY RunsTyped
    <3>2. disk' \in [Cells -> Runs]
      BY <1>0, <2>1, <3>1
    <3> DEFINE k == [run EXCEPT !.by = c]
    <3> HIDE DEF k
    <3>3. Kept(k) \in RecordType /\ Kept(k).kind = "kept" /\ Kept(k).run.by = c
      BY <3>1 DEF Kept, RecordType, Kinds, k
    <3>4. chain' \in [Campaigns -> ChainType] /\ Alone(c) /\ Campaign(c)'
      BY <2>0, <2>1, <3>3, RecordsKept DEF k
    <3> QED
      BY <1>0, <1>1, <1>t, <2>1, <3>2, <3>4
  <2>2. CASE Trouble /\ Records(c, Thrown) /\ disk' = disk
    <3>1. chain' \in [Campaigns -> ChainType] /\ Alone(c) /\ Campaign(c)'
      BY <2>0, <2>2, CampaignIdle, RecordsKept DEF Thrown
    <3> QED
      BY <1>0, <1>1, <1>t, <2>2, <3>1
  <2> QED
    BY <1>4, <2>1, <2>2 DEF Retain
<1>5. ASSUME NEW c \in Campaigns, Judge(c) PROVE CampaignInv'
  <2>1. PICK b \in BOOLEAN : chain' = [chain EXCEPT ![c].pc = "report", ![c].valid = b]
    BY <1>5 DEF Judge, ValidMatrix
  <2>2. /\ chain' \in [Campaigns -> ChainType] /\ Alone(c)
        /\ chain'[c].cells = chain[c].cells /\ chain'[c].report = chain[c].report
        /\ chain'[c].pc = "report"
    BY ZenonT(40), <1>0, <2>1 DEF ChainType, Alone
  <2>3. Campaign(c)'
    BY <1>0, <1>5, <2>2 DEF Campaign, Judge
  <2> QED
    BY <1>0, <1>1, <1>5, <2>2, <2>3 DEF Judge
<1>6. ASSUME NEW c \in Campaigns, Report(c) PROVE CampaignInv'
  <2> DEFINE cells == chain[c].cells
             earned == {p \in Cells \X Claims : Eligible(p[1], cells[p[1]], p[2])}
             digests == [j \in Cells |-> IF cells[j].kind = "kept" THEN disk[j].by ELSE "none"]
  <2>1. chain' = [chain EXCEPT ![c].pc = "dossier", ![c].report = [claims |-> earned, of |-> digests]]
    BY <1>6 DEF Report
  <2>2. [claims |-> earned, of |-> digests] \in ReportType
    BY <1>0 DEF ReportType, Runs
  <2>3. \A p \in earned : Grounds(p[1], cells[p[1]], p[2])
    BY DEF Eligible, Grounds
  <2> HIDE DEF earned, digests
  <2>4. /\ chain' \in [Campaigns -> ChainType] /\ Alone(c)
        /\ chain'[c].cells = chain[c].cells /\ chain'[c].report.claims = earned
        /\ chain'[c].pc = "dossier"
    BY ZenonT(40), <1>0, <2>1, <2>2 DEF ChainType, Alone
  <2>5. Campaign(c)'
    BY <1>0, <2>3, <2>4 DEF Campaign
  <2> QED
    BY <1>0, <1>1, <1>6, <2>4, <2>5 DEF Report
<1>7. ASSUME NEW c \in Campaigns, Dossier(c) PROVE CampaignInv'
  <2>1. PICK i \in Cells, claim \in Claims, s \in {"BLOCKED", "READY_FOR_HUMAN_GATE"} :
          chain' = [chain EXCEPT ![c] = [Idle EXCEPT !.pc = "done", !.cells = chain[c].cells,
                      !.cell = i, !.claim = claim, !.status = s]]
    <3>1. 1 \in Cells /\ "latency" \in Claims
      BY BaselineAssumption DEF Cells, Claims
    <3> QED
      BY <1>7, <3>1 DEF Dossier
  <2>2. /\ chain' \in [Campaigns -> ChainType] /\ Alone(c)
        /\ chain'[c].cells = chain[c].cells /\ chain'[c].report = Idle.report
        /\ chain'[c].pc = "done"
    BY <1>0, <2>1, CampaignIdle DEF ChainType, Alone
  <2>3. Campaign(c)'
    BY <1>0, <2>2 DEF Campaign, Idle, NoReport
  <2> QED
    BY <1>0, <1>1, <1>7, <2>2, <2>3 DEF Dossier
<1>8. ASSUME NEW i \in Cells, Clean(i) PROVE CampaignInv'
  <2>1. disk' \in [Cells -> Runs] /\ chain' = chain /\ Trouble
    BY <1>0, <1>8, RunsTyped DEF Clean
  <2> QED
    BY <1>0, <1>t, <2>1 DEF CampaignInv, Campaign
<1>9. CASE UNCHANGED vars
  BY <1>0, <1>9 DEF vars, CampaignInv, Campaign
<1> QED
  BY <1>2, <1>3, <1>4, <1>5, <1>6, <1>7, <1>8, <1>9 DEF Next

(* The dossier alone changes a campaign's status.                          *)
LEMMA StatusKept ==
  ASSUME CampaignInv, NEW c \in Campaigns, Next, ~Dossier(c)
  PROVE  chain'[c].status = chain[c].status
<1>0. chain \in [Campaigns -> ChainType]
  BY DEF CampaignInv
<1>1. ASSUME NEW d \in Campaigns,
             Begin(d) \/ Judge(d) \/ Report(d) \/ Admit(d) \/ Retain(d) \/ (Dossier(d) /\ d # c)
      PROVE  chain'[c].status = chain[c].status
  <2>1. CASE d # c
    BY <1>0, <1>1, <2>1 DEF Begin, Judge, Report, Admit, Retain, Dossier, Records
  <2>2. CASE Begin(c)
    <3>1. PICK several \in BOOLEAN, scoped \in BOOLEAN :
            chain' = [chain EXCEPT ![c].pc = "admit", ![c].several = several, ![c].scoped = scoped]
      BY <2>2 DEF Begin
    <3> QED
      BY <1>0, <3>1 DEF ChainType
  <2>3. CASE Judge(c)
    BY <1>0, <2>3 DEF Judge, ChainType
  <2>4. CASE Report(c)
    <3>1. PICK r : chain' = [chain EXCEPT ![c].pc = "dossier", ![c].report = r]
      BY <2>4 DEF Report
    <3> QED
      BY <1>0, <3>1 DEF ChainType
  <2>5. CASE \E r : Records(c, r)
    <3>1. PICK i, r, p : chain' = [chain EXCEPT ![c].cells[i] = r, ![c].at = i + 1, ![c].pc = p]
      BY <2>5 DEF Records
    <3> QED
      BY <1>0, <3>1 DEF ChainType
  <2>6. CASE chain' = [chain EXCEPT ![c].pc = "run"]
    BY <1>0, <2>6 DEF ChainType
  <2>7. (Admit(c) \/ Retain(c)) => (\E r : Records(c, r)) \/ chain' = [chain EXCEPT ![c].pc = "run"]
    BY DEF Admit, Retain
  <2> QED
    BY <1>1, <2>1, <2>2, <2>3, <2>4, <2>5, <2>6, <2>7
<1>2. ASSUME NEW i \in Cells, Clean(i) PROVE chain'[c].status = chain[c].status
  BY <1>2 DEF Clean
<1> QED
  BY <1>1, <1>2 DEF Next

(* A dossier that becomes READY_FOR_HUMAN_GATE has earned it with the       *)
(* records it kept (dossier.js reads the report of its own campaign).       *)
LEMMA ReadyStep ==
  ASSUME CampaignInv, Next, NEW c \in Campaigns,
         chain'[c].status = "READY_FOR_HUMAN_GATE", chain[c].status # chain'[c].status
  PROVE  Earned(c)
<1>0. chain \in [Campaigns -> ChainType] /\ Campaign(c) /\ Dossier(c)
  BY StatusKept DEF CampaignInv
<1> DEFINE cells == chain[c].cells
<1>1. PICK i \in Cells, claim \in Claims, quoted \in Campaigns :
        LET ready == /\ Gate(c) /\ <<i, claim>> \in chain[c].report.claims
                     /\ quoted = chain[c].report.of[i]
        IN chain' = [chain EXCEPT ![c] = [Idle EXCEPT !.pc = "done", !.cells = cells,
                       !.cell = IF ready THEN i ELSE 1,
                       !.claim = IF ready THEN claim ELSE "latency",
                       !.status = IF ready THEN "READY_FOR_HUMAN_GATE" ELSE "BLOCKED"]]
  BY <1>0 DEF Dossier
<1>2. /\ Gate(c) /\ <<i, claim>> \in chain[c].report.claims
      /\ chain'[c].cells = cells /\ chain'[c].cell = i /\ chain'[c].claim = claim
  BY <1>0, <1>1 DEF Idle
<1>3. ValidMatrix(cells) /\ Grounds(i, cells[i], claim)
  BY <1>0, <1>2 DEF Gate, Campaign
<1>4. \A j \in Cells : cells[j].kind = "kept" =>
        /\ disk[j] = cells[j].run /\ disk[j].by = c
        /\ disk[j].outcome \in {"MEASURED", "FAILED_SETUP"}
        /\ disk[j].outcome = "MEASURED" => disk[j].complete
  BY <1>0, <1>3 DEF ValidMatrix, ValidCell, Lawful, Canonical, WellKept, Campaign
<1>5. \A j \in Cells : cells[j].kind # "thrown" /\ (cells[j].kind = "unavailable" => Several(j))
  BY <1>0, <1>3 DEF ValidMatrix, ValidCell, Lawful, Campaign
<1>6. ASSUME NEW p \in Pairs,
             \A j \in {p[1], p[2]} : cells[j].kind = "kept" /\ disk[j].outcome = "MEASURED"
      PROVE  disk[p[1]].setting = disk[p[2]].setting
  <2>1. p[1] \in Cells /\ p[2] \in Cells
    BY BaselineAssumption DEF Pairs, Cells, Several
  <2> QED
    BY SMTT(30), <1>3, <1>4, <1>6, <2>1 DEF ValidMatrix, Comparable, IsMeasured
<1>7. disk[i] = cells[i].run /\ cells[i].kind = "kept" /\ disk[i].outcome = "MEASURED" /\ disk[i].complete
  BY <1>3, <1>4 DEF Grounds, IsMeasured
<1>8. /\ claim = "bottleneck" => disk[i].flags \cap (Flags \ {"TOPOLOGY_NOT_EXERCISED"}) = {}
      /\ claim = "multiReplica" => "TOPOLOGY_NOT_EXERCISED" \notin disk[i].flags
  BY <1>3, <1>7 DEF Grounds, Flags
<1> QED
  BY <1>2, <1>4, <1>5, <1>6, <1>7, <1>8 DEF Earned

-----------------------------------------------------------------------------
(* The theorems.                                                           *)

(* A workload claims its concurrency exactly when every socket connected    *)
(* and stayed connected to the end, and leaves no socket open, for any      *)
(* number of attempts (socketConcurrency.js).                               *)
THEOREM ConcurrencyHolds == S!Spec => [](S!TypeOK /\ S!ConcurrencyEarned)
<1>1. S!Init => SocketInv
  BY SocketInit
<1>2. SocketInv /\ [S!Next]_(S!vars) => SocketInv'
  BY SocketStep DEF S!vars, socketVars
<1>3. SocketInv => S!TypeOK /\ S!ConcurrencyEarned
  BY DEF SocketInv
<1> QED
  BY <1>1, <1>2, <1>3, PTL DEF S!Spec

(* A success is an opportunity that was acknowledged and delivered under    *)
(* its own id, every other one that started is a failure, for any number    *)
(* of opportunities (messageWorkload.js).                                   *)
THEOREM DeliveriesHold == W!Spec => [](W!TypeOK /\ W!DeliveriesCorrelated)
<1>1. W!Init => MessageInv
  BY MessageInit
<1>2. MessageInv /\ [W!Next]_(W!vars) => MessageInv'
  BY MessageStep DEF W!vars, messageVars
<1>3. MessageInv => W!TypeOK /\ W!DeliveriesCorrelated
  BY DEF MessageInv
<1> QED
  BY <1>1, <1>2, <1>3, PTL DEF W!Spec

(* What holds of every part of the benchmark.                              *)
BenchmarkInv ==
  /\ RunInv /\ CampaignInv
  /\ part = "sockets" => SocketInv
  /\ part = "messages" => MessageInv

(* Every part of the benchmark starts in its invariant.                     *)
LEMMA BenchmarkInit == MCInit => BenchmarkInv
  BY RunInit, CampaignInit, SocketInit, MessageInit DEF MCInit, BenchmarkInv

(* A step of one part keeps the invariants of them all.                     *)
LEMMA BenchmarkStep ==
  BenchmarkInv /\ [MCNext]_<<part, vars, runVars, socketVars, messageVars>> => BenchmarkInv'
<1> SUFFICES ASSUME BenchmarkInv, [MCNext]_<<part, vars, runVars, socketVars, messageVars>>
             PROVE  BenchmarkInv'
  OBVIOUS
<1>1. [R!Next]_runVars /\ [Next]_vars /\ part' = part
  BY DEF MCNext
<1>2. part = "sockets" => [S!Next]_socketVars
  BY DEF MCNext
<1>3. part = "messages" => [W!Next]_messageVars
  BY DEF MCNext
<1> QED
  BY <1>1, <1>2, <1>3, RunStep, CampaignStep, SocketStep, MessageStep DEF BenchmarkInv

(* The invariant of every part holds always.                                *)
LEMMA BenchmarkAlways == MCSpec => []BenchmarkInv
  BY BenchmarkInit, BenchmarkStep, PTL DEF MCSpec

(* The concurrency and the deliveries a campaign's workloads report are     *)
(* what happened, in the composition with the runs and the campaigns.       *)
THEOREM WorkloadsAreHonest == MCSpec => []WorkloadsHonest
<1>1. BenchmarkInv => WorkloadsHonest
  BY DEF BenchmarkInv, SocketInv, MessageInv, WorkloadsHonest
<1> QED
  BY <1>1, BenchmarkAlways, PTL

(* One run at a time holds the directory, the seeds and the resources, by   *)
(* its claim.                                                               *)
LEMMA OneRunHolds == RunInv => R!OneRun
<1> SUFFICES ASSUME RunInv, ~pulled
             PROVE  /\ \A s, t \in Shells : R!Running(s) /\ R!Running(t) => s = t
                    /\ \A s \in Shells : R!Running(s) => seeds \subseteq {R!Id(s)} /\ owner = R!Id(s)
  BY DEF R!OneRun
<1>1. \A s \in Shells : R!Running(s) => owner = R!Id(s) /\ R!Id(s) # 0
  BY DEF RunInv, Owned, RunTypes, Fits, Busy, R!Idle, R!Running, R!Id
<1> QED
  BY <1>1 DEF RunInv, Told, Owned

(* Two runs never work at one identity, and the volumes hold the seeds of   *)
(* the one that does, unless a clean-up pulled the claim or the stack from  *)
(* under it.                                                                *)
THEOREM OneRunAlways == MCSpec => []OneRun
<1>1. BenchmarkInv => OneRun
  BY OneRunHolds DEF BenchmarkInv, OneRun
<1> QED
  BY <1>1, BenchmarkAlways, PTL

(* A run that reports its clean-up complete has left no container, network  *)
(* or volume, and never will.                                               *)
THEOREM NothingIsLeft == MCSpec => []NothingLeft
<1>1. BenchmarkInv => NothingLeft
  BY DEF BenchmarkInv, RunInv, Swept, NothingLeft
<1> QED
  BY <1>1, BenchmarkAlways, PTL

(* What can be published was measured by the run whose directory it is,     *)
(* every file of it is that run's, and its list of sources names every raw  *)
(* file.                                                                    *)
THEOREM PublishedWasMeasured == MCSpec => []PublishedIsMeasured
<1>1. ASSUME RunInv, R!Publishable, ~byHand, ~pulled
      PROVE  /\ owner \in measured
             /\ \A n \in R!Names : files[n].by = owner
             /\ \A n \in R!Raw : <<n, owner>> \in files["sources"].of
  <2>1. files["COMPLETED"].by # 0 /\ files["COMPLETED"].axes.artifact = "COMPLETED"
    BY <1>1 DEF R!Publishable
  <2>2. files["COMPLETED"].axes \in R!Axes
    BY <1>1 DEF RunInv, RunTypes, R!TypeOK, R!Names
  <2>3. files["COMPLETED"].axes = R!Measured
    BY <2>1, <2>2 DEF R!Axes, R!NotRun, R!FailedSetup
  <2> QED
    BY <1>1, <2>1, <2>3 DEF RunInv, Evidenced, By, ListsRaw
<1>2. BenchmarkInv => PublishedIsMeasured
  BY <1>1 DEF BenchmarkInv, RunInv, RunTypes, PublishedIsMeasured, R!PublishedIsMeasured
<1> QED
  BY <1>2, BenchmarkAlways, PTL

(* A step that makes a dossier READY_FOR_HUMAN_GATE has the evidence of     *)
(* its own campaign for the claim it makes.                                 *)
THEOREM ReadyWasEarned == MCSpec => ReadyIsEarned
<1>1. BenchmarkInv /\ [MCNext]_<<part, vars, runVars, socketVars, messageVars>> =>
        [\A c \in Campaigns :
           chain'[c].status = "READY_FOR_HUMAN_GATE" /\ chain[c].status # chain'[c].status
             => Earned(c)]_vars
  <2> SUFFICES ASSUME BenchmarkInv, [MCNext]_<<part, vars, runVars, socketVars, messageVars>>,
                      vars' # vars, NEW c \in Campaigns,
                      chain'[c].status = "READY_FOR_HUMAN_GATE", chain[c].status # chain'[c].status
               PROVE  Earned(c)
    OBVIOUS
  <2>1. Next
    BY DEF MCNext
  <2> QED
    BY <2>1, ReadyStep DEF BenchmarkInv
<1> QED
  BY <1>1, BenchmarkAlways, PTL DEF MCSpec, ReadyIsEarned

=============================================================================
