--------------------------- MODULE MessageWorkload ---------------------------
(***************************************************************************)
(* The message workload of scripts/k4/runner: two actors connect, one of   *)
(* them sends a message in every slot of an open loop, and an opportunity  *)
(* is a success when the server acknowledged its message and the other     *)
(* actor received that very message, each within its time.  Opportunities  *)
(* overlap, and all of them wait on the same two sockets.  A fault fixture *)
(* makes the runner treat every message as one that went wrong.            *)
(***************************************************************************)
EXTENDS Integers, FiniteSets

CONSTANTS Slots,    \* the number of slots
          MaxLost   \* bound: packets and connections lost, slots missed

VARIABLES
  fixture,   \* the fault fixture of the run
  stage,     \* where executeMessage is
  link,      \* the sockets of the two actors
  next,      \* the slot to come
  op,        \* the opportunities
  sent,      \* messages on their way to the server
  air,       \* packets on their way from the server
  lost,      \* what the bound counts
  result,    \* what executeMessage returns
  received,  \* history: saved messages received within their time
  answered   \* history: messages acknowledged with their id within their time

vars == <<fixture, stage, link, next, op, sent, air, lost, result, received, answered>>
net == <<link, sent, air, lost>>
history == <<received, answered>>

Ops == 1 .. Slots
Actors == {"sender", "recipient"}
Fixtures == {"none", "acknowledgement-failure", "acknowledgement-timeout",
             "recipient-delivery-timeout", "correlation-mismatch"}
\* The two promises of an opportunity: pending, rejected, or what they resolved to.
NewOp == [status |-> "waiting", ack |-> "pending", delivery |-> "pending", got |-> 0]
NoResult == [successes |-> {}, failures |-> {}, complete |-> FALSE, shortfall |-> FALSE]

Init ==
  /\ fixture \in Fixtures /\ stage = "connect"
  /\ link = [a \in Actors |-> "connecting"]
  /\ next = 1 /\ op = [i \in Ops |-> NewOp]
  /\ sent = {} /\ air = {} /\ lost = 0 /\ result = NoResult
  /\ received = {} /\ answered = {}

Trouble == lost < MaxLost /\ lost' = lost + 1

-----------------------------------------------------------------------------
(* The sockets.                                                             *)

Connect(a) ==
  /\ stage \in {"connect", "thrown"} /\ link[a] = "connecting"
  /\ link' = [link EXCEPT ![a] = "open"]
  /\ stage' = IF stage = "connect" /\ \A b \in Actors : link'[b] = "open" THEN "run" ELSE stage
  /\ UNCHANGED <<fixture, next, op, sent, air, lost, result, history>>

\* connectActor rejects, and nobody closes the socket of the other actor.
ConnectFails(a) ==
  /\ stage \in {"connect", "thrown"} /\ link[a] = "connecting" /\ Trouble
  /\ link' = [link EXCEPT ![a] = "closed"] /\ stage' = "thrown"
  /\ UNCHANGED <<fixture, next, op, sent, air, result, history>>

\* A socket that is lost does not reconnect; what was on its way to it is gone.
Drop(a) ==
  /\ stage = "run" /\ link[a] = "open" /\ Trouble
  /\ link' = [link EXCEPT ![a] = "closed"]
  /\ air' = {p \in air : p.to # a}
  /\ UNCHANGED <<fixture, stage, next, op, sent, result, history>>

-----------------------------------------------------------------------------
(* openLoopSlots.  A slot that is reached too late is not started; one that *)
(* is waits for a delivery before it sends.                                 *)

Slot ==
  /\ stage = "run" /\ next \in Ops /\ next' = next + 1
  /\ \/ /\ Trouble /\ op' = [op EXCEPT ![next].status = "not-started"] /\ UNCHANGED sent
     \/ /\ op' = [op EXCEPT ![next].status = "started"] /\ UNCHANGED lost
        /\ sent' = IF link["sender"] = "open" THEN sent \cup {next} ELSE sent
  /\ UNCHANGED <<fixture, stage, link, air, result, history>>

\* The server saves the message or fails to; it is passed on all the same, without
\* an id.  Or the handler fails before that.
Serve(i) ==
  /\ i \in sent /\ sent' = sent \ {i}
  /\ \E saved, refused \in BOOLEAN :
       /\ ~(saved /\ refused)
       /\ IF saved THEN UNCHANGED lost ELSE Trouble
       /\ air' = air \cup {p \in [to : Actors, id : {i}, saved : {saved}] :
                             /\ link[p.to] = "open"
                             /\ p.to = "recipient" => ~refused}
  /\ UNCHANGED <<fixture, stage, link, next, op, result, history>>

Lose(p) ==
  /\ Trouble /\ air' = air \ {p}
  /\ UNCHANGED <<fixture, stage, link, next, op, sent, result, history>>

-----------------------------------------------------------------------------
(* The two promises.                                                        *)

Started(i) == op[i].status = "started"

\* onAcknowledgement: only a success that names the message counts.
AckOf(p) == IF p.saved /\ fixture # "acknowledgement-failure" THEN "resolved" ELSE "rejected"
Acknowledged(p) ==
  /\ p.to = "sender" /\ air' = air \ {p}
  /\ op' = IF op[p.id].ack = "pending" /\ fixture # "acknowledgement-timeout"
           THEN [op EXCEPT ![p.id].ack = AckOf(p)] ELSE op
  /\ answered' = IF op[p.id].ack = "pending" /\ p.saved THEN answered \cup {p.id} ELSE answered
  /\ UNCHANGED <<fixture, stage, link, next, sent, lost, result, received>>

AckTimeout(i) ==
  /\ stage = "run" /\ Started(i) /\ op[i].ack = "pending"
  /\ op' = [op EXCEPT ![i].ack = "rejected"]
  /\ UNCHANGED <<fixture, stage, next, net, result, history>>

\* Mutant: whatever message comes first is taken for the one awaited.
TakesFirst(i, k) == TRUE
\* deliveredEnvelopeMatches: the idempotency key is the opportunity's.
Takes(i, k) == i = k
Waits(i) == /\ Started(i) /\ op[i].delivery = "pending"
            /\ fixture # "recipient-delivery-timeout"
Received(p) ==
  /\ p.to = "recipient" /\ air' = air \ {p}
  /\ op' = [i \in Ops |->
       IF Waits(i) /\ Takes(i, p.id)
       THEN [op[i] EXCEPT !.delivery = IF p.saved THEN "resolved" ELSE "unnamed", !.got = p.id]
       ELSE op[i]]
  /\ received' = IF op[p.id].delivery # "rejected" /\ p.saved THEN received \cup {p.id}
                 ELSE received
  /\ UNCHANGED <<fixture, stage, link, next, sent, lost, result, answered>>

DeliveryTimeout(i) ==
  /\ stage = "run" /\ Started(i) /\ op[i].delivery = "pending"
  /\ op' = [op EXCEPT ![i].delivery = "rejected"]
  /\ UNCHANGED <<fixture, stage, next, net, result, history>>

-----------------------------------------------------------------------------
(* executeMessage: an opportunity fails with its first promise that does,   *)
(* or when what was delivered is not what was acknowledged.                 *)

Correlated(i) == /\ op[i].delivery = "resolved" /\ op[i].got = i
                 /\ fixture # "correlation-mismatch"
Succeeds(i) == Started(i) /\ op[i].ack = "resolved" /\ Correlated(i)
Fails(i) == /\ Started(i)
            /\ \/ "rejected" \in {op[i].ack, op[i].delivery}
               \/ /\ "pending" \notin {op[i].ack, op[i].delivery}
                  /\ ~Correlated(i)
Over(i) == op[i].status = "not-started" \/ Succeeds(i) \/ Fails(i)

\* decorateFixedRateEvidence: what failed does not count as started any more.
Evidence ==
  LET good == {i \in Ops : Succeeds(i)}  bad == {i \in Ops : Fails(i)} IN
  [successes |-> good, failures |-> bad,
   complete |-> good \cup bad # {} /\ bad = {},
   shortfall |-> Cardinality(good) < Slots]

Finish ==
  /\ stage = "run" /\ next = Slots + 1 /\ \A i \in Ops : Over(i)
  /\ stage' = "done" /\ result' = Evidence
  /\ link' = [a \in Actors |-> "closed"] /\ sent' = {} /\ air' = {}
  /\ UNCHANGED <<fixture, next, op, lost, history>>

Next ==
  \/ \E a \in Actors : Connect(a) \/ ConnectFails(a) \/ Drop(a)
  \/ Slot \/ Finish
  \/ \E i \in Ops : Serve(i) \/ AckTimeout(i) \/ DeliveryTimeout(i)
  \/ \E p \in air : Lose(p) \/ Acknowledged(p) \/ Received(p)

Spec == Init /\ [][Next]_vars

-----------------------------------------------------------------------------
(* Properties.                                                              *)

Promises == {"pending", "resolved", "unnamed", "rejected"}
\* Every variable keeps its shape.
TypeOK ==
  /\ stage \in {"connect", "run", "thrown", "done"} /\ fixture \in Fixtures
  /\ link \in [Actors -> {"connecting", "open", "closed"}] /\ next \in 1 .. Slots + 1
  /\ op \in [Ops -> [status : {"waiting", "started", "not-started"}, ack : Promises,
                     delivery : Promises, got : 0 .. Slots]]
  /\ sent \subseteq Ops /\ \A p \in air : p.id \in Ops /\ p.to \in Actors
  /\ lost \in 0 .. MaxLost /\ received \subseteq Ops /\ answered \subseteq Ops

\* A delivery is published exactly for the messages that were acknowledged with their
\* id and received by the other actor, each within its time, however the messages
\* overlap; under a fixture for none.  Every slot that was started is a success or a
\* failure, and the attribution is complete only if each of them was delivered
\* (executeMessage, docs/adr/015: a correlated result from end to end).
DeliveriesCorrelated ==
  stage = "done" =>
    /\ result.successes = IF fixture = "none" THEN received \cap answered ELSE {}
    /\ result.failures = {i \in Ops : Started(i)} \ result.successes
    /\ result.complete => /\ {i \in Ops : Started(i)} \subseteq received
                          /\ \E i \in Ops : Started(i)
=============================================================================
