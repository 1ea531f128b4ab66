------------------------------ MODULE JobQueue ------------------------------
(***************************************************************************)
(* One RabbitMQ job queue and the worker process that consumes it: the     *)
(* primary, retry and dead-letter queues (server/src/queues/topology.js),  *)
(* and the runtime shared by the image, notification and audit workers     *)
(* (server/src/workers/workerRuntime.js) with its connection manager.      *)
(*                                                                         *)
(* handleMessage awaits the job's processing and then the confirmation of  *)
(* the retry or dead-letter copy, so each handler in flight is a record    *)
(* whose pc says which of the two it waits for.  A handler keeps the       *)
(* delivery tag of its message but acknowledges through the variable       *)
(* "channel", which a reconnect replaces: tags are numbered per channel.   *)
(***************************************************************************)
EXTENDS Naturals, Sequences

CONSTANTS
  Jobs,         \* the jobs the backend publishes
  Poison,       \* those whose message is not JSON
  Handlers,     \* bounds the calls of handleMessage in flight
  MaxAttempts,  \* RABBITMQ_MAX_ATTEMPTS
  Prefetch,     \* prefetch of the consumer
  MaxDrops,     \* bounds the losses of a connection or channel
  MaxNacks,     \* bounds the publishes the broker refuses
  MaxCrashes    \* bounds the crashes of the worker process

ASSUME PoisonAssumption == Poison \subseteq Jobs
ASSUME AttemptsAssumption == MaxAttempts \in Nat
ASSUME BoundAssumption ==
  Prefetch \in Nat /\ MaxDrops \in Nat /\ MaxNacks \in Nat /\ MaxCrashes \in Nat

VARIABLES
  primary,  \* messages ready in the primary queue, the head first
  out,      \* unacknowledged deliveries of the open channel, oldest first
  nextTag,  \* delivery tag of the channel's next delivery
  retry,    \* the retry queue, the message that expires first at the head
  dlq,      \* jobs in the dead-letter queue
  conn,     \* "up" while the worker consumes on an open channel
  handler,  \* the handlers in flight
  published, done,
  fails,    \* history: how often the processing of a job failed
  drops, nacks, crashes

broker == <<primary, out, nextTag, retry, dlq>>
vars == <<broker, conn, handler, published, done, fails, drops, nacks, crashes>>

Msg == [job : Jobs, attempts : 0..MaxAttempts]
Delivery == [tag : Nat, msg : Msg]
Idle == [pc |-> "idle"]
Busy == [pc : {"work", "confirm"}, tag : Nat, msg : Msg]

TypeOK ==
  /\ primary \in Seq(Msg) /\ retry \in Seq(Msg)
  /\ out \in Seq(Delivery) /\ nextTag \in Nat
  /\ dlq \subseteq Jobs /\ done \subseteq published /\ published \subseteq Jobs
  /\ conn \in {"down", "up"}
  /\ handler \in [Handlers -> {Idle} \cup Busy]
  /\ fails \in [Jobs -> Nat]
  /\ drops \in 0..MaxDrops /\ nacks \in 0..MaxNacks /\ crashes \in 0..MaxCrashes

Init ==
  /\ primary = <<>> /\ out = <<>> /\ retry = <<>> /\ dlq = {}
  /\ nextTag = 1
  /\ conn = "down"
  /\ handler = [h \in Handlers |-> Idle]
  /\ published = {} /\ done = {}
  /\ fails = [j \in Jobs |-> 0]
  /\ drops = 0 /\ nacks = 0 /\ crashes = 0

-----------------------------------------------------------------------------
(* Helpers *)

Working(h) == handler[h].pc = "work"
Ended(h) == [handler EXCEPT ![h] = Idle]

(* The channel closes: the broker puts its deliveries back where they were *)
(* in the queue, and publishes that wait for a confirmation are rejected,  *)
(* which leaves the message as it is and ends the handler.  A handler that *)
(* is processing goes on.                                                  *)
Requeued == [i \in 1..Len(out) |-> out[i].msg] \o primary
Close(hs) ==
  /\ conn' = "down"
  /\ primary' = Requeued
  /\ out' = <<>>
  /\ handler' = [h \in Handlers |-> IF hs[h].pc = "confirm" THEN Idle ELSE hs[h]]

(* channel.ack(message) of a handler that then ends; hs are the handlers   *)
(* without it.  It throws on a closed channel, and the routing that follows *)
(* throws as well.  Otherwise whatever delivery of the current channel has *)
(* the tag is acknowledged; an unknown tag makes the broker close it.      *)
Ack(tag, hs) ==
  \/ /\ conn = "down"
     /\ handler' = hs
     /\ UNCHANGED <<primary, out, conn>>
  \/ /\ conn = "up"
     /\ \E i \in 1..Len(out) :
          /\ out[i].tag = tag
          /\ out' = SubSeq(out, 1, i - 1) \o SubSeq(out, i + 1, Len(out))
     /\ handler' = hs
     /\ UNCHANGED <<primary, conn>>
  \/ /\ conn = "up" /\ \A i \in 1..Len(out) : out[i].tag # tag
     /\ Close(hs)

-----------------------------------------------------------------------------
(* The backend *)

(* publishImageJob and its like: a confirmed publish to the primary queue. *)
Publish(j) ==
  /\ j \notin published
  /\ published' = published \cup {j}
  /\ primary' = Append(primary, [job |-> j, attempts |-> 0])
  /\ UNCHANGED <<out, nextTag, retry, dlq, conn, handler, done, fails, drops, nacks, crashes>>

-----------------------------------------------------------------------------
(* The worker *)

(* connectAndConsume, at the start and in the loop of scheduleReconnect    *)
(* until it succeeds: a new channel, whose delivery tags start over.       *)
Connect ==
  /\ conn = "down"
  /\ conn' = "up"
  /\ nextTag' = 1
  /\ UNCHANGED <<primary, out, retry, dlq, handler, published, done, fails, drops, nacks, crashes>>

(* The broker delivers the head of the queue within the prefetch limit.    *)
Deliver(h) ==
  /\ conn = "up" /\ primary # <<>> /\ Len(out) < Prefetch
  /\ handler[h] = Idle
  /\ handler' = [handler EXCEPT ![h] = [pc |-> "work", tag |-> nextTag, msg |-> Head(primary)]]
  /\ out' = Append(out, [tag |-> nextTag, msg |-> Head(primary)])
  /\ nextTag' = nextTag + 1
  /\ primary' = Tail(primary)
  /\ UNCHANGED <<retry, dlq, conn, published, done, fails, drops, nacks, crashes>>

(* processJob returned. *)
Succeed(h) ==
  /\ Working(h) /\ handler[h].msg.job \notin Poison
  /\ done' = done \cup {handler[h].msg.job}
  /\ Ack(handler[h].tag, Ended(h))
  /\ UNCHANGED <<nextTag, retry, dlq, published, fails, drops, nacks, crashes>>

(* Mutant: the last attempt is skipped. *)
RetryableOneTooFew(m) == m.job \notin Poison /\ m.attempts + 1 < MaxAttempts

(* Attempts, from the header, says how often the job was retried.          *)
Retryable(m) == m.job \notin Poison /\ m.attempts < MaxAttempts

(* Mutant: the message is acknowledged before its copy is published.       *)
FailAckFirst(h) ==
  /\ Working(h) /\ conn = "up"
  /\ fails' = [fails EXCEPT ![handler[h].msg.job] = @ + 1]
  /\ out' = SelectSeq(out, LAMBDA d : d.tag # handler[h].tag)
  /\ \/ /\ Retryable(handler[h].msg)
        /\ retry' = Append(retry, [handler[h].msg EXCEPT !.attempts = @ + 1])
        /\ UNCHANGED <<dlq, nacks>>
     \/ /\ ~Retryable(handler[h].msg)
        /\ dlq' = dlq \cup {handler[h].msg.job}
        /\ UNCHANGED <<retry, nacks>>
     \/ /\ nacks < MaxNacks /\ nacks' = nacks + 1
        /\ UNCHANGED <<retry, dlq>>
  /\ handler' = Ended(h)
  /\ UNCHANGED <<primary, nextTag, conn, published, done, drops, crashes>>

(* processJob threw, or the message did not parse: publishConfirmed sends  *)
(* a copy to the retry or the dead-letter queue.  It throws on a closed    *)
(* channel and the broker may refuse the copy: either leaves the original  *)
(* unacknowledged.                                                         *)
Fail(h) ==
  LET m == handler[h].msg IN
  /\ Working(h)
  /\ fails' = [fails EXCEPT ![m.job] = @ + 1]
  /\ \/ /\ conn = "up" /\ Retryable(m)
        /\ retry' = Append(retry, [m EXCEPT !.attempts = @ + 1])
        /\ handler' = [handler EXCEPT ![h].pc = "confirm"]
        /\ UNCHANGED <<dlq, nacks>>
     \/ /\ conn = "up" /\ ~Retryable(m)
        /\ dlq' = dlq \cup {m.job}
        /\ handler' = [handler EXCEPT ![h].pc = "confirm"]
        /\ UNCHANGED <<retry, nacks>>
     \/ /\ conn = "up" /\ nacks < MaxNacks
        /\ nacks' = nacks + 1
        /\ handler' = Ended(h)
        /\ UNCHANGED <<retry, dlq>>
     \/ /\ conn = "down"
        /\ handler' = Ended(h)
        /\ UNCHANGED <<retry, dlq, nacks>>
  /\ UNCHANGED <<primary, out, nextTag, conn, published, done, drops, crashes>>

(* Mutant: the original is never acknowledged. *)
ConfirmWithoutAck(h) ==
  /\ handler[h].pc = "confirm"
  /\ handler' = Ended(h)
  /\ UNCHANGED <<broker, conn, published, done, fails, drops, nacks, crashes>>

(* The copy is confirmed and the original acknowledged. *)
Confirm(h) ==
  /\ handler[h].pc = "confirm"
  /\ Ack(handler[h].tag, Ended(h))
  /\ UNCHANGED <<nextTag, retry, dlq, published, done, fails, drops, nacks, crashes>>

-----------------------------------------------------------------------------
(* The broker and the environment *)

(* The TTL of the oldest retry copy ends: it is dead-lettered back to the  *)
(* primary queue with its headers.                                         *)
Expire ==
  /\ retry # <<>>
  /\ primary' = Append(primary, Head(retry))
  /\ retry' = Tail(retry)
  /\ UNCHANGED <<out, nextTag, dlq, conn, handler, published, done, fails, drops, nacks, crashes>>

Drop ==
  /\ conn = "up" /\ drops < MaxDrops
  /\ drops' = drops + 1
  /\ Close(handler)
  /\ UNCHANGED <<nextTag, retry, dlq, published, done, fails, nacks, crashes>>

(* The worker process dies with its handlers; Docker restarts it.          *)
Crash ==
  /\ crashes < MaxCrashes
  /\ crashes' = crashes + 1
  /\ Close([h \in Handlers |-> Idle])
  /\ UNCHANGED <<nextTag, retry, dlq, published, done, fails, drops, nacks>>

-----------------------------------------------------------------------------
Handle(h) == Succeed(h) \/ Fail(h) \/ Confirm(h)
DeliverSome == \E h \in Handlers : Deliver(h)

Next ==
  \/ \E j \in Jobs : Publish(j)
  \/ \E h \in Handlers : Deliver(h) \/ Handle(h)
  \/ Connect \/ Expire \/ Drop \/ Crash

Spec == Init /\ [][Next]_vars

(* Handlers end, the broker delivers and expires messages, and reconnects  *)
(* are retried until one succeeds.  Nothing else has to happen.            *)
Fairness ==
  /\ WF_vars(Connect) /\ SF_vars(DeliverSome) /\ WF_vars(Expire)
  /\ \A h \in Handlers : WF_vars(Handle(h))

FairSpec == Spec /\ Fairness

-----------------------------------------------------------------------------
(* Properties *)

InSeq(j, s) == \E i \in 1..Len(s) : s[i].job = j
Held(j) == \E i \in 1..Len(out) : out[i].msg.job = j

(* As long as no channel is lost under a running handler, no job is lost:  *)
(* it was processed or the broker holds a copy, whatever the moment the    *)
(* worker crashes or the broker refuses a copy.                            *)
KeptWhileConnected ==
  drops = 0 => \A j \in published :
    j \in done \/ j \in dlq \/ InSeq(j, primary) \/ InSeq(j, retry) \/ Held(j)

(* A job is dead-lettered only when it is poison or has failed on its      *)
(* first delivery and on every retry, although copies of it multiply with  *)
(* redeliveries, stale handlers acknowledge other deliveries, and the      *)
(* count travels in a header.                                              *)
DlqEarned == \A j \in dlq : j \in Poison \/ fails[j] > MaxAttempts

(* Every published job ends processed or dead-lettered, in spite of the    *)
(* crashes; a lost channel can lose it, a refused copy can leave it        *)
(* unacknowledged.  And redeliveries and retries come to an end, even      *)
(* after a lost connection has left stale handlers whose acknowledgements  *)
(* close further channels.                                                 *)
JobsSettle ==
  /\ \A j \in Jobs : j \in published ~> (j \in done \/ j \in dlq \/ drops + nacks > 0)
  /\ <>[](nacks > 0 \/ (primary = <<>> /\ retry = <<>> /\ out = <<>>))
=============================================================================
