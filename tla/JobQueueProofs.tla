--------------------------- MODULE JobQueueProofs ---------------------------
(***************************************************************************)
(* Proofs about JobQueue, for any number of jobs, handlers, attempts and   *)
(* faults.                                                                 *)
(***************************************************************************)
EXTENDS JobQueue, SequenceTheorems, TLAPS

(* What a queue holds, without the order, and a queue without an element. *)
Ran(s) == {s[i] : i \in 1..Len(s)}
Without(s, i) == SubSeq(s, 1, i - 1) \o SubSeq(s, i + 1, Len(s))

-----------------------------------------------------------------------------
(* Lemmas about queues *)

(* Append adds one element. *)
LEMMA RanAppend ==
  ASSUME NEW S, NEW s \in Seq(S), NEW e \in S
  PROVE  Append(s, e) \in Seq(S) /\ Ran(Append(s, e)) = Ran(s) \cup {e}
<1>1. /\ Append(s, e) \in Seq(S) /\ Len(Append(s, e)) = Len(s) + 1
      /\ \A i \in 1..Len(s) : Append(s, e)[i] = s[i]
      /\ Append(s, e)[Len(s) + 1] = e
  BY AppendProperties
<1>2. Len(s) \in Nat
  BY LenProperties
<1>3. ASSUME NEW x \in Ran(Append(s, e)) PROVE x \in Ran(s) \cup {e}
  BY <1>1, <1>2 DEF Ran
<1>4. ASSUME NEW x \in Ran(s) PROVE x \in Ran(Append(s, e))
  BY <1>1, <1>2 DEF Ran
<1>5. e \in Ran(Append(s, e))
  BY <1>1, <1>2 DEF Ran
<1> QED
  BY <1>1, <1>3, <1>4, <1>5

(* A queue that is not empty is its head and its tail. *)
LEMMA RanTail ==
  ASSUME NEW S, NEW s \in Seq(S), s # <<>>
  PROVE  /\ Head(s) \in S /\ Tail(s) \in Seq(S)
         /\ Ran(s) = {Head(s)} \cup Ran(Tail(s))
<1>1. /\ Head(s) \in S /\ Tail(s) \in Seq(S) /\ Len(Tail(s)) = Len(s) - 1
      /\ \A i \in 1..Len(Tail(s)) : Tail(s)[i] = s[i + 1]
  BY HeadTailProperties
<1>2. Len(s) \in Nat \ {0}
  BY EmptySeq
<1>3. Head(s) = s[1]
  BY DEF Head
<1>4. ASSUME NEW x \in Ran(s) PROVE x \in {Head(s)} \cup Ran(Tail(s))
  <2>1. PICK i \in 1..Len(s) : x = s[i]
    BY DEF Ran
  <2>2. CASE i = 1
    BY <2>1, <2>2, <1>3
  <2>3. CASE i # 1
    <3>1. i - 1 \in 1..Len(Tail(s)) /\ Tail(s)[i - 1] = s[i]
      BY <2>3, <1>1, <1>2
    <3> QED
      BY <3>1, <2>1 DEF Ran
  <2> QED
    BY <2>2, <2>3
<1>5. ASSUME NEW x \in {Head(s)} \cup Ran(Tail(s)) PROVE x \in Ran(s)
  <2>1. CASE x = Head(s)
    BY <2>1, <1>2, <1>3 DEF Ran
  <2>2. CASE x \in Ran(Tail(s))
    <3>1. PICK i \in 1..Len(Tail(s)) : x = Tail(s)[i]
      BY <2>2 DEF Ran
    <3>2. i + 1 \in 1..Len(s) /\ x = s[i + 1]
      BY <3>1, <1>1, <1>2
    <3> QED
      BY <3>2 DEF Ran
  <2> QED
    BY <2>1, <2>2
<1> QED
  BY <1>1, <1>4, <1>5

(* Two queues, one behind the other, hold what both hold. *)
LEMMA RanConcat ==
  ASSUME NEW S, NEW s \in Seq(S), NEW r \in Seq(S)
  PROVE  s \o r \in Seq(S) /\ Ran(s \o r) = Ran(s) \cup Ran(r)
<1>1. /\ s \o r \in Seq(S) /\ Len(s \o r) = Len(s) + Len(r)
      /\ \A i \in 1..Len(s) + Len(r) :
           (s \o r)[i] = IF i <= Len(s) THEN s[i] ELSE r[i - Len(s)]
  BY ConcatProperties
<1>2. Len(s) \in Nat /\ Len(r) \in Nat
  BY LenProperties
<1>3. ASSUME NEW x \in Ran(s \o r) PROVE x \in Ran(s) \cup Ran(r)
  <2>1. PICK i \in 1..Len(s) + Len(r) : x = (s \o r)[i]
    BY <1>1 DEF Ran
  <2>2. CASE i <= Len(s)
    BY <2>1, <2>2, <1>1, <1>2 DEF Ran
  <2>3. CASE ~ (i <= Len(s))
    <3>1. i - Len(s) \in 1..Len(r) /\ x = r[i - Len(s)]
      BY <2>1, <2>3, <1>1, <1>2
    <3> QED
      BY <3>1 DEF Ran
  <2> QED
    BY <2>2, <2>3
<1>4. ASSUME NEW x \in Ran(s) PROVE x \in Ran(s \o r)
  <2>1. PICK i \in 1..Len(s) : x = s[i]
    BY DEF Ran
  <2>2. i \in 1..Len(s \o r) /\ (s \o r)[i] = x
    BY <2>1, <1>1, <1>2
  <2> QED
    BY <2>2 DEF Ran
<1>5. ASSUME NEW x \in Ran(r) PROVE x \in Ran(s \o r)
  <2>1. PICK i \in 1..Len(r) : x = r[i]
    BY DEF Ran
  <2>2. i + Len(s) \in 1..Len(s \o r) /\ (s \o r)[i + Len(s)] = x
    BY <2>1, <1>1, <1>2
  <2> QED
    BY <2>2 DEF Ran
<1> QED
  BY <1>1, <1>3, <1>4, <1>5

(* A queue without its i-th element keeps the others, once each. *)
LEMMA RanRemove ==
  ASSUME NEW S, NEW s \in Seq(S), NEW i \in 1..Len(s)
  PROVE  LET r == Without(s, i) IN
         /\ r \in Seq(S) /\ Len(r) = Len(s) - 1
         /\ \A k \in 1..Len(r) : r[k] = IF k < i THEN s[k] ELSE s[k + 1]
         /\ \A k \in 1..Len(s) : k # i => s[k] \in Ran(r)
         /\ Ran(r) \subseteq Ran(s)
<1>1. Len(s) \in Nat /\ \A k \in 1..Len(s) : s[k] \in S
  BY LenProperties, ElementOfSeq
<1> DEFINE r == Without(s, i)
           a == SubSeq(s, 1, i - 1)
           b == SubSeq(s, i + 1, Len(s))
<1>2. /\ a \in Seq(S) /\ Len(a) = i - 1
      /\ \A k \in 1..i - 1 : a[k] = s[k]
  <2>1. \A k \in 1..i - 1 : s[k] \in S
    BY <1>1
  <2>2. /\ a \in Seq(S) /\ Len(a) = IF 1 <= i - 1 THEN i - 1 - 1 + 1 ELSE 0
        /\ \A k \in 1..i - 1 - 1 + 1 : a[k] = s[1 + k - 1]
    BY <2>1, SubSeqProperties
  <2> HIDE DEF a
  <2> QED
    BY <2>2, <1>1
<1>3. /\ b \in Seq(S) /\ Len(b) = Len(s) - i
      /\ \A k \in 1..Len(s) - i : b[k] = s[i + k]
  <2>1. \A k \in i + 1..Len(s) : s[k] \in S
    BY <1>1
  <2>2. /\ b \in Seq(S) /\ Len(b) = IF i + 1 <= Len(s) THEN Len(s) - (i + 1) + 1 ELSE 0
        /\ \A k \in 1..Len(s) - (i + 1) + 1 : b[k] = s[i + 1 + k - 1]
    BY <1>1, <2>1, SubSeqProperties
  <2> HIDE DEF b
  <2> QED
    BY <2>2, <1>1
<1>4. /\ r \in Seq(S) /\ Len(r) = Len(a) + Len(b)
      /\ \A k \in 1..Len(a) + Len(b) : r[k] = IF k <= Len(a) THEN a[k] ELSE b[k - Len(a)]
  BY <1>2, <1>3, ConcatProperties DEF Without
<1> HIDE DEF a, b, r
<1>5. /\ Len(r) = Len(s) - 1
      /\ \A k \in 1..Len(r) : r[k] = IF k < i THEN s[k] ELSE s[k + 1]
  <2>1. Len(r) = Len(s) - 1
    BY <1>1, <1>2, <1>3, <1>4
  <2>2. ASSUME NEW k \in 1..Len(r) PROVE r[k] = IF k < i THEN s[k] ELSE s[k + 1]
    <3>1. CASE k < i
      BY <3>1, <1>1, <1>2, <1>3, <1>4, <2>1
    <3>2. CASE ~ (k < i)
      <4>1. r[k] = b[k - Len(a)] /\ k - Len(a) \in 1..Len(s) - i
        BY <3>2, <1>1, <1>2, <1>3, <1>4, <2>1
      <4>2. b[k - Len(a)] = s[i + (k - Len(a))]
        BY <4>1, <1>3
      <4>3. i + (k - Len(a)) = k + 1
        BY <1>1, <1>2
      <4> QED
        BY <3>2, <4>1, <4>2, <4>3
    <3> QED
      BY <3>1, <3>2
  <2> QED
    BY <2>1, <2>2
<1>6. ASSUME NEW k \in 1..Len(s), k # i PROVE s[k] \in Ran(r)
  <2>1. CASE k < i
    <3>1. k \in 1..Len(r) /\ r[k] = s[k]
      BY <2>1, <1>1, <1>5
    <3> QED
      BY <3>1 DEF Ran
  <2>2. CASE k > i
    <3>1. k - 1 \in 1..Len(r) /\ r[k - 1] = s[k]
      BY <2>2, <1>1, <1>5
    <3> QED
      BY <3>1 DEF Ran
  <2> QED
    BY <2>1, <2>2, <1>6, <1>1
<1>7. Ran(r) \subseteq Ran(s)
  <2>1. ASSUME NEW k \in 1..Len(r) PROVE r[k] \in Ran(s)
    <3>1. \E m \in 1..Len(s) : r[k] = s[m]
      BY <1>1, <1>5
    <3> QED
      BY <3>1 DEF Ran
  <2> QED
    BY <2>1 DEF Ran
<1> QED
  BY <1>4, <1>5, <1>6, <1>7 DEF r

-----------------------------------------------------------------------------
(* The inductive invariant *)

(* A copy is of a published job, and the attempts it carries are failures  *)
(* the job has had.                                                        *)
Counts(m) == m.job \in published /\ m.attempts <= fails[m.job]

Counted ==
  /\ \A m \in Ran(primary) \cup Ran(retry) : Counts(m)
  /\ \A d \in Ran(out) : Counts(d.msg)
  /\ \A h \in Handlers : handler[h].pc # "idle" => Counts(handler[h].msg)
  /\ DlqEarned

Closed == conn = "down" => out = <<>>

(* A job is safe while there is a copy of it no acknowledgement on its way *)
(* is going to take.                                                       *)
Safe(j) ==
  \/ j \in done \/ j \in dlq
  \/ \E m \in Ran(primary) \cup Ran(retry) : m.job = j
  \/ \E d \in Ran(out) :
       /\ d.msg.job = j
       /\ \A h \in Handlers : handler[h].pc = "confirm" => handler[h].tag # d.tag

(* Until a channel is lost, every handler's tag names its own delivery,    *)
(* and every job is safe.                                                  *)
Links ==
  /\ \A h \in Handlers : handler[h].pc # "idle" =>
       \E d \in Ran(out) : d.tag = handler[h].tag /\ d.msg = handler[h].msg
  /\ \A h, g \in Handlers :
       handler[h].pc # "idle" /\ handler[g].pc # "idle" /\ handler[h].tag = handler[g].tag
         => h = g
  /\ \A d \in Ran(out) : d.tag < nextTag
  /\ \A i, k \in 1..Len(out) : out[i].tag = out[k].tag => i = k

Linked == Links /\ \A j \in published : Safe(j)

BInv == TypeOK /\ Counted /\ Closed
IInv == BInv /\ (drops = 0 => Linked)

(* A handler is idle or waits, and then it has a tag and a message.        *)
LEMMA HandlerShape ==
  ASSUME NEW f \in [Handlers -> {Idle} \cup Busy], NEW h \in Handlers
  PROVE  \/ f[h] = Idle /\ f[h].pc = "idle"
         \/ f[h] \in Busy /\ f[h].pc \in {"work", "confirm"} /\ f[h].pc # "idle"
            /\ f[h].tag \in Nat /\ f[h].msg \in Msg
BY DEF Idle, Busy

(* The messages of the deliveries, as Requeued puts them back.             *)
LEMMA RanDeliveries ==
  ASSUME NEW s \in Seq(Delivery)
  PROVE  LET r == [i \in 1..Len(s) |-> s[i].msg] IN
         r \in Seq(Msg) /\ Ran(r) = {d.msg : d \in Ran(s)}
<1>1. Len(s) \in Nat /\ \A i \in 1..Len(s) : s[i] \in Delivery
  BY LenProperties, ElementOfSeq
<1> DEFINE r == [i \in 1..Len(s) |-> s[i].msg]
<1>2. \A i \in 1..Len(s) : s[i].msg \in Msg
  BY <1>1 DEF Delivery
<1>3. r \in [1..Len(s) -> Msg]
  BY <1>2
<1>4. r \in Seq(Msg) /\ Len(r) = Len(s)
  BY <1>1, <1>3
<1>5. Ran(r) = {d.msg : d \in Ran(s)}
  <2>1. \A i \in 1..Len(s) : r[i] = s[i].msg
    OBVIOUS
  <2> HIDE DEF r
  <2> QED
    BY <1>4, <2>1 DEF Ran
<1> QED
  BY <1>4, <1>5

(* A channel that closes requeues its deliveries and ends the handlers     *)
(* that wait for a confirmation.                                           *)
LEMMA CloseEffect ==
  ASSUME TypeOK, NEW hs \in [Handlers -> {Idle} \cup Busy], Close(hs)
  PROVE  /\ conn' = "down" /\ out' = <<>> /\ out' \in Seq(Delivery)
         /\ primary' \in Seq(Msg)
         /\ Ran(primary') = {d.msg : d \in Ran(out)} \cup Ran(primary)
         /\ handler' \in [Handlers -> {Idle} \cup Busy]
         /\ \A h \in Handlers : handler'[h] = Idle \/ handler'[h] = hs[h]
<1>1. Requeued \in Seq(Msg) /\ Ran(Requeued) = {d.msg : d \in Ran(out)} \cup Ran(primary)
  <2> DEFINE r == [i \in 1..Len(out) |-> out[i].msg]
  <2>1. r \in Seq(Msg) /\ Ran(r) = {d.msg : d \in Ran(out)}
    BY RanDeliveries DEF TypeOK
  <2>2. Requeued = r \o primary
    BY DEF Requeued
  <2> HIDE DEF r
  <2> QED
    BY <2>1, <2>2, RanConcat DEF TypeOK
<1>2. out' \in Seq(Delivery)
  BY EmptySeq DEF Close
<1> QED
  BY <1>1, <1>2 DEF Close

(* An acknowledgement, of whatever delivery, loses nothing but that one.   *)
LEMMA AckEffect ==
  ASSUME TypeOK, Closed, NEW tag, NEW hs \in [Handlers -> {Idle} \cup Busy], Ack(tag, hs)
  PROVE  /\ conn' \in {"down", "up"} /\ Closed'
         /\ out' \in Seq(Delivery) /\ Ran(out') \subseteq Ran(out)
         /\ primary' \in Seq(Msg)
         /\ Ran(primary') \subseteq {d.msg : d \in Ran(out)} \cup Ran(primary)
         /\ handler' \in [Handlers -> {Idle} \cup Busy]
         /\ \A h \in Handlers : handler'[h] = Idle \/ handler'[h] = hs[h]
<1>1. CASE conn = "down" /\ handler' = hs /\ UNCHANGED <<primary, out, conn>>
  BY <1>1 DEF TypeOK, Closed
<1>2. CASE /\ conn = "up" /\ handler' = hs /\ UNCHANGED <<primary, conn>>
           /\ \E i \in 1..Len(out) : out' = Without(out, i)
  <2>1. PICK i \in 1..Len(out) : out' = Without(out, i)
    BY <1>2
  <2>2. out' \in Seq(Delivery) /\ Ran(out') \subseteq Ran(out)
    BY <2>1, RanRemove DEF TypeOK
  <2> QED
    BY <1>2, <2>2 DEF TypeOK, Closed
<1>3. CASE conn = "up" /\ Close(hs)
  <2>1. Ran(out') \subseteq Ran(out)
    BY <1>3, CloseEffect, EmptySeq DEF Ran
  <2> QED
    BY <1>3, <2>1, CloseEffect DEF Closed
<1> QED
  BY <1>1, <1>2, <1>3 DEF Ack, Without

-----------------------------------------------------------------------------
(* Types and counted attempts *)

(* What the queues and handlers hold still counts as long as it comes from *)
(* what they held, and no failure is forgotten.                            *)
LEMMA CountedKept ==
  ASSUME BInv, TypeOK', \A j \in Jobs : fails'[j] >= fails[j], DlqEarned',
         published \subseteq published',
         \A m \in Ran(primary') \cup Ran(retry') :
           \/ m \in Ran(primary) \cup Ran(retry) \cup {d.msg : d \in Ran(out)}
           \/ Counts(m)',
         Ran(out') \subseteq Ran(out),
         \A h \in Handlers : \/ handler'[h].pc = "idle"
                             \/ handler'[h].msg = handler[h].msg /\ handler[h].pc # "idle"
  PROVE  Counted'
<1> USE DEF BInv
<1>1. /\ \A m \in Ran(primary) \cup Ran(retry) : m \in Msg
      /\ \A d \in Ran(out) : d \in Delivery
  BY ElementOfSeq DEF TypeOK, Ran
<1>2. \A j \in Jobs : fails[j] \in Nat /\ fails'[j] \in Nat
  BY DEF TypeOK
<1>3. ASSUME NEW m \in Msg, Counts(m) PROVE Counts(m)'
  BY <1>2, <1>3 DEF Msg, Counts
<1>4. ASSUME NEW m \in Ran(primary') \cup Ran(retry') PROVE Counts(m)'
  <2>1. CASE m \in Ran(primary) \cup Ran(retry)
    BY <2>1, <1>1, <1>3 DEF Counted
  <2>2. CASE m \in {d.msg : d \in Ran(out)}
    BY <2>2, <1>1, <1>3 DEF Counted, Delivery
  <2> QED
    BY <1>4, <2>1, <2>2
<1>5. ASSUME NEW d \in Ran(out') PROVE Counts(d.msg)'
  BY <1>1, <1>3 DEF Counted, Delivery
<1>6. ASSUME NEW h \in Handlers, handler'[h].pc # "idle"
      PROVE  Counts(handler[h].msg)'
  <2>1. handler'[h].msg = handler[h].msg /\ handler[h].pc # "idle"
    BY <1>6
  <2>2. handler[h].msg \in Msg
    BY <2>1, HandlerShape DEF TypeOK
  <2>3. Counts(handler[h].msg)
    BY <2>1 DEF Counted
  <2> QED
    BY <1>2, <2>1, <2>2, <2>3 DEF Counts, Msg
<1> QED
  BY <1>4, <1>5, <1>6 DEF Counted

(* Types, counted attempts and closed channels are kept by every step.     *)
LEMMA BaseKept == BInv /\ [Next]_vars => BInv'
<1> SUFFICES ASSUME BInv, [Next]_vars PROVE BInv'
  OBVIOUS
<1> USE DEF BInv
<1>0. /\ \A m \in Ran(primary) \cup Ran(retry) : m \in Msg
      /\ \A d \in Ran(out) : d \in Delivery
      /\ \A j \in Jobs : fails[j] \in Nat
  BY ElementOfSeq DEF TypeOK, Ran
<1>1. ASSUME NEW j \in Jobs, Publish(j) PROVE BInv'
  <2> DEFINE m == [job |-> j, attempts |-> 0]
  <2>1. m \in Msg /\ m.job = j /\ m.attempts = 0
    BY AttemptsAssumption DEF Msg
  <2> HIDE DEF m
  <2>2. primary' \in Seq(Msg) /\ Ran(primary') = Ran(primary) \cup {m}
    BY <1>1, <2>1, RanAppend DEF Publish, TypeOK, m
  <2>3. TypeOK' /\ Closed'
    BY <1>1, <2>2 DEF Publish, TypeOK, Closed
  <2>4. Counts(m)'
    BY <1>1, <1>0, <2>1 DEF Publish, Counts
  <2>5. DlqEarned'
    BY <1>1 DEF Publish, Counted, DlqEarned
  <2>6. Counted'
    BY <1>1, <1>0, <2>2, <2>3, <2>4, <2>5, CountedKept DEF Publish
  <2> QED
    BY <2>3, <2>6
<1>2. ASSUME NEW h \in Handlers, Deliver(h) PROVE BInv'
  <2> DEFINE m == Head(primary)
             d == [tag |-> nextTag, msg |-> m]
  <2>1. /\ m \in Msg /\ Tail(primary) \in Seq(Msg)
        /\ Ran(primary) = {m} \cup Ran(Tail(primary))
    BY <1>2, RanTail DEF Deliver, TypeOK
  <2>2. d \in Delivery
    BY <2>1 DEF Delivery, TypeOK
  <2>3. out' \in Seq(Delivery) /\ Ran(out') = Ran(out) \cup {d}
    BY <1>2, <2>2, RanAppend DEF Deliver, TypeOK
  <2>4. handler' \in [Handlers -> {Idle} \cup Busy]
    BY <1>2, <2>1 DEF Deliver, TypeOK, Busy
  <2>5. TypeOK' /\ Closed'
    BY <1>2, <2>1, <2>3, <2>4 DEF Deliver, TypeOK, Closed
  <2>6. Counts(m)
    BY <2>1 DEF Counted
  <2>7. d.msg = m /\ handler'[h].msg = m /\ \A g \in Handlers \ {h} : handler'[g] = handler[g]
    BY <1>2 DEF Deliver, TypeOK
  <2>8. primary' = Tail(primary) /\ UNCHANGED <<retry, dlq, fails, published>>
    BY <1>2 DEF Deliver
  <2> HIDE DEF m, d
  <2>9. \A x : Counts(x)' <=> Counts(x)
    BY <2>8 DEF Counts
  <2>10. /\ \A x \in Ran(primary') \cup Ran(retry') : Counts(x)
         /\ \A x \in Ran(out') : Counts(x.msg)
    BY <2>1, <2>3, <2>6, <2>7, <2>8 DEF Counted
  <2>11. \A g \in Handlers : handler'[g].pc # "idle" => Counts(handler'[g].msg)
    BY <2>6, <2>7 DEF Counted
  <2>12. Counted'
    BY <2>8, <2>10, <2>11 DEF Counted, DlqEarned, Counts
  <2> QED
    BY <2>5, <2>12
<1>3. ASSUME NEW h \in Handlers, Succeed(h) PROVE BInv'
  <2>1. Ended(h) \in [Handlers -> {Idle} \cup Busy]
    BY DEF Ended, TypeOK
  <2>2. /\ conn' \in {"down", "up"} /\ Closed'
        /\ out' \in Seq(Delivery) /\ Ran(out') \subseteq Ran(out)
        /\ primary' \in Seq(Msg)
        /\ Ran(primary') \subseteq {d.msg : d \in Ran(out)} \cup Ran(primary)
        /\ handler' \in [Handlers -> {Idle} \cup Busy]
        /\ \A g \in Handlers : handler'[g] = Idle \/ handler'[g] = Ended(h)[g]
    BY <1>3, <2>1, AckEffect DEF Succeed
  <2>3. handler[h].msg.job \in published
    BY <1>3 DEF Succeed, Working, Counted, Counts
  <2>4. UNCHANGED <<nextTag, retry, dlq, published, fails, drops, nacks, crashes>>
        /\ done' = done \cup {handler[h].msg.job}
    BY <1>3 DEF Succeed
  <2>5. TypeOK'
    BY <2>2, <2>3, <2>4 DEF TypeOK
  <2>6. \A g \in Handlers : \/ handler'[g].pc = "idle"
                            \/ handler'[g].msg = handler[g].msg /\ handler[g].pc # "idle"
    BY <2>2, HandlerShape DEF Ended, TypeOK, Idle
  <2>7. DlqEarned'
    BY <2>4 DEF Counted, DlqEarned
  <2>8. Counted'
    BY <1>0, <2>2, <2>4, <2>5, <2>6, <2>7, CountedKept
  <2> QED
    BY <2>2, <2>5, <2>8
<1>4. ASSUME NEW h \in Handlers, Confirm(h) PROVE BInv'
  <2>1. Ended(h) \in [Handlers -> {Idle} \cup Busy]
    BY DEF Ended, TypeOK
  <2>2. /\ conn' \in {"down", "up"} /\ Closed'
        /\ out' \in Seq(Delivery) /\ Ran(out') \subseteq Ran(out)
        /\ primary' \in Seq(Msg)
        /\ Ran(primary') \subseteq {d.msg : d \in Ran(out)} \cup Ran(primary)
        /\ handler' \in [Handlers -> {Idle} \cup Busy]
        /\ \A g \in Handlers : handler'[g] = Idle \/ handler'[g] = Ended(h)[g]
    BY <1>4, <2>1, AckEffect DEF Confirm
  <2>4. UNCHANGED <<nextTag, retry, dlq, published, done, fails, drops, nacks, crashes>>
    BY <1>4 DEF Confirm
  <2>5. TypeOK'
    BY <2>2, <2>4 DEF TypeOK
  <2>6. \A g \in Handlers : \/ handler'[g].pc = "idle"
                            \/ handler'[g].msg = handler[g].msg /\ handler[g].pc # "idle"
    BY <2>2, HandlerShape DEF Ended, TypeOK, Idle
  <2>7. DlqEarned'
    BY <2>4 DEF Counted, DlqEarned
  <2>8. Counted'
    BY <1>0, <2>2, <2>4, <2>5, <2>6, <2>7, CountedKept
  <2> QED
    BY <2>2, <2>5, <2>8
<1>5. ASSUME NEW h \in Handlers, Fail(h) PROVE BInv'
  <2>0. PICK m : m = handler[h].msg
    OBVIOUS
  <2>a. PICK again : again = [m EXCEPT !.attempts = @ + 1]
    OBVIOUS
  <2>1. /\ m \in Msg /\ Counts(m) /\ handler[h] \in Busy
        /\ m.job \in Jobs /\ m.attempts \in 0..MaxAttempts
    BY <1>5, <2>0, HandlerShape DEF Fail, Working, TypeOK, Counted, Msg
  <2>2. /\ fails' = [fails EXCEPT ![m.job] = @ + 1]
        /\ UNCHANGED <<primary, out, nextTag, conn, published, done, drops, crashes>>
    BY <1>5, <2>0 DEF Fail
  <2>3. /\ fails' \in [Jobs -> Nat] /\ fails'[m.job] = fails[m.job] + 1
        /\ \A j \in Jobs : fails'[j] >= fails[j]
    BY <1>0, <2>1, <2>2 DEF TypeOK
  <2>4. /\ handler' \in [Handlers -> {Idle} \cup Busy]
        /\ \A g \in Handlers : \/ handler'[g].pc = "idle"
                               \/ handler'[g].msg = handler[g].msg /\ handler[g].pc # "idle"
    <3>1. [handler EXCEPT ![h].pc = "confirm"] \in [Handlers -> {Idle} \cup Busy]
      BY <2>1 DEF TypeOK, Busy
    <3>2. Ended(h) \in [Handlers -> {Idle} \cup Busy]
      BY DEF Ended, TypeOK
    <3>3. CASE handler' = [handler EXCEPT ![h].pc = "confirm"]
      BY <1>5, <3>1, <3>3, <2>1, HandlerShape DEF TypeOK, Fail, Working, Idle, Busy
    <3>4. CASE handler' = Ended(h)
      BY <3>2, <3>4, HandlerShape DEF Ended, TypeOK, Idle
    <3> QED
      BY <1>5, <3>3, <3>4 DEF Fail
  <2>5. CASE Retryable(m) /\ retry' = Append(retry, again) /\ UNCHANGED <<dlq, nacks>>
    <3>1. again \in Msg /\ again.job = m.job /\ again.attempts = m.attempts + 1
      BY <2>1, <2>5, <2>a, AttemptsAssumption DEF Retryable, Msg
    <3>2. retry' \in Seq(Msg) /\ Ran(retry') = Ran(retry) \cup {again}
      BY <2>5, <3>1, RanAppend DEF TypeOK
    <3>3. TypeOK' /\ Closed'
      BY <2>2, <2>3, <2>4, <2>5, <3>2 DEF TypeOK, Closed
    <3>4. Counts(again)'
      BY <1>0, <2>1, <2>2, <2>3, <3>1 DEF Counts
    <3>5. DlqEarned'
      <4>1. \A j \in dlq : j \in Jobs /\ (j \in Poison \/ fails[j] > MaxAttempts)
        BY DEF TypeOK, Counted, DlqEarned
      <4> QED
        BY <4>1, <1>0, <2>3, <2>5, AttemptsAssumption DEF DlqEarned
    <3>6. Counted'
      BY <2>2, <2>3, <2>4, <3>2, <3>3, <3>4, <3>5, CountedKept
    <3> QED
      BY <3>3, <3>6
  <2>6. CASE ~Retryable(m) /\ dlq' = dlq \cup {m.job} /\ UNCHANGED <<retry, nacks>>
    <3>1. m.job \in Poison \/ fails'[m.job] > MaxAttempts
      BY <1>0, <2>1, <2>3, <2>6, AttemptsAssumption DEF Retryable, Counts
    <3>3. TypeOK' /\ Closed'
      BY <2>1, <2>2, <2>3, <2>4, <2>6 DEF TypeOK, Closed
    <3>5. DlqEarned'
      <4>1. \A j \in dlq : j \in Jobs /\ (j \in Poison \/ fails[j] > MaxAttempts)
        BY DEF TypeOK, Counted, DlqEarned
      <4> QED
        BY <4>1, <1>0, <2>3, <2>6, <3>1, AttemptsAssumption DEF DlqEarned
    <3>6. Counted'
      BY <2>2, <2>3, <2>4, <2>6, <3>3, <3>5, CountedKept
    <3> QED
      BY <3>3, <3>6
  <2>7. CASE UNCHANGED <<retry, dlq>> /\ nacks' \in 0..MaxNacks
    <3>3. TypeOK' /\ Closed'
      BY <2>1, <2>2, <2>3, <2>4, <2>7 DEF TypeOK, Closed
    <3>5. DlqEarned'
      <4>1. \A j \in dlq : j \in Jobs /\ (j \in Poison \/ fails[j] > MaxAttempts)
        BY DEF TypeOK, Counted, DlqEarned
      <4> QED
        BY <4>1, <1>0, <2>3, <2>7, AttemptsAssumption DEF DlqEarned
    <3>6. Counted'
      BY <2>2, <2>3, <2>4, <2>7, <3>3, <3>5, CountedKept
    <3> QED
      BY <3>3, <3>6
  <2> QED
    BY <1>5, <2>0, <2>a, <2>5, <2>6, <2>7, BoundAssumption DEF Fail, TypeOK
<1>6. CASE Connect
  BY <1>6 DEF Connect, TypeOK, Closed, Counted, Counts, DlqEarned
<1>7. CASE Expire
  <2> DEFINE m == Head(retry)
  <2>1. /\ m \in Msg /\ Tail(retry) \in Seq(Msg)
        /\ Ran(retry) = {m} \cup Ran(Tail(retry))
    BY <1>7, RanTail DEF Expire, TypeOK
  <2>2. /\ UNCHANGED <<out, nextTag, dlq, conn, handler, published, done, fails, drops, nacks, crashes>>
        /\ primary' = Append(primary, m) /\ retry' = Tail(retry)
    BY <1>7 DEF Expire
  <2> HIDE DEF m
  <2>3. primary' \in Seq(Msg) /\ Ran(primary') = Ran(primary) \cup {m}
    BY <2>1, <2>2, RanAppend DEF TypeOK
  <2>4. TypeOK' /\ Closed'
    BY <2>1, <2>2, <2>3 DEF TypeOK, Closed
  <2>5. DlqEarned'
    BY <2>2 DEF Counted, DlqEarned
  <2>6. Counted'
    BY <1>0, <2>1, <2>2, <2>3, <2>4, <2>5, CountedKept
  <2> QED
    BY <2>4, <2>6
<1>8. ASSUME NEW hs \in [Handlers -> {Idle} \cup Busy],
             \A g \in Handlers : hs[g] = Idle \/ hs[g] = handler[g], Close(hs),
             UNCHANGED <<nextTag, retry, dlq, published, done, fails, nacks>>,
             drops' \in 0..MaxDrops, crashes' \in 0..MaxCrashes
      PROVE  BInv'
  <2>1. /\ conn' = "down" /\ out' = <<>> /\ out' \in Seq(Delivery)
        /\ primary' \in Seq(Msg)
        /\ Ran(primary') = {d.msg : d \in Ran(out)} \cup Ran(primary)
        /\ handler' \in [Handlers -> {Idle} \cup Busy]
        /\ \A g \in Handlers : handler'[g] = Idle \/ handler'[g] = hs[g]
    BY <1>8, CloseEffect
  <2>2. Ran(out') = {}
    BY <2>1, EmptySeq DEF Ran
  <2>3. TypeOK' /\ Closed'
    BY <1>8, <2>1 DEF TypeOK, Closed
  <2>4. DlqEarned'
    BY <1>8 DEF Counted, DlqEarned
  <2>5. \A g \in Handlers : \/ handler'[g].pc = "idle"
                            \/ handler'[g].msg = handler[g].msg /\ handler[g].pc # "idle"
    BY <1>8, <2>1, HandlerShape DEF TypeOK, Idle
  <2>6. Counted'
    BY <1>0, <1>8, <2>1, <2>2, <2>3, <2>4, <2>5, CountedKept
  <2> QED
    BY <2>3, <2>6
<1>9. CASE Drop
  <2>1. drops' \in 0..MaxDrops
    BY <1>9, BoundAssumption DEF Drop, TypeOK
  <2> QED
    BY <1>8, <1>9, <2>1 DEF Drop, TypeOK
<1>10. CASE Crash
  <2>1. crashes' \in 0..MaxCrashes
    BY <1>10, BoundAssumption DEF Crash, TypeOK
  <2>2. [g \in Handlers |-> Idle] \in [Handlers -> {Idle} \cup Busy]
    OBVIOUS
  <2> QED
    BY <1>8, <1>10, <2>1, <2>2 DEF Crash, TypeOK
<1>11. CASE UNCHANGED vars
  BY <1>11 DEF vars, broker, TypeOK, Closed, Counted, Counts, DlqEarned
<1> QED
  BY <1>1, <1>2, <1>3, <1>4, <1>5, <1>6, <1>7, <1>9, <1>10, <1>11 DEF Next, Handle

(* Every reachable state of the job queue is type-correct, with any number *)
(* of jobs and handlers and any limits.                                    *)
THEOREM BaseInvariant == Spec => []BInv
<1>1. Init => BInv
  <2>1. /\ <<>> \in Seq(Msg) /\ <<>> \in Seq(Delivery)
        /\ Ran(<<>>) = {}
    BY EmptySeq DEF Ran
  <2>2. SUFFICES ASSUME Init PROVE BInv
    OBVIOUS
  <2>3. handler \in [Handlers -> {Idle} \cup Busy] /\ \A h \in Handlers : handler[h].pc = "idle"
    BY <2>2 DEF Init, Idle
  <2>4. TypeOK
    BY <2>1, <2>2, <2>3, BoundAssumption DEF Init, TypeOK
  <2>5. Closed /\ Counted
    BY <2>1, <2>2, <2>3 DEF Init, Closed, Counted, DlqEarned
  <2> QED
    BY <2>4, <2>5 DEF BInv
<1> QED
  BY <1>1, BaseKept, PTL DEF Spec

(* Every variable keeps its type, and every counter with a bound keeps it.  *)
THEOREM TypeCorrect == Spec => []TypeOK
BY BaseInvariant, PTL DEF BInv

(* A job is dead-lettered only when it is poison or has failed more often  *)
(* than MaxAttempts allows (workerRuntime.js:242), for any limit, whatever *)
(* copies redeliveries make and whichever delivery a stale handler settles.*)
THEOREM DeadLettersAreEarned == Spec => []DlqEarned
BY BaseInvariant, PTL DEF BInv, Counted

-----------------------------------------------------------------------------
(* No job is lost *)

(* What makes a job safe before a step keeps it safe after it.             *)
LEMMA SafeKept ==
  ASSUME NEW j, Safe(j), done \subseteq done', dlq \subseteq dlq',
         \A m \in Ran(primary) \cup Ran(retry) : m.job = j => Safe(j)',
         \A d \in Ran(out) :
           /\ d.msg.job = j
           /\ \A h \in Handlers : handler[h].pc = "confirm" => handler[h].tag # d.tag
           => Safe(j)'
  PROVE  Safe(j)'
<1>1. CASE j \in done \/ j \in dlq
  BY <1>1 DEF Safe
<1>2. CASE \E m \in Ran(primary) \cup Ran(retry) : m.job = j
  BY <1>2
<1>3. CASE \E d \in Ran(out) :
             /\ d.msg.job = j
             /\ \A h \in Handlers : handler[h].pc = "confirm" => handler[h].tag # d.tag
  BY <1>3
<1> QED
  BY <1>1, <1>2, <1>3 DEF Safe

(* Handlers that go on or end keep their links to deliveries that stay.    *)
LEMMA LinksKept ==
  ASSUME Links, UNCHANGED <<out, nextTag>>,
         \A h \in Handlers :
           \/ handler'[h].pc = "idle"
           \/ /\ handler[h].pc # "idle"
              /\ handler'[h].tag = handler[h].tag /\ handler'[h].msg = handler[h].msg
  PROVE  Links'
<1>1. \A h \in Handlers : handler'[h].pc # "idle" =>
        \E d \in Ran(out) : d.tag = handler'[h].tag /\ d.msg = handler'[h].msg
  BY DEF Links
<1>2. \A h, g \in Handlers :
        handler'[h].pc # "idle" /\ handler'[g].pc # "idle" /\ handler'[h].tag = handler'[g].tag
          => h = g
  BY DEF Links
<1> QED
  BY <1>1, <1>2 DEF Links

(* A handler with links settles its own delivery and no other.             *)
LEMMA AckSettles ==
  ASSUME BInv, Links, NEW h \in Handlers, handler[h].pc # "idle",
         Ack(handler[h].tag, Ended(h))
  PROVE  \E i \in 1..Len(out) :
           /\ out[i].tag = handler[h].tag /\ out[i].msg = handler[h].msg
           /\ out' = Without(out, i) /\ handler' = Ended(h) /\ UNCHANGED primary
<1>1. PICK k \in 1..Len(out) : out[k].tag = handler[h].tag /\ out[k].msg = handler[h].msg
  BY DEF Links, Ran
<1>2. conn # "down"
  BY <1>1, EmptySeq DEF BInv, Closed
<1>3. PICK i \in 1..Len(out) :
        /\ out[i].tag = handler[h].tag /\ out' = Without(out, i)
        /\ handler' = Ended(h) /\ UNCHANGED primary
  BY <1>1, <1>2 DEF Ack, Without
<1>4. i = k
  BY <1>1, <1>3 DEF Links
<1> QED
  BY <1>1, <1>3, <1>4

(* Settling a delivery leaves the links of the others.                     *)
LEMMA AckLinks ==
  ASSUME BInv, Links, NEW h \in Handlers, handler[h].pc # "idle", UNCHANGED nextTag,
         NEW i \in 1..Len(out), out[i].tag = handler[h].tag,
         out' = Without(out, i), handler' = Ended(h)
  PROVE  /\ Links'
         /\ \A d \in Ran(out) : d.tag # handler[h].tag => d \in Ran(out')
<1>1. out \in Seq(Delivery)
  BY DEF BInv, TypeOK
<1>2. /\ out' \in Seq(Delivery) /\ Len(out') = Len(out) - 1
      /\ \A k \in 1..Len(out') : out'[k] = IF k < i THEN out[k] ELSE out[k + 1]
      /\ \A k \in 1..Len(out) : k # i => out[k] \in Ran(out')
      /\ Ran(out') \subseteq Ran(out)
  BY <1>1, RanRemove
<1>3. Len(out) \in Nat
  BY <1>1, LenProperties
<1>4. ASSUME NEW d \in Ran(out), d.tag # handler[h].tag PROVE d \in Ran(out')
  BY <1>2, <1>4 DEF Ran
<1>5. \A g \in Handlers : handler'[g].pc # "idle" => g # h /\ handler'[g] = handler[g]
  BY DEF Ended, Idle, BInv, TypeOK
<1>6. ASSUME NEW g \in Handlers, handler'[g].pc # "idle"
      PROVE  \E d \in Ran(out') : d.tag = handler'[g].tag /\ d.msg = handler'[g].msg
  <2>1. g # h /\ handler'[g] = handler[g] /\ handler[g].pc # "idle"
    BY <1>5, <1>6
  <2>2. PICK d \in Ran(out) : d.tag = handler[g].tag /\ d.msg = handler[g].msg
    BY <2>1 DEF Links
  <2>3. d.tag # handler[h].tag
    BY <2>1, <2>2 DEF Links
  <2> QED
    BY <1>4, <2>1, <2>2, <2>3
<1>7. \A k, g \in Handlers :
        handler'[k].pc # "idle" /\ handler'[g].pc # "idle" /\ handler'[k].tag = handler'[g].tag
          => k = g
  BY <1>5 DEF Links
<1>8. ASSUME NEW k \in 1..Len(out'), NEW m \in 1..Len(out'), out'[k].tag = out'[m].tag
      PROVE  k = m
  <2> DEFINE At(x) == IF x < i THEN x ELSE x + 1
  <2>1. /\ At(k) \in 1..Len(out) /\ out'[k] = out[At(k)]
        /\ At(m) \in 1..Len(out) /\ out'[m] = out[At(m)]
    BY <1>2, <1>3
  <2>2. At(k) = At(m)
    BY <1>8, <2>1 DEF Links
  <2> QED
    BY <1>2, <1>3, <2>2
<1>9. \A d \in Ran(out') : d.tag < nextTag
  BY <1>2 DEF Links
<1> QED
  BY <1>4, <1>6, <1>7, <1>8, <1>9 DEF Links

(* Without a lost channel, every step keeps the links and the safe jobs.   *)
LEMMA LinkedKept ==
  ASSUME BInv, BInv', Linked, drops' = 0, [Next]_vars
  PROVE  Linked'
<1> USE DEF Linked
<1>0. /\ primary \in Seq(Msg) /\ retry \in Seq(Msg) /\ out \in Seq(Delivery)
      /\ nextTag \in Nat /\ \A d \in Ran(out) : d \in Delivery /\ d.tag \in Nat
  <2>1. /\ primary \in Seq(Msg) /\ retry \in Seq(Msg) /\ out \in Seq(Delivery) /\ nextTag \in Nat
    BY DEF BInv, TypeOK
  <2>2. \A d \in Ran(out) : d \in Delivery
    BY <2>1, ElementOfSeq DEF Ran
  <2> QED
    BY <2>1, <2>2 DEF Delivery
<1>1. ASSUME NEW j \in Jobs, Publish(j) PROVE Linked'
  <2> DEFINE m == [job |-> j, attempts |-> 0]
  <2>1. m \in Msg /\ m.job = j
    BY AttemptsAssumption DEF Msg
  <2>2. /\ UNCHANGED <<out, nextTag, retry, dlq, handler, done>>
        /\ published' = published \cup {j} /\ primary' = Append(primary, m)
    BY <1>1 DEF Publish
  <2> HIDE DEF m
  <2>3. Ran(primary') = Ran(primary) \cup {m}
    BY <1>0, <2>1, <2>2, RanAppend
  <2>4. Links'
    BY <2>2, LinksKept
  <2>5. Safe(j)'
    BY <2>1, <2>3 DEF Safe
  <2>6. ASSUME NEW k \in published PROVE Safe(k)'
    BY <2>2, <2>3 DEF Safe
  <2> QED
    BY <2>2, <2>4, <2>5, <2>6
<1>2. ASSUME NEW h \in Handlers, Deliver(h) PROVE Linked'
  <2> DEFINE m == Head(primary)
             d == [tag |-> nextTag, msg |-> m]
  <2>1. m \in Msg /\ Ran(primary) = {m} \cup Ran(Tail(primary))
    BY <1>0, <1>2, RanTail DEF Deliver
  <2>2. d \in Delivery /\ d.tag = nextTag /\ d.msg = m
    BY <1>0, <2>1 DEF Delivery
  <2>3. /\ handler[h].pc = "idle" /\ handler'[h].pc = "work"
        /\ handler'[h].tag = nextTag /\ handler'[h].msg = m
        /\ \A g \in Handlers \ {h} : handler'[g] = handler[g]
        /\ out' = Append(out, d) /\ nextTag' = nextTag + 1 /\ primary' = Tail(primary)
        /\ UNCHANGED <<retry, dlq, published, done>>
    BY <1>2 DEF Deliver, BInv, TypeOK, Idle
  <2> HIDE DEF m, d
  <2>4. /\ Ran(out') = Ran(out) \cup {d} /\ Len(out') = Len(out) + 1
        /\ \A i \in 1..Len(out) : out'[i] = out[i] /\ out[i] \in Ran(out)
        /\ out'[Len(out) + 1] = d /\ Len(out) \in Nat
    BY <1>0, <2>2, <2>3, RanAppend, AppendProperties, LenProperties DEF Ran
  <2>5. \A g \in Handlers \ {h} : handler[g].pc # "idle" => handler[g].tag # nextTag
    BY <1>0 DEF Links
  <2>6. \A g \in Handlers : handler'[g].pc # "idle" =>
          \E e \in Ran(out') : e.tag = handler'[g].tag /\ e.msg = handler'[g].msg
    BY <2>2, <2>3, <2>4 DEF Links
  <2>7. \A f, g \in Handlers :
          handler'[f].pc # "idle" /\ handler'[g].pc # "idle" /\ handler'[f].tag = handler'[g].tag
            => f = g
    BY <2>3, <2>5 DEF Links
  <2>8. \A e \in Ran(out') : e.tag < nextTag'
    BY <1>0, <2>2, <2>3, <2>4 DEF Links
  <2>9. \A i, k \in 1..Len(out') : out'[i].tag = out'[k].tag => i = k
    <3>1. \A i \in 1..Len(out') :
            \/ i \in 1..Len(out) /\ out'[i] = out[i] /\ out'[i].tag # nextTag
            \/ i = Len(out) + 1 /\ out'[i].tag = nextTag
      BY <1>0, <2>2, <2>4 DEF Links
    <3> QED
      BY <3>1 DEF Links
  <2>10. ASSUME NEW j \in published PROVE Safe(j)'
    <3>1. \A g \in Handlers : handler'[g].pc = "confirm" =>
            handler[g].pc = "confirm" /\ handler'[g].tag = handler[g].tag /\ handler[g].tag # nextTag
      BY <2>3, <2>5
    <3>2. m.job = j => Safe(j)'
      BY <2>2, <2>4, <3>1 DEF Safe
    <3>3. \A e \in Ran(primary) \cup Ran(retry) : e.job = j => Safe(j)'
      BY <2>1, <2>3, <3>2 DEF Safe
    <3>4. ASSUME NEW e \in Ran(out), e.msg.job = j,
                 \A g \in Handlers : handler[g].pc = "confirm" => handler[g].tag # e.tag
          PROVE  Safe(j)'
      BY <2>4, <3>1, <3>4 DEF Safe
    <3>5. Safe(j)
      OBVIOUS
    <3> QED
      BY <2>3, <3>3, <3>4, <3>5, SafeKept
  <2> QED
    BY <2>3, <2>6, <2>7, <2>8, <2>9, <2>10 DEF Links
<1>3. ASSUME NEW h \in Handlers, Succeed(h) PROVE Linked'
  <2>1. handler[h].pc # "idle" /\ Ack(handler[h].tag, Ended(h)) /\ nextTag' = nextTag
        /\ done' = done \cup {handler[h].msg.job} /\ UNCHANGED <<retry, dlq, published>>
    BY <1>3 DEF Succeed, Working
  <2>2. PICK i \in 1..Len(out) :
          /\ out[i].tag = handler[h].tag /\ out[i].msg = handler[h].msg
          /\ out' = Without(out, i) /\ handler' = Ended(h) /\ UNCHANGED primary
    BY <2>1, AckSettles
  <2>3. /\ Links'
        /\ \A d \in Ran(out) : d.tag # handler[h].tag => d \in Ran(out')
    BY <2>1, <2>2, AckLinks
  <2>4. \A g \in Handlers : handler'[g].pc = "confirm" => handler'[g] = handler[g]
    BY <2>2 DEF Ended, BInv, TypeOK, Idle
  <2>5. ASSUME NEW j \in published PROVE Safe(j)'
    <3>1. \A e \in Ran(primary) \cup Ran(retry) : e.job = j => Safe(j)'
      BY <2>1, <2>2 DEF Safe
    <3>2. ASSUME NEW d \in Ran(out), d.msg.job = j,
                 \A g \in Handlers : handler[g].pc = "confirm" => handler[g].tag # d.tag
          PROVE  Safe(j)'
      <4>1. CASE d.tag = handler[h].tag
        <5>1. d = out[i]
          BY <2>2, <4>1 DEF Links, Ran
        <5> QED
          BY <2>1, <2>2, <3>2, <5>1 DEF Safe
      <4>2. CASE d.tag # handler[h].tag
        BY <2>3, <2>4, <3>2, <4>2 DEF Safe
      <4> QED
        BY <4>1, <4>2
    <3>3. Safe(j)
      OBVIOUS
    <3> QED
      BY <2>1, <3>1, <3>2, <3>3, SafeKept
  <2> QED
    BY <2>1, <2>3, <2>5
<1>4. ASSUME NEW h \in Handlers, Confirm(h) PROVE Linked'
  <2>1. handler[h].pc = "confirm" /\ Ack(handler[h].tag, Ended(h)) /\ nextTag' = nextTag
        /\ UNCHANGED <<retry, dlq, published, done>>
    BY <1>4 DEF Confirm
  <2>2. PICK i \in 1..Len(out) :
          /\ out[i].tag = handler[h].tag /\ out[i].msg = handler[h].msg
          /\ out' = Without(out, i) /\ handler' = Ended(h) /\ UNCHANGED primary
    BY <2>1, AckSettles
  <2>3. /\ Links'
        /\ \A d \in Ran(out) : d.tag # handler[h].tag => d \in Ran(out')
    BY <2>1, <2>2, AckLinks
  <2>4. \A g \in Handlers : handler'[g].pc = "confirm" => handler'[g] = handler[g]
    BY <2>2 DEF Ended, BInv, TypeOK, Idle
  <2>5. ASSUME NEW j \in published PROVE Safe(j)'
    <3>1. \A e \in Ran(primary) \cup Ran(retry) : e.job = j => Safe(j)'
      BY <2>1, <2>2 DEF Safe
    <3>2. ASSUME NEW d \in Ran(out), d.msg.job = j,
                 \A g \in Handlers : handler[g].pc = "confirm" => handler[g].tag # d.tag
          PROVE  Safe(j)'
      <4>1. d \in Ran(out')
        BY <2>1, <2>3, <3>2
      <4>2. \A g \in Handlers : handler'[g].pc = "confirm" => handler'[g].tag # d.tag
        BY <2>4, <3>2
      <4> QED
        BY <3>2, <4>1, <4>2 DEF Safe
    <3>3. Safe(j)
      OBVIOUS
    <3> QED
      BY <2>1, <3>1, <3>2, <3>3, SafeKept
  <2> QED
    BY <2>1, <2>3, <2>5
<1>5. ASSUME NEW h \in Handlers, Fail(h) PROVE Linked'
  <2>0. PICK m : m = handler[h].msg
    OBVIOUS
  <2>1. /\ handler[h].pc = "work" /\ m \in Msg /\ m.job \in Jobs
        /\ UNCHANGED <<primary, out, nextTag, published, done>>
    BY <1>5, <2>0, HandlerShape DEF Fail, Working, BInv, TypeOK, Msg
  <2>2. \/ handler' = [handler EXCEPT ![h].pc = "confirm"]
        \/ handler' = Ended(h)
    BY <1>5 DEF Fail
  <2>3. \A g \in Handlers :
          \/ handler'[g].pc = "idle"
          \/ /\ handler[g].pc # "idle"
             /\ handler'[g].tag = handler[g].tag /\ handler'[g].msg = handler[g].msg
    <3>1. handler[h] \in Busy
      BY <2>1, HandlerShape DEF BInv, TypeOK
    <3>2. \A g \in Handlers : handler[g].pc = "idle" \/ handler[g].pc # "idle"
      OBVIOUS
    <3> QED
      BY <2>1, <2>2, <3>1 DEF Ended, Idle, BInv, TypeOK, Busy
  <2>4. Links'
    BY <2>1, <2>3, LinksKept
  <2>5. \A g \in Handlers \ {h} : handler'[g] = handler[g]
    BY <2>2 DEF Ended, BInv, TypeOK
  <2>6. CASE UNCHANGED <<retry, dlq>> /\ handler' = Ended(h)
    <3>1. \A g \in Handlers : handler'[g].pc = "confirm" => handler'[g] = handler[g]
      BY <2>6 DEF Ended, BInv, TypeOK, Idle
    <3> QED
      BY <2>1, <2>4, <2>6, <3>1 DEF Safe
  <2>7. CASE /\ m.job \in dlq' \/ \E e \in Ran(retry') : e.job = m.job
             /\ dlq \subseteq dlq' /\ Ran(retry) \subseteq Ran(retry')
    <3>1. Safe(m.job)'
      BY <2>7 DEF Safe
    <3>2. ASSUME NEW j \in published PROVE Safe(j)'
      <4>1. \A e \in Ran(primary) \cup Ran(retry) : e.job = j => Safe(j)'
        BY <2>1, <2>7 DEF Safe
      <4>2. ASSUME NEW d \in Ran(out), d.msg.job = j,
                   \A g \in Handlers : handler[g].pc = "confirm" => handler[g].tag # d.tag
            PROVE  Safe(j)'
        <5>1. CASE d.tag = handler[h].tag
          <6>1. PICK e \in Ran(out) : e.tag = handler[h].tag /\ e.msg = m
            BY <2>0, <2>1 DEF Links
          <6>2. d = e
            BY <5>1, <6>1 DEF Links, Ran
          <6>3. j = m.job
            BY <4>2, <6>1, <6>2
          <6> QED
            BY <3>1, <6>3
        <5>2. CASE d.tag # handler[h].tag
          <6>1. \A g \in Handlers : handler'[g].pc = "confirm" => handler'[g].tag # d.tag
            <7>1. handler'[h].pc = "idle" \/ handler'[h].tag = handler[h].tag
              BY <2>3
            <7> QED
              BY <2>5, <4>2, <5>2, <7>1
          <6> QED
            BY <2>1, <4>2, <6>1 DEF Safe
        <5> QED
          BY <5>1, <5>2
      <4>3. Safe(j)
        OBVIOUS
      <4> QED
        BY <2>1, <2>7, <4>1, <4>2, <4>3, SafeKept
    <3> QED
      BY <2>1, <2>4, <3>2
  <2>8. CASE Retryable(m) /\ retry' = Append(retry, [m EXCEPT !.attempts = @ + 1]) /\ UNCHANGED dlq
    <3>0. PICK again : again = [m EXCEPT !.attempts = @ + 1]
      OBVIOUS
    <3>1. again \in Msg /\ again.job = m.job
      BY <2>1, <2>8, <3>0, AttemptsAssumption DEF Retryable, Msg
    <3>2. Ran(retry') = Ran(retry) \cup {again}
      BY <1>0, <2>8, <3>0, <3>1, RanAppend
    <3> QED
      BY <2>7, <2>8, <3>1, <3>2
  <2> QED
    BY <1>5, <2>0, <2>6, <2>7, <2>8 DEF Fail
<1>6. CASE Connect
  <2>1. /\ out = <<>> /\ nextTag' = 1 /\ Ran(out) = {} /\ Len(out) = 0
        /\ UNCHANGED <<primary, out, retry, dlq, handler, published, done>>
    BY <1>6, EmptySeq DEF Connect, BInv, Closed, Ran
  <2>2. Links'
    BY <2>1 DEF Links
  <2>3. \A j \in published : Safe(j)'
    BY <2>1 DEF Safe
  <2> QED
    BY <2>1, <2>2, <2>3
<1>7. CASE Expire
  <2>1. PICK m : m = Head(retry)
    OBVIOUS
  <2>2. m \in Msg /\ Ran(retry) = {m} \cup Ran(Tail(retry))
    BY <1>0, <1>7, <2>1, RanTail DEF Expire
  <2>3. /\ UNCHANGED <<out, nextTag, dlq, handler, published, done>>
        /\ primary' = Append(primary, m) /\ retry' = Tail(retry)
    BY <1>7, <2>1 DEF Expire
  <2>4. Ran(primary') \cup Ran(retry') = Ran(primary) \cup Ran(retry)
    BY <1>0, <2>2, <2>3, RanAppend
  <2>5. Links'
    BY <2>3, LinksKept
  <2>6. \A j \in published : Safe(j)'
    BY <2>3, <2>4 DEF Safe
  <2> QED
    BY <2>3, <2>5, <2>6
<1>8. CASE Drop
  BY <1>8 DEF Drop, BInv, TypeOK
<1>9. CASE Crash
  <2>1. [h \in Handlers |-> Idle] \in [Handlers -> {Idle} \cup Busy]
    OBVIOUS
  <2>2. /\ out' = <<>> /\ Ran(primary') = {d.msg : d \in Ran(out)} \cup Ran(primary)
        /\ \A h \in Handlers : handler'[h] = Idle
        /\ UNCHANGED <<retry, dlq, published, done>>
    BY <1>9, <2>1, CloseEffect DEF Crash, BInv
  <2>3. Ran(out') = {} /\ Len(out') = 0 /\ \A h \in Handlers : handler'[h].pc = "idle"
    BY <2>2, EmptySeq DEF Ran, Idle
  <2>4. Links'
    BY <2>3 DEF Links
  <2>5. \A j \in published : Safe(j)'
    BY <2>2 DEF Safe
  <2> QED
    BY <2>2, <2>4, <2>5
<1>10. CASE UNCHANGED vars
  <2>1. UNCHANGED <<primary, out, nextTag, retry, dlq, handler, published, done>>
    BY <1>10 DEF vars, broker
  <2> QED
    BY <2>1 DEF Links, Safe
<1> QED
  BY <1>1, <1>2, <1>3, <1>4, <1>5, <1>6, <1>7, <1>8, <1>9, <1>10 DEF Next, Handle

(* Drops are never forgotten.                                              *)
LEMMA DropsCount == BInv /\ BInv' /\ [Next]_vars /\ drops' = 0 => drops = 0
<1>1. drops \in Nat => ([Next]_vars => drops' = drops \/ drops' = drops + 1)
  BY DEF Next, Publish, Deliver, Handle, Succeed, Fail, Confirm, Connect, Expire, Drop,
         Crash, vars
<1>2. BInv => drops \in Nat
  BY BoundAssumption DEF BInv, TypeOK
<1> QED
  BY <1>1, <1>2

(* The invariant for instances without a bound on anything.                *)
THEOREM Inductive == Spec => []IInv
<1>1. Init => (drops = 0 => Linked)
  BY EmptySeq DEF Init, Linked, Links, Ran, Idle
<1>2. BInv /\ BInv' /\ (drops = 0 => Linked) /\ [Next]_vars => (drops = 0 => Linked)'
  BY LinkedKept, DropsCount
<1> QED
  BY <1>1, <1>2, BaseInvariant, PTL DEF Spec, IInv

(* As long as no channel is lost, no published job is: processed, dead-    *)
(* lettered or still with the broker, whenever a worker dies between the   *)
(* publish of a copy and the acknowledgement of its original               *)
(* (workerRuntime.js:259-314), for any number of jobs, handlers, refused   *)
(* publishes and crashes.                                                  *)
THEOREM JobsAreKept == Spec => []KeptWhileConnected
<1>1. IInv => KeptWhileConnected
  BY DEF IInv, Linked, Safe, KeptWhileConnected, InSeq, Held, Ran
<1> QED
  BY <1>1, Inductive, PTL

=============================================================================
