-------------------------- MODULE RateLimiterProofs --------------------------
(***************************************************************************)
(* What the limiter promises for every set of policies, every limit,       *)
(* window and capacity, and every length of time.  The states of Redis are *)
(* related to the history of what was granted: a sorted set holds exactly  *)
(* the recent events, whatever was pruned or expired (WindowFaithful), and *)
(* the level of a bucket is what the tightest interval of its history      *)
(* leaves (CreditBound, CreditTight).                                      *)
(***************************************************************************)
EXTENDS RateLimiter, FiniteSetTheorems, WellFoundedInduction, TLAPS

-----------------------------------------------------------------------------
(* Arithmetic.  Products of two variables are hard for the solver: they    *)
(* are introduced here, and are then only names of integers.               *)

LEMMA Product == ASSUME NEW a \in Int, NEW b \in Int PROVE a * b \in Int
OBVIOUS

LEMMA ProductNat == ASSUME NEW a \in Nat, NEW b \in Nat PROVE a * b \in Nat
OBVIOUS

LEMMA ProductMonotone ==
  ASSUME NEW a \in Int, NEW b \in Int, NEW c \in Nat, a <= b
  PROVE  a * c <= b * c
OBVIOUS

LEMMA Distributes ==
  ASSUME NEW a \in Int, NEW b \in Int, NEW c \in Int
  PROVE  (a + b) * c = a * c + b * c
OBVIOUS

(* The rounding of the script's TTL is never short. *)
LEMMA CeilCovers ==
  ASSUME NEW a \in Int, NEW b \in Nat \ {0}
  PROVE  CeilDiv(a, b) \in Int /\ CeilDiv(a, b) * b >= a
BY SMTT(30) DEF CeilDiv

LEMMA Sizes ==
  ASSUME NEW p \in Buckets
  PROVE  /\ p \in Policies /\ p \notin Sliding
         /\ Limit[p] \in Nat \ {0} /\ Window[p] \in Nat \ {0}
         /\ Full(p) \in Nat /\ Window[p] <= Full(p)
<1>1. p \in Policies /\ p \notin Sliding BY PolicyAssumption DEF Policies
<1>2. Limit[p] \in Nat \ {0} /\ Window[p] \in Nat \ {0} /\ Capacity[p] \in Nat \ {0}
  BY <1>1, PolicyAssumption
<1>3. Full(p) \in Nat BY <1>2, ProductNat DEF Full
<1>4. 1 * Window[p] <= Capacity[p] * Window[p] BY <1>2, ProductMonotone
<1> QED BY <1>1, <1>2, <1>3, <1>4 DEF Full

-----------------------------------------------------------------------------
(* The inductive invariant *)

(* The history counts every event once, and none from the future. *)
Counted ==
  \A p \in Policies :
    /\ IsFiniteSet(granted[p])
    /\ \A e \in granted[p] : e[1] <= now /\ e[2] < Cardinality(granted[p])

(* The events that still count are in the sorted set and its key outlives  *)
(* them.                                                                   *)
WindowFaithful ==
  \A p \in Sliding :
    /\ zset[p] \subseteq granted[p]
    /\ \A e \in granted[p] :
         e[1] > now - Window[p] => e \in zset[p] /\ e[1] + Window[p] <= expiry[p]

(* The hash of a bucket may expire only when it would be full again. *)
BucketFaithful ==
  \A p \in Buckets :
    /\ lastRefill[p] <= now
    /\ credit[p] <= Full(p)
    /\ credit[p] + (expiry[p] + 1 - lastRefill[p]) * Limit[p] >= Full(p)

(* No interval up to now has used more than the level leaves of it. *)
CreditBound ==
  \A p \in Buckets : \A from \in 0..now :
    Spent(granted[p], from, now) * Window[p] + Level(p) <= Full(p) + (now - from) * Limit[p]

(* Some interval has used exactly that, unless the bucket is full. *)
CreditTight ==
  \A p \in Buckets :
    \/ Level(p) = Full(p)
    \/ \E from \in 0..now :
         Spent(granted[p], from, now) * Window[p] + Level(p) = Full(p) + (now - from) * Limit[p]

(* A marker runs from the last charge of its attempt. *)
MarkerFaithful ==
  \A a \in Attempts :
    /\ \A e \in charged[a] : e[1] + CorrelationTTL <= marker[a].expires
    /\ marker[a].expires = -1 \/ \E e \in charged[a] : e[1] + CorrelationTTL = marker[a].expires

(* A phase that was let through is recorded, unless it was in the last     *)
(* instant of the marker.                                                  *)
PhaseRecorded ==
  \A a \in Attempts :
    "call_user_consumed" \in accepted[a] =>
      marker[a].phase = "call_user_consumed" \/ marker[a].expires <= now

QuotaPart ==
  Counted /\ WindowFaithful /\ BucketFaithful /\ CreditBound /\ CreditTight /\ QuotaKept

CallPart == MarkerFaithful /\ PhaseRecorded /\ OneChargePerCall /\ NoFreeCall

Inductive == TypeOK /\ QuotaPart /\ CallPart

-----------------------------------------------------------------------------
(* What the script reads *)

(* The count of the script is the number of events of the last window. *)
LEMMA RecentIsExact ==
  ASSUME TypeOK, WindowFaithful, NEW p \in Sliding
  PROVE  Recent(p) = {e \in granted[p] : e[1] > now - Window[p]}
<1>1. zset[p] \subseteq Event /\ granted[p] \subseteq Event /\ now \in Nat
      /\ expiry[p] \in Int /\ Window[p] \in Nat
  BY PolicyAssumption DEF TypeOK, Policies
<1>2. ASSUME NEW e \in granted[p], e[1] > now - Window[p]
      PROVE  e \in zset[p] /\ Present(p)
  <2>1. e[1] + Window[p] <= expiry[p] /\ e \in zset[p] BY <1>2 DEF WindowFaithful
  <2>2. e[1] \in Nat BY <1>1 DEF Event
  <2> QED BY <1>1, <1>2, <2>1, <2>2 DEF Present
<1>3. zset[p] \subseteq granted[p] BY DEF WindowFaithful
<1> QED BY <1>2, <1>3 DEF Recent

(* The level the arithmetic of the script gives, and what its TTL ensures. *)
Refilled(full, rate, stored, since, time) ==
  Smaller(full, stored + (time - since) * rate)

FullAfter(full, rate, stored, since, expires) ==
  stored + (expires + 1 - since) * rate >= full

(* An expired hash stands for the level it would have been refilled to. *)
LEMMA RefillAfterExpiry ==
  ASSUME NEW full \in Nat, NEW rate \in Nat, NEW stored \in Nat, NEW since \in Nat,
         NEW expires \in Int, NEW time \in Nat, since <= time,
         FullAfter(full, rate, stored, since, expires)
  PROVE  /\ time > expires => Refilled(full, rate, stored, since, time) = full
         /\ Refilled(full, rate, stored, since, time) \in 0..full
<1> DEFINE passed == time - since
           left == expires + 1 - since
<1>1. passed \in Nat /\ left \in Int OBVIOUS
<1>2. passed * rate \in Nat /\ left * rate \in Int BY <1>1, ProductNat, Product
<1>3. Refilled(full, rate, stored, since, time) \in 0..full
  BY <1>2 DEF Refilled, Smaller
<1>4. CASE time > expires
  <2>1. left <= passed BY <1>4
  <2>2. left * rate <= passed * rate BY <1>1, <2>1, ProductMonotone
  <2>3. stored + left * rate >= full BY DEF FullAfter
  <2> QED BY <1>2, <1>3, <2>2, <2>3 DEF Refilled, Smaller
<1> QED BY <1>3, <1>4

LEMMA LevelIsRefill ==
  ASSUME TypeOK, BucketFaithful, NEW p \in Buckets
  PROVE  /\ Level(p) = Refilled(Full(p), Limit[p], credit[p], lastRefill[p], now)
         /\ Level(p) \in 0..Full(p)
<1> DEFINE level == Refilled(Full(p), Limit[p], credit[p], lastRefill[p], now)
<1>1. /\ credit[p] \in Nat /\ now \in Nat /\ expiry[p] \in Int /\ lastRefill[p] \in Nat
      /\ Limit[p] \in Nat /\ Full(p) \in Nat
  BY Sizes DEF TypeOK
<1>2. /\ lastRefill[p] <= now
      /\ FullAfter(Full(p), Limit[p], credit[p], lastRefill[p], expiry[p])
  BY DEF BucketFaithful, FullAfter
<1>3. (now > expiry[p] => level = Full(p)) /\ level \in 0..Full(p)
  BY <1>1, <1>2, RefillAfterExpiry
<1>4. Level(p) = IF now <= expiry[p] THEN level ELSE Full(p)
  BY DEF Level, Present, Refilled
<1> QED BY <1>1, <1>3, <1>4

-----------------------------------------------------------------------------
(* Charging *)

LEMMA SpentIsNat ==
  ASSUME Counted, NEW p \in Policies, NEW from \in Int, NEW to \in Int
  PROVE  Spent(granted[p], from, to) \in Nat
<1> DEFINE S == {e \in granted[p] : from <= e[1] /\ e[1] <= to}
<1>1. IsFiniteSet(granted[p]) BY DEF Counted
<1>2. IsFiniteSet(S) BY <1>1, FS_Subset, S \subseteq granted[p]
<1> QED BY <1>2, FS_CardinalityType DEF Spent

(* A wider interval holds at least as many events. *)
LEMMA SpentMonotone ==
  ASSUME Counted, NEW p \in Policies, NEW S \in SUBSET granted[p],
         NEW T \in SUBSET granted[p], S \subseteq T
  PROVE  /\ Cardinality(S) \in Nat /\ Cardinality(T) \in Nat
         /\ Cardinality(S) <= Cardinality(T)
<1>1. IsFiniteSet(granted[p]) BY DEF Counted
<1>2. IsFiniteSet(S) /\ IsFiniteSet(T) BY <1>1, FS_Subset
<1>3. Cardinality(S) <= Cardinality(T) BY <1>2, FS_Subset
<1> QED BY <1>2, <1>3, FS_CardinalityType

(* A charge adds one event, now, to the policies it is for. *)
LEMMA SpentCharged ==
  ASSUME TypeOK, Counted, NEW ps, Charge(ps), NEW p \in Policies,
         NEW from \in Int, NEW to \in Int
  PROVE  Spent(granted'[p], from, to) =
           IF p \in ps /\ from <= now /\ now <= to
           THEN Spent(granted[p], from, to) + 1 ELSE Spent(granted[p], from, to)
<1> DEFINE S == {e \in granted[p] : from <= e[1] /\ e[1] <= to}
           new == NewEvent(p)
<1>1. granted'[p] = IF p \in ps THEN granted[p] \cup {new} ELSE granted[p]
  BY DEF Charge
<1>2. IsFiniteSet(S)
  <2>1. IsFiniteSet(granted[p]) BY DEF Counted
  <2> QED BY <2>1, FS_Subset, S \subseteq granted[p]
<1>3. new \notin granted[p]
  <2>1. \A e \in granted[p] : e[2] < Cardinality(granted[p]) BY DEF Counted
  <2>2. new[2] = Cardinality(granted[p]) BY DEF NewEvent
  <2>3. Cardinality(granted[p]) \in Nat BY FS_CardinalityType DEF Counted
  <2> QED BY <2>1, <2>2, <2>3
<1>4. new[1] = now BY DEF NewEvent
<1>5. CASE p \in ps /\ from <= now /\ now <= to
  <2>1. {e \in granted'[p] : from <= e[1] /\ e[1] <= to} = S \cup {new}
    BY <1>1, <1>4, <1>5
  <2>2. Cardinality(S \cup {new}) = Cardinality(S) + 1
    BY <1>2, <1>3, FS_AddElement
  <2> QED BY <1>5, <2>1, <2>2 DEF Spent
<1>6. CASE ~ (p \in ps /\ from <= now /\ now <= to)
  <2>1. {e \in granted'[p] : from <= e[1] /\ e[1] <= to} = S
    BY <1>1, <1>4, <1>6
  <2> QED BY <1>6, <2>1 DEF Spent
<1> QED BY <1>5, <1>6

LEMMA ChargeCounts ==
  ASSUME TypeOK, Counted, NEW ps, Charge(ps), now' = now
  PROVE  Counted' /\ granted' \in [Policies -> SUBSET Event]
<1> SUFFICES ASSUME NEW p \in Policies
             PROVE  /\ granted'[p] \in SUBSET Event
                    /\ IsFiniteSet(granted'[p])
                    /\ \A e \in granted'[p] :
                         e[1] <= now /\ e[2] < Cardinality(granted'[p])
  <2>1. granted' = [p \in Policies |->
           IF p \in ps THEN granted[p] \cup {NewEvent(p)} ELSE granted[p]]
    BY DEF Charge
  <2> QED BY <2>1 DEF Counted
<1> DEFINE new == NewEvent(p)
<1>1. granted'[p] = IF p \in ps THEN granted[p] \cup {new} ELSE granted[p]
  BY DEF Charge
<1>2. IsFiniteSet(granted[p]) /\ granted[p] \subseteq Event /\ now \in Nat
  BY DEF Counted, TypeOK
<1>3. Cardinality(granted[p]) \in Nat BY <1>2, FS_CardinalityType
<1>4. \A e \in granted[p] : e[1] <= now /\ e[2] < Cardinality(granted[p]) BY DEF Counted
<1>5. CASE p \notin ps BY <1>1, <1>2, <1>4, <1>5
<1>6. CASE p \in ps
  <2>1. new = <<now, Cardinality(granted[p])>> BY DEF NewEvent
  <2>2. new \notin granted[p] BY <1>3, <1>4, <2>1
  <2>3. /\ IsFiniteSet(granted[p] \cup {new})
        /\ Cardinality(granted[p] \cup {new}) = Cardinality(granted[p]) + 1
    BY <1>2, <2>2, FS_AddElement
  <2>4. new \in Event BY <1>2, <1>3, <2>1 DEF Event
  <2>5. \A e \in granted[p] : e[2] \in Nat BY <1>2 DEF Event
  <2>6. new[1] = now /\ new[2] = Cardinality(granted[p]) BY <2>1
  <2>7. \A e \in granted[p] \cup {new} : e[1] <= now /\ e[2] < Cardinality(granted[p]) + 1
    BY <1>2, <1>3, <1>4, <2>5, <2>6
  <2>8. granted[p] \cup {new} \in SUBSET Event BY <1>2, <2>4
  <2>9. granted'[p] = granted[p] \cup {new} BY <1>1, <1>6
  <2> QED BY <2>3, <2>7, <2>8, <2>9
<1> QED BY <1>5, <1>6

LEMMA ChargeWindows ==
  ASSUME TypeOK, Counted, WindowFaithful, NEW ps, Charge(ps), now' = now
  PROVE  WindowFaithful' /\ zset' \in [Sliding -> SUBSET Event]
<1> SUFFICES ASSUME NEW p \in Sliding
             PROVE  /\ zset'[p] \subseteq granted'[p]
                    /\ \A e \in granted'[p] : e[1] > now - Window[p] =>
                         e \in zset'[p] /\ e[1] + Window[p] <= expiry'[p]
                    /\ zset'[p] \subseteq Event
  <2>1. zset' = [p \in Sliding |->
           IF p \in ps THEN Recent(p) \cup {NewEvent(p)} ELSE zset[p]]
    BY DEF Charge
  <2> QED BY <2>1 DEF WindowFaithful
<1>1. p \in Policies BY DEF Policies
<1>2. /\ granted'[p] = IF p \in ps THEN granted[p] \cup {NewEvent(p)} ELSE granted[p]
      /\ zset'[p] = IF p \in ps THEN Recent(p) \cup {NewEvent(p)} ELSE zset[p]
      /\ expiry'[p] = IF p \in ps THEN now + TimeToLive(p) ELSE expiry[p]
  BY <1>1 DEF Charge
<1>3. Recent(p) = {e \in granted[p] : e[1] > now - Window[p]} BY RecentIsExact
<1>4. granted'[p] \subseteq Event BY <1>1, ChargeCounts
<1>5. CASE p \notin ps BY <1>1, <1>2, <1>5 DEF WindowFaithful, TypeOK
<1>6. CASE p \in ps
  <2>1. TimeToLive(p) = Window[p] /\ Window[p] \in Nat /\ now \in Nat
    BY <1>1, PolicyAssumption DEF TimeToLive, TypeOK
  <2>2. \A e \in granted'[p] : e[1] \in Nat /\ e[1] <= now
    <3>1. Counted' BY ChargeCounts
    <3> QED BY <1>1, <1>4, <3>1 DEF Counted, Event
  <2> QED BY <1>2, <1>3, <1>4, <1>6, <2>1, <2>2
<1> QED BY <1>5, <1>6

(* Only open policies are charged: the level of a bucket falls by a token. *)
LEMMA ChargeBuckets ==
  ASSUME TypeOK, BucketFaithful, NEW ps, Charge(ps), now' = now,
         \A p \in ps : Open(p), NEW p \in Buckets
  PROVE  /\ Level(p)' = IF p \in ps THEN Level(p) - Window[p] ELSE Level(p)
         /\ credit'[p] \in Nat /\ lastRefill'[p] \in Nat
         /\ lastRefill'[p] <= now
         /\ credit'[p] <= Full(p)
         /\ credit'[p] + (expiry'[p] + 1 - lastRefill'[p]) * Limit[p] >= Full(p)
<1>1. /\ credit'[p] = IF p \in ps THEN Level(p) - Window[p] ELSE credit[p]
      /\ lastRefill'[p] = IF p \in ps THEN now ELSE lastRefill[p]
      /\ expiry'[p] = IF p \in ps THEN now + TimeToLive(p) ELSE expiry[p]
  BY Sizes DEF Charge
<1>2. CASE p \notin ps
  BY <1>1, <1>2 DEF Level, Present, TypeOK, BucketFaithful
<1>3. CASE p \in ps
  <2> DEFINE rest == Level(p) - Window[p]
             ttl == TimeToLive(p)
  <2>1. /\ Level(p) \in Nat /\ Level(p) <= Full(p) /\ Level(p) >= Window[p]
        /\ Window[p] \in Nat /\ Full(p) \in Nat /\ Limit[p] \in Nat \ {0} /\ now \in Nat
    BY <1>3, LevelIsRefill, Sizes DEF Open, TypeOK
  <2>2. rest \in Nat /\ rest <= Full(p) BY <2>1
  <2>3. ttl = Larger(1, CeilDiv(Full(p) - rest, Limit[p])) BY Sizes DEF TimeToLive
  <2>4. /\ CeilDiv(Full(p) - rest, Limit[p]) \in Int
        /\ CeilDiv(Full(p) - rest, Limit[p]) * Limit[p] >= Full(p) - rest
    BY <2>1, <2>2, CeilCovers
  <2>5. ttl \in Int /\ ttl >= 1 /\ ttl >= CeilDiv(Full(p) - rest, Limit[p])
    BY <2>3, <2>4 DEF Larger
  <2>6. (ttl + 1) * Limit[p] >= Full(p) - rest
    <3>1. CeilDiv(Full(p) - rest, Limit[p]) * Limit[p] <= (ttl + 1) * Limit[p]
      BY <2>1, <2>4, <2>5, ProductMonotone
    <3>2. /\ CeilDiv(Full(p) - rest, Limit[p]) * Limit[p] \in Int
          /\ (ttl + 1) * Limit[p] \in Int
      BY <2>1, <2>4, <2>5, Product
    <3> QED BY <2>1, <2>2, <2>4, <3>1, <3>2
  <2>7. expiry'[p] + 1 - lastRefill'[p] = ttl + 1 BY <1>1, <1>3, <2>1, <2>5
  <2>8. (ttl + 1) * Limit[p] \in Int BY <2>1, <2>5, Product
  <2>9. Level(p)' = rest
    <3>1. Present(p)' BY <1>1, <1>3, <2>1, <2>5 DEF Present
    <3>2. (now' - lastRefill'[p]) * Limit[p] = 0 BY <1>1, <1>3, <2>1
    <3>3. credit'[p] = rest BY <1>1, <1>3
    <3> QED BY <2>1, <2>2, <3>1, <3>2, <3>3 DEF Level, Smaller, Full
  <2> QED BY <1>1, <1>3, <2>1, <2>2, <2>6, <2>7, <2>8, <2>9
<1> QED BY <1>2, <1>3

-----------------------------------------------------------------------------
(* The quota of every interval that ends now *)

(* An open window has room for one more event in each of its intervals. *)
LEMMA OpenWindowFits ==
  ASSUME TypeOK, Counted, WindowFaithful, NEW p \in Sliding
  PROVE  Open(p) <=> Fits(p, now)
<1>1. /\ p \in Policies /\ now \in Nat /\ granted[p] \subseteq Event
      /\ Limit[p] \in Nat /\ Window[p] \in Nat \ {0}
  BY PolicyAssumption DEF TypeOK, Policies
<1>2. Recent(p) = {e \in granted[p] : e[1] > now - Window[p]} BY RecentIsExact
<1>3. Recent(p) \subseteq granted[p] BY <1>2
<1>4. Open(p) <=> Cardinality(Recent(p)) < Limit[p] BY DEF Open
<1>5. Cardinality(Recent(p)) \in Nat BY <1>1, <1>3, SpentMonotone
<1>6. \A e \in granted[p] : e[1] \in Nat /\ e[1] <= now BY <1>1 DEF Counted, Event
<1>7. ASSUME Open(p), NEW from \in 0..now, now - from < Window[p]
      PROVE  Spent(granted[p], from, now) + 1 <= Limit[p]
  <2> DEFINE S == {e \in granted[p] : from <= e[1] /\ e[1] <= now}
  <2>1. S \subseteq Recent(p) BY <1>1, <1>2, <1>6, <1>7
  <2>2. S \subseteq granted[p] OBVIOUS
  <2>3. /\ Cardinality(S) \in Nat
        /\ Cardinality(S) <= Cardinality(Recent(p))
    BY <1>1, <1>3, <2>1, <2>2, SpentMonotone
  <2>4. Cardinality(S) + 1 <= Limit[p] BY <1>1, <1>4, <1>5, <1>7, <2>3
  <2> QED BY <2>4 DEF Spent
<1>8. ASSUME Fits(p, now) PROVE Open(p)
  <2> DEFINE from == IF now - Window[p] + 1 >= 0 THEN now - Window[p] + 1 ELSE 0
             S == {e \in granted[p] : from <= e[1] /\ e[1] <= now}
  <2>1. from \in 0..now /\ now - from < Window[p] BY <1>1
  <2>2. S = Recent(p) BY <1>1, <1>2, <1>6
  <2>3. Spent(granted[p], from, now) + 1 <= Limit[p]
    BY <1>8, <2>1 DEF Fits, WithinQuota
  <2>4. Spent(granted[p], from, now) = Cardinality(Recent(p)) BY <2>2 DEF Spent
  <2> QED BY <1>1, <1>4, <1>5, <2>3, <2>4
<1> QED BY <1>7, <1>8 DEF Fits, WithinQuota

(* An open bucket has room for one more event in each interval, and in the *)
(* tightest one when it is closed there is none.                           *)
LEMMA OpenBucketFits ==
  ASSUME TypeOK, Counted, BucketFaithful, CreditBound, CreditTight, NEW p \in Buckets
  PROVE  Open(p) <=> Fits(p, now)
<1>1. /\ p \in Policies /\ p \notin Sliding /\ now \in Nat
      /\ Limit[p] \in Nat /\ Window[p] \in Nat \ {0} /\ Full(p) \in Nat
      /\ Window[p] <= Full(p) /\ Level(p) \in Nat
  BY Sizes, LevelIsRefill DEF TypeOK
<1>2. Open(p) <=> Level(p) >= Window[p] BY <1>1 DEF Open
<1> DEFINE used(from) == Spent(granted[p], from, now) * Window[p]
           quota(from) == Full(p) + (now - from) * Limit[p]
<1>3. ASSUME NEW from \in 0..now
      PROVE  /\ Spent(granted[p], from, now) \in Nat
             /\ used(from) \in Nat /\ quota(from) \in Nat
             /\ (Spent(granted[p], from, now) + 1) * Window[p] = used(from) + Window[p]
  <2> from \in Int /\ now \in Int BY <1>1
  <2>1. Spent(granted[p], from, now) \in Nat BY <1>1, SpentIsNat
  <2>2. used(from) \in Nat BY <1>1, <2>1, ProductNat
  <2>3. (now - from) * Limit[p] \in Nat
    <3>1. now - from \in Nat BY <1>1
    <3> QED BY <1>1, <3>1, ProductNat
  <2>4. (Spent(granted[p], from, now) + 1) * Window[p] = used(from) + 1 * Window[p]
    BY <1>1, <2>1, Distributes
  <2> QED BY <1>1, <2>1, <2>2, <2>3, <2>4
<1>4. Fits(p, now) <=> \A from \in 0..now : used(from) + Window[p] <= quota(from)
  BY <1>1, <1>3 DEF Fits, WithinQuota
<1>5. \A from \in 0..now : used(from) + Level(p) <= quota(from)
  BY DEF CreditBound
<1>6. Level(p) = Full(p) \/ \E from \in 0..now : used(from) + Level(p) = quota(from)
  BY DEF CreditTight
<1> HIDE DEF used, quota
<1>7. ASSUME Open(p) PROVE Fits(p, now)
  BY <1>1, <1>2, <1>3, <1>4, <1>5, <1>7
<1>8. ASSUME ~ Open(p) PROVE ~ Fits(p, now)
  <2>1. Level(p) # Full(p) BY <1>1, <1>2, <1>8
  <2>2. PICK from \in 0..now : used(from) + Level(p) = quota(from) BY <1>6, <2>1
  <2> QED BY <1>1, <1>2, <1>3, <1>4, <1>8, <2>2
<1> QED BY <1>7, <1>8

(* What the policies are open for is what their history leaves. *)
LEMMA OpenFits ==
  ASSUME TypeOK, Counted, WindowFaithful, BucketFaithful, CreditBound, CreditTight
  PROVE  RefusalIsDue
BY OpenWindowFits, OpenBucketFits DEF RefusalIsDue, Policies

-----------------------------------------------------------------------------
(* A charge preserves the bounds *)

LEMMA ChargeCredit ==
  ASSUME TypeOK, Counted, BucketFaithful, CreditBound, CreditTight,
         NEW ps, Charge(ps), now' = now, \A p \in ps : Open(p)
  PROVE  CreditBound' /\ CreditTight'
<1> DEFINE used(p, from) == Spent(granted[p], from, now) * Window[p]
           usedAfter(p, from) == Spent(granted'[p], from, now) * Window[p]
           quota(p, from) == Full(p) + (now - from) * Limit[p]
<1>1. ASSUME NEW p \in Buckets
      PROVE  /\ Level(p) \in Nat /\ Window[p] \in Nat /\ Full(p) \in Nat
             /\ Level(p)' = IF p \in ps THEN Level(p) - Window[p] ELSE Level(p)
             /\ \A from \in 0..now :
                  /\ used(p, from) \in Nat /\ quota(p, from) \in Nat
                  /\ usedAfter(p, from) =
                       IF p \in ps THEN used(p, from) + Window[p] ELSE used(p, from)
             /\ used(p, now) + Level(p) <= Full(p)
             /\ quota(p, now) = Full(p)
  <2>1. /\ p \in Policies /\ now \in Nat /\ Window[p] \in Nat /\ Limit[p] \in Nat
        /\ Full(p) \in Nat /\ Level(p) \in Nat
    BY <1>1, Sizes, LevelIsRefill DEF TypeOK
  <2>2. Level(p)' = IF p \in ps THEN Level(p) - Window[p] ELSE Level(p)
    BY ChargeBuckets
  <2>3. ASSUME NEW from \in 0..now
        PROVE  /\ used(p, from) \in Nat /\ quota(p, from) \in Nat
               /\ usedAfter(p, from) =
                    IF p \in ps THEN used(p, from) + Window[p] ELSE used(p, from)
    <3> from \in Int /\ now \in Int BY <2>1
    <3>1. Spent(granted[p], from, now) \in Nat BY <2>1, SpentIsNat
    <3>2. Spent(granted'[p], from, now) =
            IF p \in ps THEN Spent(granted[p], from, now) + 1
            ELSE Spent(granted[p], from, now)
      BY <2>1, SpentCharged
    <3>3. (Spent(granted[p], from, now) + 1) * Window[p] = used(p, from) + 1 * Window[p]
      BY <2>1, <3>1, Distributes
    <3>4. used(p, from) \in Nat /\ (now - from) * Limit[p] \in Nat
      BY <2>1, <3>1, ProductNat
    <3> QED BY <2>1, <3>2, <3>3, <3>4
  <2>4. (now - now) * Limit[p] = 0 BY <2>1
  <2>5. used(p, now) + Level(p) <= Full(p) + (now - now) * Limit[p]
    BY <2>1 DEF CreditBound
  <2>6. quota(p, now) = Full(p) BY <2>1, <2>4
  <2> QED BY <2>1, <2>2, <2>3, <2>4, <2>5, <2>6
<1>2. \A p \in Buckets : \A from \in 0..now : used(p, from) + Level(p) <= quota(p, from)
  BY DEF CreditBound
<1>3. \A p \in Buckets :
        Level(p) = Full(p) \/ \E from \in 0..now : used(p, from) + Level(p) = quota(p, from)
  BY DEF CreditTight
<1>4. ASSUME \A p \in Buckets : \A from \in 0..now :
               usedAfter(p, from) + Level(p)' <= quota(p, from)
      PROVE  CreditBound'
  BY <1>4 DEF CreditBound, Full
<1>5. ASSUME \A p \in Buckets :
               \/ Level(p)' = Full(p)
               \/ \E from \in 0..now : usedAfter(p, from) + Level(p)' = quota(p, from)
      PROVE  CreditTight'
  BY <1>5 DEF CreditTight, Full
<1>6. now \in 0..now BY DEF TypeOK
<1> HIDE DEF used, usedAfter, quota
<1>7. \A p \in Buckets : \A from \in 0..now :
        usedAfter(p, from) + Level(p)' <= quota(p, from)
  BY <1>1, <1>2
<1>8. ASSUME NEW p \in Buckets
      PROVE  \/ Level(p)' = Full(p)
             \/ \E from \in 0..now : usedAfter(p, from) + Level(p)' = quota(p, from)
  <2>1. CASE p \notin ps BY <1>1, <1>3, <2>1
  <2>2. CASE p \in ps /\ Level(p) = Full(p)
    <3>1. usedAfter(p, now) + Level(p)' = quota(p, now) BY <1>1, <1>6, <2>2
    <3> QED BY <1>6, <3>1
  <2>3. CASE p \in ps /\ Level(p) # Full(p)
    <3>1. PICK from \in 0..now : used(p, from) + Level(p) = quota(p, from)
      BY <1>3, <2>3
    <3>2. usedAfter(p, from) + Level(p)' = quota(p, from) BY <1>1, <2>3, <3>1
    <3> QED BY <3>2
  <2> QED BY <2>1, <2>2, <2>3
<1> QED BY <1>4, <1>5, <1>7, <1>8

(* Intervals that end earlier are not touched; in those that end now the   *)
(* charged policies had room.                                              *)
LEMMA ChargeKeepsQuota ==
  ASSUME TypeOK, Counted, RefusalIsDue, QuotaKept,
         NEW ps, Charge(ps), now' = now, \A p \in ps : Open(p)
  PROVE  QuotaKept'
<1> SUFFICES ASSUME NEW p \in Policies, NEW to \in 0..now, NEW from \in 0..to
             PROVE  WithinQuota(p, from, to, Spent(granted'[p], from, to))
  BY DEF QuotaKept, WithinQuota, Full
<1>1. now \in Nat /\ from \in Int /\ to \in Int BY DEF TypeOK
<1>2. Spent(granted'[p], from, to) =
        IF p \in ps /\ from <= now /\ now <= to
        THEN Spent(granted[p], from, to) + 1 ELSE Spent(granted[p], from, to)
  BY <1>1, SpentCharged
<1>3. CASE p \in ps /\ to = now
  <2>1. Fits(p, now) BY <1>3 DEF RefusalIsDue
  <2> QED BY <1>1, <1>2, <1>3, <2>1 DEF Fits
<1>4. CASE ~ (p \in ps /\ to = now)
  <2>1. Spent(granted'[p], from, to) = Spent(granted[p], from, to)
    BY <1>1, <1>2, <1>4
  <2> QED BY <2>1 DEF QuotaKept
<1> QED BY <1>3, <1>4

-----------------------------------------------------------------------------
(* A tick preserves the bounds *)

(* The level grows by one refill, up to the capacity. *)
LEMMA LevelTicks ==
  ASSUME TypeOK, BucketFaithful, Tick, NEW p \in Buckets
  PROVE  /\ Level(p)' = Smaller(Full(p), Level(p) + Limit[p])
         /\ Level(p)' \in 0..Full(p)
<1> DEFINE after == Refilled(Full(p), Limit[p], credit[p], lastRefill[p], now + 1)
<1>1. /\ credit[p] \in Nat /\ now \in Nat /\ expiry[p] \in Int /\ lastRefill[p] \in Nat
      /\ Limit[p] \in Nat /\ Full(p) \in Nat /\ now + 1 \in Nat
  BY Sizes DEF TypeOK
<1>2. /\ lastRefill[p] <= now /\ lastRefill[p] <= now + 1
      /\ FullAfter(Full(p), Limit[p], credit[p], lastRefill[p], expiry[p])
  BY <1>1 DEF BucketFaithful, FullAfter
<1>3. now' = now + 1 /\ credit' = credit /\ lastRefill' = lastRefill /\ expiry' = expiry
  BY DEF Tick, keys
<1>4. (now + 1 > expiry[p] => after = Full(p)) /\ after \in 0..Full(p)
  BY <1>1, <1>2, RefillAfterExpiry
<1>5. Level(p)' = IF now + 1 <= expiry[p] THEN after ELSE Full(p)
  BY <1>3 DEF Level, Present, Full, Refilled
<1>6. Level(p)' = after BY <1>1, <1>4, <1>5
<1>7. (now + 1 - lastRefill[p]) * Limit[p] = (now - lastRefill[p]) * Limit[p] + Limit[p]
  <2>1. ((now - lastRefill[p]) + 1) * Limit[p] = (now - lastRefill[p]) * Limit[p] + 1 * Limit[p]
    BY <1>1, Distributes
  <2> QED BY <1>1, <2>1
<1>8. (now - lastRefill[p]) * Limit[p] \in Int BY <1>1, Product
<1>9. Level(p) = Smaller(Full(p), credit[p] + (now - lastRefill[p]) * Limit[p])
  BY LevelIsRefill DEF Refilled
<1>10. after = Smaller(Full(p), Level(p) + Limit[p])
  BY <1>1, <1>7, <1>8, <1>9 DEF Smaller, Refilled
<1> QED BY <1>4, <1>6, <1>10

(* Nothing has happened yet in the new instant. *)
LEMMA SpentTicks ==
  ASSUME TypeOK, Counted, NEW p \in Policies
  PROVE  /\ \A from \in 0..now : Spent(granted[p], from, now + 1) = Spent(granted[p], from, now)
         /\ Spent(granted[p], now + 1, now + 1) = 0
<1>1. now \in Nat /\ \A e \in granted[p] : e[1] \in Nat /\ e[1] <= now
  BY DEF TypeOK, Counted, Event
<1>2. ASSUME NEW from \in 0..now
      PROVE  Spent(granted[p], from, now + 1) = Spent(granted[p], from, now)
  <2>1. {e \in granted[p] : from <= e[1] /\ e[1] <= now + 1}
          = {e \in granted[p] : from <= e[1] /\ e[1] <= now}
    BY <1>1
  <2> QED BY <2>1 DEF Spent
<1>3. {e \in granted[p] : now + 1 <= e[1] /\ e[1] <= now + 1} = {} BY <1>1
<1> QED BY <1>2, <1>3, FS_EmptySet DEF Spent

LEMMA TickCredit ==
  ASSUME TypeOK, Counted, BucketFaithful, CreditBound, CreditTight, Tick
  PROVE  CreditBound' /\ CreditTight'
<1> DEFINE used(p, from) == Spent(granted[p], from, now) * Window[p]
           usedAfter(p, from) == Spent(granted[p], from, now + 1) * Window[p]
           quota(p, from) == Full(p) + (now - from) * Limit[p]
           quotaAfter(p, from) == Full(p) + (now + 1 - from) * Limit[p]
<1>1. now \in Nat /\ now' = now + 1 /\ granted' = granted BY DEF TypeOK, Tick
<1>2. ASSUME NEW p \in Buckets
      PROVE  /\ Level(p) \in Nat /\ Full(p) \in Nat /\ Limit[p] \in Nat \ {0}
             /\ Level(p) <= Full(p)
             /\ Level(p)' = Smaller(Full(p), Level(p) + Limit[p])
             /\ \A from \in 0..now :
                  /\ used(p, from) \in Nat /\ quota(p, from) \in Nat
                  /\ usedAfter(p, from) = used(p, from)
                  /\ quotaAfter(p, from) = quota(p, from) + Limit[p]
             /\ usedAfter(p, now + 1) = 0
             /\ quotaAfter(p, now + 1) = Full(p)
  <2>1. /\ p \in Policies /\ Window[p] \in Nat /\ Limit[p] \in Nat \ {0}
        /\ Full(p) \in Nat /\ Level(p) \in Nat /\ Level(p) <= Full(p)
    BY Sizes, LevelIsRefill
  <2>2. Level(p)' = Smaller(Full(p), Level(p) + Limit[p]) BY LevelTicks
  <2>3. ASSUME NEW from \in 0..now
        PROVE  /\ used(p, from) \in Nat /\ quota(p, from) \in Nat
               /\ usedAfter(p, from) = used(p, from)
               /\ quotaAfter(p, from) = quota(p, from) + Limit[p]
    <3>1. from \in Int /\ now \in Int /\ now - from \in Nat BY <1>1
    <3>2. Spent(granted[p], from, now) \in Nat BY <2>1, <3>1, SpentIsNat
    <3>3. used(p, from) \in Nat /\ (now - from) * Limit[p] \in Nat
      BY <2>1, <3>1, <3>2, ProductNat
    <3>4. usedAfter(p, from) = used(p, from) BY <2>1, SpentTicks
    <3>5. ((now - from) + 1) * Limit[p] = (now - from) * Limit[p] + 1 * Limit[p]
      BY <2>1, <3>1, Distributes
    <3>6. (now + 1 - from) * Limit[p] = (now - from) * Limit[p] + Limit[p]
      BY <2>1, <3>1, <3>5
    <3> QED BY <2>1, <3>3, <3>4, <3>6
  <2>4. usedAfter(p, now + 1) = 0
    <3>1. Spent(granted[p], now + 1, now + 1) = 0 BY <2>1, SpentTicks
    <3> QED BY <2>1, <3>1
  <2>5. quotaAfter(p, now + 1) = Full(p)
    <3>1. (now + 1 - (now + 1)) * Limit[p] = 0 BY <1>1, <2>1
    <3> QED BY <2>1, <3>1
  <2> QED BY <2>1, <2>2, <2>3, <2>4, <2>5
<1>3. \A p \in Buckets : \A from \in 0..now : used(p, from) + Level(p) <= quota(p, from)
  BY DEF CreditBound
<1>4. \A p \in Buckets :
        Level(p) = Full(p) \/ \E from \in 0..now : used(p, from) + Level(p) = quota(p, from)
  BY DEF CreditTight
<1>5. ASSUME \A p \in Buckets : \A from \in 0..now + 1 :
               usedAfter(p, from) + Level(p)' <= quotaAfter(p, from)
      PROVE  CreditBound'
  BY <1>1, <1>5 DEF CreditBound, Full
<1>6. ASSUME \A p \in Buckets :
               \/ Level(p)' = Full(p)
               \/ \E from \in 0..now + 1 :
                    usedAfter(p, from) + Level(p)' = quotaAfter(p, from)
      PROVE  CreditTight'
  BY <1>1, <1>6 DEF CreditTight, Full
<1>7. \A from \in 0..now + 1 : from \in 0..now \/ from = now + 1 BY <1>1
<1>8. 0..now \subseteq 0..now + 1 BY <1>1
<1> HIDE DEF used, usedAfter, quota, quotaAfter
<1>9. \A p \in Buckets : \A from \in 0..now + 1 :
        usedAfter(p, from) + Level(p)' <= quotaAfter(p, from)
  BY <1>2, <1>3, <1>7 DEF Smaller
<1>10. ASSUME NEW p \in Buckets
       PROVE  \/ Level(p)' = Full(p)
              \/ \E from \in 0..now + 1 :
                   usedAfter(p, from) + Level(p)' = quotaAfter(p, from)
  <2>1. CASE Level(p) + Limit[p] >= Full(p) BY <1>2, <2>1 DEF Smaller
  <2>2. CASE ~ (Level(p) + Limit[p] >= Full(p))
    <3>1. Level(p) # Full(p) /\ Level(p)' = Level(p) + Limit[p]
      BY <1>2, <2>2 DEF Smaller
    <3>2. PICK from \in 0..now : used(p, from) + Level(p) = quota(p, from)
      BY <1>4, <3>1
    <3>3. usedAfter(p, from) + Level(p)' = quotaAfter(p, from)
      BY <1>2, <3>1, <3>2
    <3> QED BY <1>8, <3>2, <3>3
  <2> QED BY <2>1, <2>2
<1> QED BY <1>5, <1>6, <1>9, <1>10

LEMMA TickKeepsQuota ==
  ASSUME TypeOK, Counted, BucketFaithful, QuotaKept, Tick, CreditBound'
  PROVE  QuotaKept'
<1>1. now \in Nat /\ now' = now + 1 /\ granted' = granted BY DEF TypeOK, Tick
<1> SUFFICES ASSUME NEW p \in Policies, NEW to \in 0..now + 1, NEW from \in 0..to
             PROVE  WithinQuota(p, from, to, Spent(granted[p], from, to))
  BY <1>1 DEF QuotaKept, WithinQuota, Full
<1>2. CASE to \in 0..now BY <1>2 DEF QuotaKept
<1>3. CASE to = now + 1 /\ p \in Sliding
  <2>1. Limit[p] \in Nat /\ Window[p] \in Nat BY PolicyAssumption
  <2>2. CASE from \in 0..now
    <3>1. Spent(granted[p], from, to) = Spent(granted[p], from, now)
      BY <1>3, <2>2, SpentTicks
    <3>2. now - from < Window[p] => Spent(granted[p], from, now) <= Limit[p]
      BY <1>1, <1>3, <2>2 DEF QuotaKept, WithinQuota
    <3>3. from \in Int /\ (to - from < Window[p] => now - from < Window[p])
      BY <1>1, <1>3, <2>1, <2>2
    <3> QED BY <1>3, <3>1, <3>2, <3>3 DEF WithinQuota
  <2>3. CASE from = now + 1
    <3>1. Spent(granted[p], from, to) = 0 BY <1>3, <2>3, SpentTicks
    <3> QED BY <1>3, <2>1, <3>1 DEF WithinQuota
  <2> QED BY <1>1, <1>3, <2>2, <2>3
<1>4. CASE to = now + 1 /\ p \in Buckets
  <2>1. /\ Level(p)' \in Nat /\ Window[p] \in Nat /\ Limit[p] \in Nat
        /\ Full(p) \in Nat /\ p \notin Sliding
    BY <1>4, Sizes, LevelTicks
  <2>2. Spent(granted[p], from, to) * Window[p] + Level(p)' <= Full(p) + (to - from) * Limit[p]
    BY <1>1, <1>4 DEF CreditBound, Full
  <2>3. Spent(granted[p], from, to) * Window[p] \in Int
    <3>1. Spent(granted[p], from, to) \in Nat BY <1>1, SpentIsNat
    <3> QED BY <2>1, <3>1, Product
  <2>4. (to - from) * Limit[p] \in Int BY <1>1, <2>1, Product
  <2> QED BY <2>1, <2>2, <2>3, <2>4 DEF WithinQuota
<1> QED BY <1>1, <1>2, <1>3, <1>4 DEF Policies

-----------------------------------------------------------------------------
(* The steps, on the part of the invariant that is about quotas *)

LEMMA ChargeTypes ==
  ASSUME TypeOK, BucketFaithful, NEW ps \in SUBSET Policies, Charge(ps), now' = now,
         \A p \in ps : Open(p)
  PROVE  /\ credit' \in [Buckets -> Nat] /\ lastRefill' \in [Buckets -> Nat]
         /\ expiry' \in [Policies -> Int]
<1>1. ASSUME NEW p \in Buckets
      PROVE  credit'[p] \in Nat /\ lastRefill'[p] \in Nat
  BY ChargeBuckets
<1>2. ASSUME NEW p \in Policies PROVE TimeToLive(p) \in Int
  <2>1. CASE p \in Sliding BY <2>1, PolicyAssumption DEF TimeToLive
  <2>2. CASE p \notin Sliding
    <3>1. p \in Buckets BY <2>2 DEF Policies
    <3>2. /\ Full(p) - (Level(p) - Window[p]) \in Int /\ Limit[p] \in Nat \ {0}
      BY <3>1, Sizes, LevelIsRefill
    <3>3. CeilDiv(Full(p) - (Level(p) - Window[p]), Limit[p]) \in Int
      BY <3>2, CeilCovers
    <3> QED BY <2>2, <3>3 DEF TimeToLive, Larger
  <2> QED BY <2>1, <2>2
<1>3. expiry' = [p \in Policies |-> IF p \in ps THEN now + TimeToLive(p) ELSE expiry[p]]
  BY DEF Charge
<1>4. expiry' \in [Policies -> Int] BY <1>2, <1>3 DEF TypeOK
<1>5. /\ credit' = [p \in Buckets |-> credit'[p]]
      /\ lastRefill' = [p \in Buckets |-> lastRefill'[p]]
  BY DEF Charge
<1>6. credit' \in [Buckets -> Nat] /\ lastRefill' \in [Buckets -> Nat]
  BY <1>1, <1>5
<1> QED BY <1>4, <1>6

LEMMA ChargePreserves ==
  ASSUME TypeOK, QuotaPart, NEW ps, Charge(ps), now' = now, \A p \in ps : Open(p)
  PROVE  QuotaPart'
<1> USE DEF QuotaPart
<1>1. Counted' BY ChargeCounts
<1>2. WindowFaithful' BY ChargeWindows
<1>3. BucketFaithful'
  <2>1. ASSUME NEW p \in Buckets
        PROVE  /\ lastRefill'[p] <= now /\ credit'[p] <= Full(p)
               /\ credit'[p] + (expiry'[p] + 1 - lastRefill'[p]) * Limit[p] >= Full(p)
    BY ChargeBuckets
  <2> QED BY <2>1 DEF BucketFaithful, Full
<1>4. CreditBound' /\ CreditTight' BY ChargeCredit
<1>5. QuotaKept'
  <2>1. RefusalIsDue BY OpenFits
  <2> QED BY <2>1, ChargeKeepsQuota
<1> QED BY <1>1, <1>2, <1>3, <1>4, <1>5

LEMMA TickPreserves ==
  ASSUME TypeOK, QuotaPart, Tick
  PROVE  QuotaPart'
<1> USE DEF QuotaPart
<1>1. /\ now \in Nat /\ now' = now + 1 /\ granted' = granted /\ zset' = zset
      /\ credit' = credit /\ lastRefill' = lastRefill /\ expiry' = expiry
  BY DEF Tick, keys, TypeOK
<1>2. Counted'
  <2>1. \A p \in Policies : \A e \in granted[p] : e[1] \in Nat /\ e[1] <= now
    BY DEF Counted, TypeOK, Event
  <2> QED BY <1>1, <2>1 DEF Counted
<1>3. WindowFaithful'
  <2>1. \A p \in Sliding : p \in Policies /\ Window[p] \in Nat
    BY PolicyAssumption DEF Policies
  <2>2. \A p \in Policies : \A e \in granted[p] : e[1] \in Nat
    BY DEF TypeOK, Event
  <2>3. \A p \in Sliding : \A e \in granted[p] :
          e[1] > now + 1 - Window[p] => e[1] > now - Window[p]
    BY <1>1, <2>1, <2>2
  <2>4. \A p \in Sliding :
          /\ zset[p] \subseteq granted[p]
          /\ \A e \in granted[p] : e[1] > now - Window[p] =>
               e \in zset[p] /\ e[1] + Window[p] <= expiry[p]
    BY DEF QuotaPart, WindowFaithful
  <2>5. ASSUME NEW p \in Sliding, NEW e \in granted[p], e[1] > now' - Window[p]
        PROVE  e \in zset[p] /\ e[1] + Window[p] <= expiry[p]
    <3>0. e[1] \in Nat /\ Window[p] \in Nat
      <4>1. p \in Policies BY <2>1
      <4> QED BY <2>1, <2>2, <4>1
    <3>1. e[1] > now + 1 - Window[p] BY <1>1, <2>5, <3>0
    <3>2. e[1] > now - Window[p]
      <4>1. p \in Policies BY <2>1
      <4> QED BY <2>3, <3>1, <4>1
    <3> QED BY <2>4, <3>2
  <2>6. \A p \in Sliding : zset[p] \subseteq granted[p] BY <2>4
  <2> QED BY <1>1, <2>5, <2>6 DEF WindowFaithful
<1>4. BucketFaithful'
  <2>1. \A p \in Buckets : lastRefill[p] \in Nat /\ lastRefill[p] <= now
    BY DEF TypeOK, BucketFaithful
  <2> QED BY <1>1, <2>1 DEF BucketFaithful, Full
<1>5. CreditBound' /\ CreditTight' BY TickCredit
<1>6. QuotaKept' BY <1>5, TickKeepsQuota
<1> QED BY <1>2, <1>3, <1>4, <1>5, <1>6

LEMMA QuotaUntouched ==
  ASSUME QuotaPart, UNCHANGED <<now, keys, granted>>
  PROVE  QuotaPart'
<1>1. /\ now' = now /\ granted' = granted /\ zset' = zset
      /\ credit' = credit /\ lastRefill' = lastRefill /\ expiry' = expiry
  BY DEF keys
<1>2. \A p \in Buckets : Level(p)' = Level(p) BY <1>1 DEF Level, Present, Full
<1>3. Counted' BY <1>1 DEF QuotaPart, Counted
<1>4. WindowFaithful' BY <1>1 DEF QuotaPart, WindowFaithful
<1>5. BucketFaithful' BY <1>1 DEF QuotaPart, BucketFaithful, Full
<1>6. CreditBound' BY <1>1, <1>2 DEF QuotaPart, CreditBound, Full
<1>7. CreditTight' BY <1>1, <1>2 DEF QuotaPart, CreditTight, Full
<1>8. QuotaKept' BY <1>1 DEF QuotaPart, QuotaKept, WithinQuota, Full
<1> QED BY <1>3, <1>4, <1>5, <1>6, <1>7, <1>8 DEF QuotaPart

-----------------------------------------------------------------------------
(* The steps of calls *)

LEMMA CallUntouched ==
  ASSUME TypeOK, CallPart, UNCHANGED <<marker, charged, accepted>>,
         now' \in Nat, now <= now',
         reply'.kind \notin {"correlated", "replay"}
  PROVE  CallPart'
<1>1. MarkerFaithful' BY DEF CallPart, MarkerFaithful
<1>2. PhaseRecorded'
  <2>1. \A a \in Attempts : marker[a].expires \in Int BY DEF TypeOK
  <2>2. now \in Nat BY DEF TypeOK
  <2> QED BY <2>1, <2>2 DEF CallPart, PhaseRecorded
<1>3. OneChargePerCall' BY DEF CallPart, OneChargePerCall
<1>4. NoFreeCall' BY DEF NoFreeCall
<1> QED BY <1>1, <1>2, <1>3, <1>4 DEF CallPart

(* A bound attempt has a charge that is not older than the TTL. *)
LEMMA BoundIsCharged ==
  ASSUME TypeOK, MarkerFaithful, NEW a \in Attempts, Bound(a)
  PROVE  \E e \in charged[a] : now <= e[1] + CorrelationTTL
<1>1. now \in Nat BY DEF TypeOK
<1>2. marker[a].expires # -1 BY <1>1 DEF Bound
<1>3. PICK e \in charged[a] : e[1] + CorrelationTTL = marker[a].expires
  BY <1>2 DEF MarkerFaithful
<1> QED BY <1>3 DEF Bound

LEMMA ReplayPreserves ==
  ASSUME TypeOK, CallPart, NEW a \in Attempts, NEW phase \in Phases, Replay(a, phase)
  PROVE  CallPart'
<1>1. /\ now' = now /\ marker' = marker /\ charged' = charged /\ accepted' = accepted
      /\ reply' = [kind |-> "replay", attempt |-> a] /\ Bound(a)
  BY DEF Replay
<1>2. MarkerFaithful' BY <1>1 DEF CallPart, MarkerFaithful
<1>3. PhaseRecorded' BY <1>1 DEF CallPart, PhaseRecorded
<1>4. OneChargePerCall' BY <1>1 DEF CallPart, OneChargePerCall
<1>5. NoFreeCall'
  <2>1. \E e \in charged[a] : now <= e[1] + CorrelationTTL
    BY <1>1, BoundIsCharged DEF CallPart
  <2> QED BY <1>1, <2>1 DEF NoFreeCall
<1> QED BY <1>2, <1>3, <1>4, <1>5 DEF CallPart

LEMMA CorrelatePreserves ==
  ASSUME TypeOK, CallPart, NEW a \in Attempts, NEW heard \in BOOLEAN, Correlate(a, heard)
  PROVE  CallPart' /\ marker' \in [Attempts -> [phase : Phases, expires : Int]]
         /\ accepted' \in [Attempts -> SUBSET Phases]
<1> DEFINE m == IF marker[a].expires > now THEN Consumed(marker[a].expires) ELSE marker[a]
<1>1. /\ now' = now /\ charged' = charged /\ Bound(a)
      /\ marker' = [marker EXCEPT ![a] = m]
      /\ accepted' = [accepted EXCEPT ![a] =
           IF heard THEN accepted[a] \cup {"call_user_consumed"} ELSE accepted[a]]
      /\ Answer(heard, [kind |-> "correlated", attempt |-> a])
  BY DEF Correlate, CorrelateTo
<1>2. /\ marker \in [Attempts -> [phase : Phases, expires : Int]] /\ now \in Nat
      /\ accepted \in [Attempts -> SUBSET Phases]
  BY DEF TypeOK
<1>3. /\ m \in [phase : Phases, expires : Int] /\ m.expires = marker[a].expires
      /\ m.phase = "call_user_consumed" \/ m.expires <= now
  BY <1>2 DEF Consumed, Phases
<1> HIDE DEF m
<1>4. \A b \in Attempts : marker'[b] = IF b = a THEN m ELSE marker[b]
  BY <1>1, <1>2
<1>5. marker' \in [Attempts -> [phase : Phases, expires : Int]]
  BY <1>1, <1>2, <1>3
<1>6. accepted' \in [Attempts -> SUBSET Phases] BY <1>1, <1>2 DEF Phases
<1>7. MarkerFaithful' BY <1>1, <1>3, <1>4 DEF CallPart, MarkerFaithful
<1>8. PhaseRecorded'
  <2>1. \A b \in Attempts : b # a => accepted'[b] = accepted[b] BY <1>1, <1>2
  <2> QED BY <1>1, <1>3, <1>4, <2>1 DEF CallPart, PhaseRecorded
<1>9. OneChargePerCall' BY <1>1 DEF CallPart, OneChargePerCall
<1>10. NoFreeCall'
  <2>1. \E e \in charged[a] : now <= e[1] + CorrelationTTL
    BY <1>1, BoundIsCharged DEF CallPart
  <2>2. reply' = [kind |-> "correlated", attempt |-> a]
        \/ reply' = [kind |-> "unavailable"]
    BY <1>1 DEF Answer
  <2> QED BY <1>1, <2>1, <2>2 DEF NoFreeCall
<1> QED BY <1>5, <1>6, <1>7, <1>8, <1>9, <1>10 DEF CallPart

(* A new charge comes after the marker of the last one has expired. *)
LEMMA ChargeCallPreserves ==
  ASSUME TypeOK, Counted, CallPart, NEW a \in Attempts, NEW phase \in Phases,
         NEW heard \in BOOLEAN, ChargeCall(a, phase, heard)
  PROVE  CallPart' /\ marker' \in [Attempts -> [phase : Phases, expires : Int]]
         /\ charged' \in [Attempts -> SUBSET Event]
         /\ accepted' \in [Attempts -> SUBSET Phases]
<1> DEFINE new == NewEvent(CallPolicy)
           m == [phase |-> phase, expires |-> now + CorrelationTTL]
<1>1. /\ now' = now /\ ~ Bound(a)
      /\ marker' = [marker EXCEPT ![a] = m]
      /\ charged' = [charged EXCEPT ![a] = charged[a] \cup {new}]
      /\ accepted' = [accepted EXCEPT ![a] = IF heard THEN {phase} ELSE {}]
      /\ Answer(heard, [kind |-> "charged"])
  BY DEF ChargeCall
<1>2. /\ marker \in [Attempts -> [phase : Phases, expires : Int]] /\ now \in Nat
      /\ accepted \in [Attempts -> SUBSET Phases]
      /\ charged \in [Attempts -> SUBSET Event]
      /\ CorrelationTTL \in Nat \ {0}
  BY TimeAssumption DEF TypeOK
<1>3. new \in Event /\ new[1] = now
  <2>1. CallPolicy \in Policies BY StageAssumption DEF Policies
  <2>2. Cardinality(granted[CallPolicy]) \in Nat BY <2>1, FS_CardinalityType DEF Counted
  <2> QED BY <1>2, <2>2 DEF NewEvent, Event
<1> HIDE DEF new
<1>4. m \in [phase : Phases, expires : Int] BY <1>2
<1>5. marker' \in [Attempts -> [phase : Phases, expires : Int]] BY <1>1, <1>2, <1>4
<1>6. charged' \in [Attempts -> SUBSET Event] BY <1>1, <1>2, <1>3
<1>7. accepted' \in [Attempts -> SUBSET Phases] BY <1>1, <1>2
<1>8. \A b \in Attempts :
        /\ marker'[b] = IF b = a THEN m ELSE marker[b]
        /\ charged'[b] = IF b = a THEN charged[a] \cup {new} ELSE charged[b]
        /\ accepted'[b] = IF b = a THEN IF heard THEN {phase} ELSE {} ELSE accepted[b]
  BY <1>1, <1>2
<1>9. \A e \in charged[a] : e[1] \in Nat /\ now > e[1] + CorrelationTTL
  <2>1. marker[a].expires \in Int /\ marker[a].expires < now BY <1>1, <1>2 DEF Bound
  <2>2. \A e \in charged[a] : e[1] \in Nat BY <1>2 DEF Event
  <2>3. \A e \in charged[a] : e[1] + CorrelationTTL <= marker[a].expires
    BY DEF CallPart, MarkerFaithful
  <2> QED BY <1>2, <2>1, <2>2, <2>3
<1>10. m.expires = new[1] + CorrelationTTL /\ m.phase = phase BY <1>3
<1> HIDE DEF m
<1>11. MarkerFaithful'
  <2> SUFFICES ASSUME NEW b \in Attempts
               PROVE  /\ \A e \in charged'[b] : e[1] + CorrelationTTL <= marker'[b].expires
                      /\ \/ marker'[b].expires = -1
                         \/ \E e \in charged'[b] : e[1] + CorrelationTTL = marker'[b].expires
    BY DEF MarkerFaithful
  <2>1. CASE b # a BY <1>8, <2>1 DEF CallPart, MarkerFaithful
  <2>2. CASE b = a
    <3>1. charged'[b] = charged[a] \cup {new} /\ marker'[b] = m BY <1>8, <2>2
    <3>2. \A e \in charged[a] : e[1] + CorrelationTTL <= m.expires
      BY <1>2, <1>3, <1>9, <1>10
    <3>3. new[1] + CorrelationTTL <= m.expires BY <1>2, <1>3, <1>10
    <3> QED BY <1>10, <3>1, <3>2, <3>3
  <2> QED BY <2>1, <2>2
<1>12. PhaseRecorded' BY <1>1, <1>8, <1>10 DEF CallPart, PhaseRecorded
<1>13. OneChargePerCall'
  <2> SUFFICES ASSUME NEW b \in Attempts, NEW e \in charged'[b], NEW f \in charged'[b],
                      e[1] <= f[1], e # f
               PROVE  f[1] > e[1] + CorrelationTTL
    BY DEF OneChargePerCall
  <2>1. CASE e \in charged[b] /\ f \in charged[b]
    BY <2>1 DEF CallPart, OneChargePerCall
  <2>2. CASE b = a /\ e \in charged[a] /\ f = new BY <1>3, <1>9, <2>2
  <2>3. CASE b = a /\ e = new /\ f \in charged[a] BY <1>2, <1>3, <1>9, <2>3
  <2> QED BY <1>8, <2>1, <2>2, <2>3
<1>14. NoFreeCall' BY <1>1 DEF NoFreeCall, Answer
<1> QED BY <1>5, <1>6, <1>7, <1>11, <1>12, <1>13, <1>14 DEF CallPart

-----------------------------------------------------------------------------
(* The invariant *)

LEMMA InitInductive == Init => Inductive
<1> SUFFICES ASSUME Init PROVE Inductive OBVIOUS
<1>1. /\ now = 0 /\ zset = [p \in Sliding |-> {}]
      /\ credit = [p \in Buckets |-> Full(p)] /\ lastRefill = [p \in Buckets |-> 0]
      /\ expiry = [p \in Policies |-> -1] /\ granted = [p \in Policies |-> {}]
      /\ marker = [a \in Attempts |-> [phase |-> "init_pending", expires |-> -1]]
      /\ charged = [a \in Attempts |-> {}] /\ accepted = [a \in Attempts |-> {}]
      /\ reply = [kind |-> "none"]
  BY DEF Init
<1>2. TypeOK
  <2>1. credit \in [Buckets -> Nat] BY <1>1, Sizes
  <2> QED BY <1>1, <2>1, TimeAssumption DEF TypeOK, Phases
<1>3. \A p \in Policies : granted[p] = {} BY <1>1
<1>4. \A p \in Policies : \A from, to : Spent(granted[p], from, to) = 0
  BY <1>3, FS_EmptySet DEF Spent
<1>5. ASSUME NEW p \in Buckets
      PROVE  /\ Level(p) = Full(p) /\ credit[p] = Full(p) /\ lastRefill[p] = 0
             /\ expiry[p] = -1 /\ p \in Policies
  BY <1>1, <1>5, Sizes DEF Level, Present
<1>6. Counted BY <1>1, <1>3, FS_EmptySet DEF Counted
<1>7. WindowFaithful BY <1>1, <1>3 DEF WindowFaithful, Policies
<1>8. BucketFaithful
  <2> SUFFICES ASSUME NEW p \in Buckets
               PROVE  /\ lastRefill[p] <= now /\ credit[p] <= Full(p)
                      /\ credit[p] + (expiry[p] + 1 - lastRefill[p]) * Limit[p] >= Full(p)
    BY DEF BucketFaithful
  <2>1. Limit[p] \in Nat /\ Full(p) \in Nat BY Sizes
  <2>2. (-1 + 1 - 0) * Limit[p] = 0 BY <2>1
  <2> QED BY <1>1, <1>5, <2>1, <2>2
<1>9. CreditBound
  <2> SUFFICES ASSUME NEW p \in Buckets
               PROVE  Spent(granted[p], 0, 0) * Window[p] + Level(p)
                        <= Full(p) + (0 - 0) * Limit[p]
    <3>1. 0..now = {0} /\ now = 0 BY <1>1
    <3> QED BY <3>1 DEF CreditBound
  <2>1. Limit[p] \in Nat /\ Full(p) \in Nat /\ Window[p] \in Nat BY Sizes
  <2> QED BY <1>4, <1>5, <2>1
<1>10. CreditTight BY <1>5 DEF CreditTight
<1>11. QuotaKept
  <2> SUFFICES ASSUME NEW p \in Policies PROVE WithinQuota(p, 0, 0, 0)
    BY <1>1, <1>4 DEF QuotaKept
  <2>1. CASE p \in Sliding BY <2>1, PolicyAssumption DEF WithinQuota, Policies
  <2>2. CASE p \in Buckets
    <3>1. Limit[p] \in Nat /\ Full(p) \in Nat /\ Window[p] \in Nat BY <2>2, Sizes
    <3> QED BY <2>2, <3>1, Sizes DEF WithinQuota
  <2> QED BY <2>1, <2>2 DEF Policies
<1>12. CallPart
  BY <1>1 DEF CallPart, MarkerFaithful, PhaseRecorded, OneChargePerCall, NoFreeCall
<1> QED BY <1>2, <1>6, <1>7, <1>8, <1>9, <1>10, <1>11, <1>12 DEF Inductive, QuotaPart

LEMMA StepInductive == Inductive /\ [Next]_vars => Inductive'
<1> SUFFICES ASSUME Inductive, [Next]_vars PROVE Inductive' OBVIOUS
<1> USE DEF Inductive
<1>1. now \in Nat BY DEF TypeOK
<1>2. ASSUME NEW stage, Refuse(stage) PROVE Inductive'
  <2>1. /\ UNCHANGED <<now, keys, granted>> /\ UNCHANGED <<marker, charged, accepted>>
        /\ reply'.kind = "rate_limited"
    BY <1>2 DEF Refuse
  <2>2. TypeOK' BY <2>1 DEF TypeOK, keys
  <2>3. QuotaPart' BY <2>1, QuotaUntouched
  <2>4. CallPart' BY <1>1, <2>1, CallUntouched
  <2> QED BY <2>2, <2>3, <2>4
<1>3. ASSUME NEW stage \in Stages, NEW heard \in BOOLEAN, Admit(stage, heard)
      PROVE  Inductive'
  <2> DEFINE ps == {stage[i] : i \in 1..Len(stage)}
  <2>1. /\ now' = now /\ Charge(ps) /\ UNCHANGED <<marker, charged, accepted>>
        /\ reply'.kind \in {"allowed", "unavailable"}
    BY <1>3 DEF Admit, Answer
  <2>2. ps \in SUBSET Policies /\ \A p \in ps : Open(p)
    <3>1. stage \in Seq(Policies) BY StageAssumption
    <3>2. \A i \in 1..Len(stage) : stage[i] \in Policies BY <3>1
    <3>3. \A i \in 1..Len(stage) : Open(stage[i]) BY <1>3 DEF Admit, Blocked
    <3> QED BY <3>2, <3>3
  <2> HIDE DEF ps
  <2>3. QuotaPart' BY <2>1, <2>2, ChargePreserves
  <2>4. CallPart' BY <1>1, <2>1, CallUntouched
  <2>5. TypeOK'
    <3>1. /\ credit' \in [Buckets -> Nat] /\ lastRefill' \in [Buckets -> Nat]
          /\ expiry' \in [Policies -> Int]
      BY <2>1, <2>2, ChargeTypes DEF QuotaPart
    <3>2. zset' \in [Sliding -> SUBSET Event] /\ granted' \in [Policies -> SUBSET Event]
      BY <2>1, ChargeCounts, ChargeWindows DEF QuotaPart
    <3> QED BY <2>1, <3>1, <3>2 DEF TypeOK
  <2> QED BY <2>3, <2>4, <2>5
<1>4. ASSUME NEW a \in Attempts, NEW heard \in BOOLEAN, Correlate(a, heard)
      PROVE  Inductive'
  <2>1. UNCHANGED <<now, keys, granted, charged>>
        /\ reply'.kind \in {"correlated", "unavailable"}
    BY <1>4 DEF Correlate, CorrelateTo, Answer
  <2>2. QuotaPart' BY <2>1, QuotaUntouched
  <2>3. CallPart' /\ marker' \in [Attempts -> [phase : Phases, expires : Int]]
        /\ accepted' \in [Attempts -> SUBSET Phases]
    BY <1>4, CorrelatePreserves
  <2>4. TypeOK' BY <2>1, <2>3 DEF TypeOK, keys
  <2> QED BY <2>2, <2>3, <2>4
<1>5. ASSUME NEW a \in Attempts, NEW phase \in Phases, Replay(a, phase)
      PROVE  Inductive'
  <2>1. UNCHANGED <<now, keys, marker, granted, charged, accepted>>
        /\ reply'.kind = "replay"
    BY <1>5 DEF Replay
  <2>2. QuotaPart' BY <2>1, QuotaUntouched
  <2>3. CallPart' BY <1>5, ReplayPreserves
  <2>4. TypeOK' BY <2>1 DEF TypeOK, keys
  <2> QED BY <2>2, <2>3, <2>4
<1>6. ASSUME NEW a \in Attempts, NEW phase \in Phases, NEW heard \in BOOLEAN,
             ChargeCall(a, phase, heard)
      PROVE  Inductive'
  <2> DEFINE ps == {CallPolicy}
  <2>1. now' = now /\ Charge(ps) /\ reply'.kind \in {"charged", "unavailable"}
    BY <1>6 DEF ChargeCall, Answer
  <2>2. ps \in SUBSET Policies /\ \A p \in ps : Open(p)
    <3>1. Blocked(<<CallPolicy>>) = {} BY <1>6 DEF ChargeCall
    <3>2. Open(<<CallPolicy>>[1]) BY <3>1 DEF Blocked
    <3> QED BY <3>2, StageAssumption DEF Policies
  <2> HIDE DEF ps
  <2>3. QuotaPart' BY <2>1, <2>2, ChargePreserves
  <2>4. CallPart' /\ marker' \in [Attempts -> [phase : Phases, expires : Int]]
        /\ charged' \in [Attempts -> SUBSET Event]
        /\ accepted' \in [Attempts -> SUBSET Phases]
    BY <1>6, ChargeCallPreserves DEF QuotaPart
  <2>5. TypeOK'
    <3>1. /\ credit' \in [Buckets -> Nat] /\ lastRefill' \in [Buckets -> Nat]
          /\ expiry' \in [Policies -> Int]
      BY <2>1, <2>2, ChargeTypes DEF QuotaPart
    <3>2. zset' \in [Sliding -> SUBSET Event] /\ granted' \in [Policies -> SUBSET Event]
      BY <2>1, ChargeCounts, ChargeWindows DEF QuotaPart
    <3> QED BY <2>1, <2>4, <3>1, <3>2 DEF TypeOK
  <2> QED BY <2>3, <2>4, <2>5
<1>7. CASE Tick
  <2>1. /\ now' = now + 1 /\ now < MaxTime /\ reply'.kind = "none"
        /\ UNCHANGED <<keys, marker, granted, charged, accepted>>
    BY <1>7 DEF Tick
  <2>2. QuotaPart' BY <1>7, TickPreserves
  <2>3. CallPart' BY <1>1, <2>1, CallUntouched
  <2>4. TypeOK' BY <1>1, <2>1, TimeAssumption DEF TypeOK, keys
  <2> QED BY <2>2, <2>3, <2>4
<1>8. CASE UNCHANGED vars
  <2>1. /\ UNCHANGED <<now, keys, granted>>
        /\ UNCHANGED <<marker, reply, charged, accepted>>
    BY <1>8 DEF vars
  <2>2. QuotaPart' BY <2>1, QuotaUntouched
  <2>3. TypeOK' BY <2>1 DEF TypeOK, keys
  <2>4. CallPart'
    BY <2>1 DEF CallPart, MarkerFaithful, PhaseRecorded, OneChargePerCall, NoFreeCall
  <2> QED BY <2>2, <2>3, <2>4
<1>9. \A a \in Attempts : RefuseCall(a) => Refuse(<<CallPolicy>>) BY DEF RefuseCall
<1> QED BY <1>2, <1>3, <1>4, <1>5, <1>6, <1>7, <1>8, <1>9 DEF Next

(* The invariant from which every result below follows. *)
THEOREM InductiveInvariant == Spec => []Inductive
<1>1. Init => Inductive BY InitInductive
<1>2. Inductive /\ [Next]_vars => Inductive' BY StepInductive
<1> QED BY <1>1, <1>2, PTL DEF Spec

(* Every variable keeps its type; in particular a bucket is never in debt. *)
THEOREM TypeCorrect == Spec => []TypeOK
<1>1. Inductive => TypeOK BY DEF Inductive
<1> QED BY <1>1, InductiveInvariant, PTL

(* No interval of any length ever admits more than a policy allows, though *)
(* the script prunes its windows and lets its keys expire.                 *)
THEOREM QuotaIsKept == Spec => []QuotaKept
<1>1. Inductive => QuotaKept BY DEF Inductive, QuotaPart
<1> QED BY <1>1, InductiveInvariant, PTL

(* The script turns a request away only if admitting it would break the    *)
(* quota: pruning, expiry, rounding and refusals cost no one anything.     *)
THEOREM RefusalsAreDue == Spec => []RefusalIsDue
<1>1. Inductive => RefusalIsDue BY OpenFits DEF Inductive, QuotaPart
<1> QED BY <1>1, InductiveInvariant, PTL

(* In any order of initCall and callUser events, replays and lost answers, *)
(* two charges of a logical call are more than the TTL apart.              *)
THEOREM CallsAreChargedOnce == Spec => []OneChargePerCall
<1>1. Inductive => OneChargePerCall BY DEF Inductive, CallPart
<1> QED BY <1>1, InductiveInvariant, PTL

(* An event passes or is dropped for free only within the TTL of a charge  *)
(* of its attempt.                                                         *)
THEOREM NoCallIsFree == Spec => []NoFreeCall
<1>1. Inductive => NoFreeCall BY DEF Inductive, CallPart
<1> QED BY <1>1, InductiveInvariant, PTL

(* A callUser is not let through twice on one charge, but for the marker's *)
(* last instant.                                                           *)
THEOREM PhasesPassOnce == Spec => PhaseOnce
<1> DEFINE Once == \A a \in Attempts :
             /\ reply' = [kind |-> "correlated", attempt |-> a]
             /\ now < marker[a].expires
             => "call_user_consumed" \notin accepted[a]
<1>1. Inductive /\ [Next]_vars => [Once]_vars
  <2> SUFFICES ASSUME Inductive, Next, NEW a \in Attempts,
                      reply' = [kind |-> "correlated", attempt |-> a],
                      now < marker[a].expires
               PROVE  "call_user_consumed" \notin accepted[a]
    OBVIOUS
  <2>1. reply'.kind = "correlated" /\ reply'.attempt = a OBVIOUS
  <2>2. ASSUME NEW b \in Attempts, NEW heard \in BOOLEAN, Correlate(b, heard)
        PROVE  marker[a].phase = "init_pending"
    <3>1. Answer(heard, [kind |-> "correlated", attempt |-> b])
          /\ marker[b].phase = "init_pending"
      BY <2>2 DEF Correlate, CorrelateTo
    <3>2. reply' = [kind |-> "correlated", attempt |-> b]
      BY <2>1, <3>1 DEF Answer
    <3> QED BY <2>1, <3>1, <3>2
  <2>3. \A stage : ~ Refuse(stage) BY <2>1 DEF Refuse
  <2>4. \A stage, heard : ~ Admit(stage, heard) BY <2>1 DEF Admit, Answer
  <2>5. \A b, phase : ~ Replay(b, phase) BY <2>1 DEF Replay
  <2>6. \A b, phase, heard : ~ ChargeCall(b, phase, heard)
    BY <2>1 DEF ChargeCall, Answer
  <2>7. ~ Tick BY <2>1 DEF Tick
  <2>8. marker[a].phase = "init_pending"
    BY <2>2, <2>3, <2>4, <2>5, <2>6, <2>7 DEF Next, RefuseCall
  <2>9. now \in Nat /\ marker[a].expires \in Int BY DEF Inductive, TypeOK
  <2> QED BY <2>8, <2>9 DEF Inductive, CallPart, PhaseRecorded
<1>2. PhaseOnce <=> [][Once]_vars BY DEF PhaseOnce
<1> QED BY <1>1, <1>2, InductiveInvariant, PTL DEF Spec

-----------------------------------------------------------------------------
(* The wait a refusal names *)

(* A set of instants has an earliest one.                                  *)
Below == {p \in Nat \X Nat : p[1] < p[2]}

LEMMA BelowIsWellFounded == IsWellFoundedOn(Below, Nat)
BY NatLessThanWellFounded DEF OpToRel, Below

LEMMA Earliest ==
  ASSUME NEW S \in SUBSET Nat, S # {}
  PROVE  \E m \in S : \A n \in S : m <= n
<1>1. \A m, n \in Nat : m < n => <<m, n>> \in Below BY DEF Below
<1>2. PICK m \in S : \A n \in S : <<n, m>> \notin Below
  BY BelowIsWellFounded, WFMin
<1>3. \A n \in S : n \in Nat /\ ~ (n < m) BY <1>1, <1>2
<1> QED BY <1>3

(* The multiple of the rate that first reaches a is not reached before.    *)
LEMMA CeilIsFirst ==
  ASSUME NEW a \in Nat \ {0}, NEW b \in Nat \ {0}
  PROVE  /\ CeilDiv(a, b) \in Nat \ {0}
         /\ \A w \in Nat : w < CeilDiv(a, b) => w * b < a
<1>1. CeilDiv(a, b) \in Int /\ CeilDiv(a, b) * b >= a BY CeilCovers
<1>2. CeilDiv(a, b) * b <= a + b - 1 BY SMTT(30) DEF CeilDiv
<1>3. CeilDiv(a, b) >= 1 BY SMTT(30) DEF CeilDiv
<1>4. ASSUME NEW w \in Nat, w < CeilDiv(a, b) PROVE w * b < a
  <2> DEFINE c == CeilDiv(a, b)
  <2>1. (w + 1) * b <= c * b BY <1>1, <1>4, ProductMonotone
  <2>2. (w + 1) * b = w * b + 1 * b BY Distributes
  <2>3. w * b \in Nat /\ c * b \in Int BY <1>1, ProductNat, Product
  <2> QED BY <1>2, <2>1, <2>2, <2>3
<1> QED BY <1>1, <1>3, <1>4

(* Nothing is granted after now, so later intervals hold what those up to  *)
(* now hold.                                                               *)
LEMMA SpentLater ==
  ASSUME TypeOK, Counted, NEW p \in Policies, NEW from \in Nat, NEW time \in Nat, now <= time
  PROVE  /\ Spent(granted[p], from, time) = Spent(granted[p], from, now)
         /\ from > now => Spent(granted[p], from, time) = 0
<1>1. /\ now \in Nat /\ \A e \in granted[p] : e[1] \in Nat /\ e[1] <= now
  BY DEF TypeOK, Counted, Event
<1>2. {e \in granted[p] : from <= e[1] /\ e[1] <= time}
        = {e \in granted[p] : from <= e[1] /\ e[1] <= now}
  BY <1>1
<1>3. from > now => {e \in granted[p] : from <= e[1] /\ e[1] <= time} = {}
  BY <1>1
<1> QED BY <1>2, <1>3, FS_EmptySet DEF Spent

(* A full window is open again once its oldest event has left it.          *)
LEMMA WindowRetry ==
  ASSUME TypeOK, Counted, WindowFaithful, QuotaKept, NEW p \in Sliding, ~ Open(p)
  PROVE  /\ RetryAfter(p) \in Nat \ {0}
         /\ Fits(p, now + RetryAfter(p))
         /\ \A wait \in 0..RetryAfter(p) - 1 : ~ Fits(p, now + wait)
<1>1. /\ p \in Policies /\ now \in Nat /\ granted[p] \subseteq Event
      /\ Limit[p] \in Nat \ {0} /\ Window[p] \in Nat \ {0} /\ IsFiniteSet(granted[p])
  BY PolicyAssumption DEF TypeOK, Policies, Counted
<1>2. Recent(p) = {e \in granted[p] : e[1] > now - Window[p]} BY RecentIsExact
<1>3. \A e \in granted[p] : e[1] \in Nat /\ e[1] <= now BY <1>1 DEF Counted, Event
<1>4. IsFiniteSet(Recent(p)) /\ Cardinality(Recent(p)) \in Nat /\ Cardinality(Recent(p)) >= Limit[p]
  <2>1. Recent(p) \subseteq granted[p] BY <1>2
  <2>2. IsFiniteSet(Recent(p)) BY <1>1, <2>1, FS_Subset
  <2>3. ~ (Cardinality(Recent(p)) < Limit[p]) BY DEF Open
  <2>4. Cardinality(Recent(p)) \in Nat BY <2>2, FS_CardinalityType
  <2> QED BY <1>1, <2>2, <2>3, <2>4
<1>5. PICK o : o = Oldest(p) OBVIOUS
<1>6. o \in Recent(p) /\ \A f \in Recent(p) : o[1] <= f[1]
  <2>1. Recent(p) # {} BY <1>1, <1>4, FS_EmptySet
  <2> DEFINE S == {e[1] : e \in Recent(p)}
  <2>2. S \in SUBSET Nat /\ S # {} BY <1>2, <1>3, <2>1
  <2>3. PICK m \in S : \A n \in S : m <= n BY <2>2, Earliest
  <2>4. \E e \in Recent(p) : \A f \in Recent(p) : e[1] <= f[1] BY <2>3
  <2> QED BY <1>5, <2>4 DEF Oldest
<1>7. o[1] \in Nat /\ o[1] <= now /\ o[1] > now - Window[p] BY <1>2, <1>3, <1>6
<1>8. RetryAfter(p) = o[1] + Window[p] - now /\ RetryAfter(p) \in Nat \ {0}
  BY <1>1, <1>5, <1>7 DEF RetryAfter, Larger
<1>9. PICK end : end = o[1] + Window[p] OBVIOUS
<1>10. end \in Nat /\ end > now /\ now + RetryAfter(p) = end BY <1>1, <1>7, <1>8, <1>9
<1>11. Cardinality(Recent(p)) <= Limit[p]
  <2> DEFINE from == IF now - Window[p] + 1 >= 0 THEN now - Window[p] + 1 ELSE 0
             S == {e \in granted[p] : from <= e[1] /\ e[1] <= now}
  <2>1. from \in 0..now /\ now - from < Window[p] /\ now \in 0..now BY <1>1
  <2>2. S = Recent(p) BY <1>1, <1>2, <1>3
  <2>3. Spent(granted[p], from, now) <= Limit[p]
    BY <1>1, <2>1 DEF QuotaKept, WithinQuota
  <2> QED BY <2>2, <2>3 DEF Spent
<1>12. ASSUME NEW from \in 0..end, end - from < Window[p]
       PROVE  Spent(granted[p], from, end) + 1 <= Limit[p]
  <2> DEFINE S == {e \in granted[p] : from <= e[1] /\ e[1] <= end}
  <2>1. from > o[1] BY <1>1, <1>7, <1>9, <1>12
  <2>2. S \subseteq Recent(p) \ {o} BY <1>1, <1>2, <1>3, <1>6, <1>7, <2>1
  <2>3. /\ IsFiniteSet(Recent(p) \ {o})
        /\ Cardinality(Recent(p) \ {o}) = Cardinality(Recent(p)) - 1
    BY <1>4, <1>6, FS_RemoveElement
  <2>4. IsFiniteSet(S) /\ Cardinality(S) <= Cardinality(Recent(p) \ {o})
    BY <2>2, <2>3, FS_Subset
  <2>5. Cardinality(S) \in Nat BY <2>4, FS_CardinalityType
  <2>6. Cardinality(S) + 1 <= Limit[p] BY <1>1, <1>4, <1>11, <2>3, <2>4, <2>5
  <2> QED BY <2>6 DEF Spent
<1>13. Fits(p, end) BY <1>12 DEF Fits, WithinQuota
<1>14. ASSUME NEW wait \in 0..RetryAfter(p) - 1
       PROVE  ~ Fits(p, now + wait)
  <2>1. PICK time : time = now + wait OBVIOUS
  <2>2. time \in Nat /\ now <= time /\ time < end BY <1>1, <1>8, <1>10, <2>1
  <2>3. o[1] \in 0..time /\ time - o[1] < Window[p] BY <1>1, <1>7, <1>9, <2>2
  <2>4. {e \in granted[p] : o[1] <= e[1] /\ e[1] <= time} = Recent(p)
    BY <1>1, <1>2, <1>3, <1>6, <1>7, <2>2
  <2>5. Spent(granted[p], o[1], time) >= Limit[p] BY <1>4, <2>4 DEF Spent
  <2>6. Spent(granted[p], o[1], time) \in Nat BY <1>4, <2>4 DEF Spent
  <2>7. ~ WithinQuota(p, o[1], time, Spent(granted[p], o[1], time) + 1)
    BY <1>1, <2>3, <2>5, <2>6 DEF WithinQuota
  <2> QED BY <2>1, <2>3, <2>7 DEF Fits
<1> QED BY <1>8, <1>10, <1>13, <1>14

(* An empty bucket is open again once the missing credit is refilled.      *)
LEMMA BucketRetry ==
  ASSUME TypeOK, Counted, BucketFaithful, CreditBound, CreditTight, NEW p \in Buckets, ~ Open(p)
  PROVE  /\ RetryAfter(p) \in Nat \ {0}
         /\ Fits(p, now + RetryAfter(p))
         /\ \A wait \in 0..RetryAfter(p) - 1 : ~ Fits(p, now + wait)
<1>1. /\ p \in Policies /\ p \notin Sliding /\ now \in Nat
      /\ Limit[p] \in Nat \ {0} /\ Window[p] \in Nat \ {0} /\ Full(p) \in Nat
      /\ Window[p] <= Full(p) /\ Level(p) \in Nat
  BY Sizes, LevelIsRefill DEF TypeOK
<1>2. Level(p) < Window[p] BY <1>1 DEF Open
<1>3. PICK missing : missing = Window[p] - Level(p) OBVIOUS
<1>4. missing \in Nat \ {0} BY <1>1, <1>2, <1>3
<1>5. PICK r : r = CeilDiv(missing, Limit[p]) OBVIOUS
<1>6. /\ r \in Nat \ {0} /\ r * Limit[p] >= missing
      /\ \A w \in Nat : w < r => w * Limit[p] < missing
  <2>1. PICK b : b = Limit[p] OBVIOUS
  <2>2. b \in Nat \ {0} /\ missing \in Int BY <1>1, <1>4, <2>1
  <2>3. CeilDiv(missing, b) * b >= missing BY <2>2, CeilCovers
  <2>4. /\ CeilDiv(missing, b) \in Nat \ {0}
        /\ \A w \in Nat : w < CeilDiv(missing, b) => w * b < missing
    BY <1>4, <2>2, CeilIsFirst
  <2> QED BY <1>5, <2>1, <2>3, <2>4
<1>7. RetryAfter(p) = r BY <1>1, <1>3, <1>5, <1>6 DEF RetryAfter, Larger
<1> DEFINE used(from) == Spent(granted[p], from, now) * Window[p]
           quota(from) == Full(p) + (now - from) * Limit[p]
<1>8. ASSUME NEW from \in 0..now, NEW wait \in Nat
      PROVE  /\ used(from) \in Nat /\ quota(from) \in Nat /\ wait * Limit[p] \in Nat
             /\ WithinQuota(p, from, now + wait, Spent(granted[p], from, now + wait) + 1)
                  <=> used(from) + Window[p] <= quota(from) + wait * Limit[p]
  <2> DEFINE n == Spent(granted[p], from, now)
  <2>1. n \in Nat
    <3>1. from \in Int /\ now \in Int BY <1>1
    <3> QED BY <1>1, <3>1, SpentIsNat
  <2>2. Spent(granted[p], from, now + wait) = n BY <1>1, SpentLater
  <2>3. used(from) \in Nat /\ wait * Limit[p] \in Nat BY <1>1, <2>1, ProductNat
  <2>4. (now - from) * Limit[p] \in Nat
    <3>1. now - from \in Nat BY <1>1
    <3> QED BY <1>1, <3>1, ProductNat
  <2>5. (n + 1) * Window[p] = n * Window[p] + 1 * Window[p] BY <1>1, <2>1, Distributes
  <2>6. ((now - from) + wait) * Limit[p] = (now - from) * Limit[p] + wait * Limit[p]
    BY <1>1, Distributes
  <2>7. (now + wait) - from = (now - from) + wait BY <1>1
  <2> HIDE DEF n
  <2>8. WithinQuota(p, from, now + wait, n + 1)
          <=> (n + 1) * Window[p] <= Full(p) + ((now - from) + wait) * Limit[p]
    BY <1>1, <2>7 DEF WithinQuota
  <2>9. used(from) = n * Window[p] BY DEF n
  <2> QED BY <1>1, <2>2, <2>3, <2>4, <2>5, <2>6, <2>8, <2>9
<1>9. \A from \in 0..now : used(from) + Level(p) <= quota(from)
  BY DEF CreditBound
<1>10. PICK tight \in 0..now : used(tight) + Level(p) = quota(tight)
  BY <1>1, <1>2 DEF CreditTight
<1> HIDE DEF used, quota
<1>11. ASSUME NEW from \in 0..now + r
       PROVE  WithinQuota(p, from, now + r, Spent(granted[p], from, now + r) + 1)
  <2>1. CASE from <= now
    <3>1. from \in 0..now /\ r \in Nat BY <1>1, <1>6, <1>11, <2>1
    <3>2. used(from) + Window[p] <= quota(from) + r * Limit[p]
      <4>1. used(from) \in Nat /\ quota(from) \in Nat /\ r * Limit[p] \in Nat
        BY <1>8, <3>1
      <4>2. used(from) + Level(p) <= quota(from) BY <1>9, <3>1
      <4>3. r * Limit[p] >= missing BY <1>6
      <4> QED BY <1>1, <1>3, <4>1, <4>2, <4>3
    <3> QED BY <1>8, <3>1, <3>2
  <2>2. CASE from > now
    <3>1. PICK time : time = now + r OBVIOUS
    <3>2. PICK passed : passed = time - from OBVIOUS
    <3>3. time \in Nat /\ now <= time /\ from \in Nat /\ passed \in Nat
      BY <1>1, <1>6, <1>11, <3>1, <3>2
    <3>4. Spent(granted[p], from, time) = 0 BY <1>1, <2>2, <3>3, SpentLater
    <3>5. passed * Limit[p] \in Nat BY <1>1, <3>3, ProductNat
    <3>6. \A n : WithinQuota(p, from, time, n)
                   <=> n * Window[p] <= Full(p) + passed * Limit[p]
      BY <1>1, <3>2 DEF WithinQuota
    <3>7. 1 * Window[p] <= Full(p) + passed * Limit[p] BY <1>1, <3>5
    <3>8. WithinQuota(p, from, time, 1) BY <3>6, <3>7
    <3> QED BY <3>1, <3>4, <3>8
  <2> QED BY <1>1, <1>6, <2>1, <2>2
<1>12. ASSUME NEW wait \in 0..r - 1
       PROVE  ~ Fits(p, now + wait)
  <2>1. wait \in Nat /\ wait < r BY <1>6, <1>12
  <2>2. wait * Limit[p] < missing BY <1>6, <2>1
  <2>3. ~ (used(tight) + Window[p] <= quota(tight) + wait * Limit[p])
    BY <1>1, <1>3, <1>4, <1>8, <1>10, <2>1, <2>2
  <2>4. ~ WithinQuota(p, tight, now + wait, Spent(granted[p], tight, now + wait) + 1)
    BY <1>8, <2>1, <2>3
  <2>5. tight \in 0..now + wait BY <1>1, <2>1
  <2> QED BY <2>4, <2>5 DEF Fits
<1> QED BY <1>6, <1>7, <1>11, <1>12 DEF Fits

(* The step that refuses names the exact wait, and no other step reports a *)
(* refusal.                                                                *)
LEMMA RetryStep == Inductive /\ RetryIsExact /\ [Next]_vars => RetryIsExact'
<1> SUFFICES ASSUME Inductive, RetryIsExact, [Next]_vars, reply'.kind = "rate_limited"
             PROVE  /\ Fits(reply.policy, now + reply.retryAfter)'
                    /\ (\A wait \in 0..reply.retryAfter - 1 : ~ Fits(reply.policy, now + wait))'
  BY DEF RetryIsExact
<1>1. ASSUME NEW stage \in Seq(Policies), Refuse(stage)
      PROVE  /\ Fits(reply.policy, now + reply.retryAfter)'
             /\ (\A wait \in 0..reply.retryAfter - 1 : ~ Fits(reply.policy, now + wait))'
  <2>1. PICK i \in 1..Len(stage) :
          /\ ~ Open(stage[i])
          /\ reply' = [kind |-> "rate_limited", stage |-> stage, policy |-> stage[i],
                       retryAfter |-> RetryAfter(stage[i])]
    BY <1>1 DEF Refuse, Blocked
  <2>2. PICK p : p = stage[i] OBVIOUS
  <2>3. p \in Policies BY <2>2
  <2>4. PICK r : r = RetryAfter(p) OBVIOUS
  <2>5. Fits(p, now + r) /\ \A wait \in 0..r - 1 : ~ Fits(p, now + wait)
    BY <2>1, <2>2, <2>3, <2>4, WindowRetry, BucketRetry DEF Inductive, QuotaPart, Policies
  <2>6. reply'.policy = p /\ reply'.retryAfter = r BY <2>1, <2>2, <2>4
  <2>7. now' = now /\ granted' = granted BY <1>1 DEF Refuse
  <2> QED BY <2>5, <2>6, <2>7 DEF Fits
<1>2. CASE UNCHANGED vars
  <2>1. now' = now /\ granted' = granted /\ reply' = reply BY <1>2 DEF vars
  <2> QED BY <2>1 DEF RetryIsExact, Fits
<1>3. \A stage, heard : ~ Admit(stage, heard) BY DEF Admit, Answer
<1>4. \A a, heard : ~ Correlate(a, heard) BY DEF Correlate, CorrelateTo, Answer
<1>5. \A a, phase : ~ Replay(a, phase) BY DEF Replay
<1>6. \A a, phase, heard : ~ ChargeCall(a, phase, heard) BY DEF ChargeCall, Answer
<1>7. ~ Tick BY DEF Tick
<1>8. <<CallPolicy>> \in Seq(Policies) BY StageAssumption DEF Policies
<1>9. \A stage \in Stages : stage \in Seq(Policies) BY StageAssumption
<1> QED BY <1>1, <1>2, <1>3, <1>4, <1>5, <1>6, <1>7, <1>8, <1>9 DEF Next, RefuseCall

(* The wait a refusal names is the least after which the policy that       *)
(* refused has room again, for windows and for buckets, in spite of the    *)
(* rounding and of what was pruned or expired.                             *)
THEOREM RetriesAreExact == Spec => []RetryIsExact
<1>1. Init => RetryIsExact BY DEF Init, RetryIsExact
<1> QED BY <1>1, RetryStep, InductiveInvariant, PTL DEF Spec
=============================================================================
