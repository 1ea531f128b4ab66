----------------------------- MODULE RateLimiter -----------------------------
(***************************************************************************)
(* The admission of one actor's requests and calls                         *)
(* (server/src/rateLimit/distributedRateLimiter.js).  Every admission is   *)
(* one EVAL of a Lua script on the Redis keys of the actor: it looks at    *)
(* all the buckets of the stage, charges all of them or none, and for a    *)
(* call keeps a short-lived marker that lets initCall and callUser of the  *)
(* same attempt share one charge.  Redis runs a script without             *)
(* interleaving and reads its own clock, so a script is one action and     *)
(* `now` is that clock.  A key is there until its expiry, included.        *)
(*                                                                         *)
(* The answer to an admission may be lost on its way: the server then      *)
(* reports the limiter as unavailable although the script has run.         *)
(***************************************************************************)
EXTENDS Integers, Sequences, FiniteSets

CONSTANTS
  Sliding,   \* the policies with algorithm "sliding_window"
  Buckets,   \* those with algorithm "token_bucket"
  Limit,     \* [policy -> limit: events per window, or tokens per window]
  Window,    \* [policy -> windowMs]
  Capacity,  \* [token bucket -> capacity]
  Stages,    \* the lists of policies a route is admitted by
  CallPolicy,      \* "call_initiation"
  Attempts,        \* (caller, callee, clientCallId) of logical calls
  CorrelationTTL,  \* CALL_CORRELATION_TTL_SECONDS
  MaxTime          \* bounds the clock

Policies == Sliding \cup Buckets

ASSUME PolicyAssumption ==
  /\ Sliding \cap Buckets = {}
  /\ Limit \in [Policies -> Nat \ {0}]
  /\ Window \in [Policies -> Nat \ {0}]
  /\ Capacity \in [Buckets -> Nat \ {0}]
ASSUME StageAssumption ==
  /\ \A stage \in Stages : stage \in Seq(Policies)
  /\ CallPolicy \in Sliding
ASSUME TimeAssumption == CorrelationTTL \in Nat \ {0} /\ MaxTime \in Nat

VARIABLES
  now,      \* Redis TIME
  zset,     \* the sorted set of a sliding window: events <<score, event id>>
  credit, lastRefill,  \* the hash of a token bucket
  expiry,   \* when the key of a policy expires; it is absent afterwards
  marker,   \* the correlation key of an attempt: its phase and expiry
  reply,    \* what the caller of the last admission was told
  granted,  \* history: the events charged to a policy since the beginning
  charged,  \* history: those charged to an attempt
  accepted  \* history: the phases of an attempt let through since its last charge

keys == <<zset, credit, lastRefill, expiry>>
vars == <<now, keys, marker, reply, granted, charged, accepted>>

Event == Nat \X Nat
Phases == {"init_pending", "call_user_consumed"}

TypeOK ==
  /\ now \in 0..MaxTime
  /\ zset \in [Sliding -> SUBSET Event]
  /\ credit \in [Buckets -> Nat] /\ lastRefill \in [Buckets -> Nat]
  /\ expiry \in [Policies -> Int]
  /\ marker \in [Attempts -> [phase : Phases, expires : Int]]
  /\ reply.kind \in {"none", "allowed", "charged", "correlated", "replay",
                     "rate_limited", "unavailable"}
  /\ granted \in [Policies -> SUBSET Event]
  /\ charged \in [Attempts -> SUBSET Event]
  /\ accepted \in [Attempts -> SUBSET Phases]

Smaller(a, b) == IF a <= b THEN a ELSE b
Larger(a, b) == IF a >= b THEN a ELSE b
CeilDiv(a, b) == (a + b - 1) \div b

(* capacity_credit; one token is worth Window[p] of credit, a tick Limit[p]. *)
Full(p) == Capacity[p] * Window[p]

Init ==
  /\ now = 0
  /\ zset = [p \in Sliding |-> {}]
  /\ credit = [p \in Buckets |-> Full(p)] /\ lastRefill = [p \in Buckets |-> 0]
  /\ expiry = [p \in Policies |-> -1]
  /\ marker = [a \in Attempts |-> [phase |-> "init_pending", expires |-> -1]]
  /\ reply = [kind |-> "none"]
  /\ granted = [p \in Policies |-> {}]
  /\ charged = [a \in Attempts |-> {}]
  /\ accepted = [a \in Attempts |-> {}]

-----------------------------------------------------------------------------
(* What the script reads of a policy *)

Present(p) == now <= expiry[p]

(* Mutant: the edge of the window is included. *)
RecentClosed(p) ==
  IF Present(p) THEN {e \in zset[p] : e[1] >= now - Window[p]} ELSE {}

(* The events ZCOUNT finds and ZREMRANGEBYSCORE leaves. *)
Recent(p) ==
  IF Present(p) THEN {e \in zset[p] : e[1] > now - Window[p]} ELSE {}

(* The refilled credit of a token bucket. *)
Level(p) ==
  IF Present(p)
  THEN Smaller(Full(p), credit[p] + (now - lastRefill[p]) * Limit[p])
  ELSE Full(p)

Open(p) ==
  IF p \in Sliding THEN Cardinality(Recent(p)) < Limit[p] ELSE Level(p) >= Window[p]

Oldest(p) == CHOOSE e \in Recent(p) : \A f \in Recent(p) : e[1] <= f[1]

(* Mutant: the wait for a token is rounded down. *)
RetryAfterFloor(p) ==
  IF p \in Sliding THEN Larger(1, Oldest(p)[1] + Window[p] - now)
  ELSE Larger(1, (Window[p] - Level(p)) \div Limit[p])

(* retry_after_ms of a policy that is not open. *)
RetryAfter(p) ==
  IF p \in Sliding THEN Larger(1, Oldest(p)[1] + Window[p] - now)
  ELSE Larger(1, CeilDiv(Window[p] - Level(p), Limit[p]))

Blocked(stage) == {i \in 1..Len(stage) : ~ Open(stage[i])}

Bound(a) == now <= marker[a].expires

-----------------------------------------------------------------------------
(* What the script writes *)

(* Mutant: the expiry of a window is set when its key is created, and not  *)
(* moved by later events.                                                  *)
TimeToLiveOnce(p) ==
  IF p \in Sliding THEN IF Present(p) THEN expiry[p] - now ELSE Window[p]
  ELSE Larger(1, CeilDiv(Full(p) - (Level(p) - Window[p]), Limit[p]))

TimeToLive(p) ==
  IF p \in Sliding THEN Window[p]
  ELSE Larger(1, CeilDiv(Full(p) - (Level(p) - Window[p]), Limit[p]))

(* The event: its score, and an id no event of the policy has yet. *)
NewEvent(p) == <<now, Cardinality(granted[p])>>

(* Charges one event to each of the policies of ps. *)
Charge(ps) ==
  /\ zset' = [p \in Sliding |->
       IF p \in ps THEN Recent(p) \cup {NewEvent(p)} ELSE zset[p]]
  /\ credit' = [p \in Buckets |->
       IF p \in ps THEN Level(p) - Window[p] ELSE credit[p]]
  /\ lastRefill' = [p \in Buckets |-> IF p \in ps THEN now ELSE lastRefill[p]]
  /\ expiry' = [p \in Policies |->
       IF p \in ps THEN now + TimeToLive(p) ELSE expiry[p]]
  /\ granted' = [p \in Policies |->
       IF p \in ps THEN granted[p] \cup {NewEvent(p)} ELSE granted[p]]

Answer(heard, answer) ==
  reply' = IF heard THEN answer ELSE [kind |-> "unavailable"]

(* The first blocked policy of the stage ends the loop and is reported. *)
Refuse(stage) ==
  /\ Blocked(stage) # {}
  /\ \E i \in Blocked(stage) :
       /\ \A j \in Blocked(stage) : i <= j
       /\ reply' = [kind |-> "rate_limited", stage |-> stage,
                    policy |-> stage[i], retryAfter |-> RetryAfter(stage[i])]
  /\ UNCHANGED <<now, keys, marker, granted, charged, accepted>>

-----------------------------------------------------------------------------
(* Admissions *)

(* admit: the middleware of a route, and stage B of a token refresh. *)
Admit(stage, heard) ==
  /\ Blocked(stage) = {}
  /\ Charge({stage[i] : i \in 1..Len(stage)})
  /\ Answer(heard, [kind |-> "allowed"])
  /\ UNCHANGED <<now, marker, charged, accepted>>

(* admitLogicalCall of initCall (init_pending) or callUser                 *)
(* (call_user_consumed), for an attempt without a marker.                  *)
ChargeCall(a, phase, heard) ==
  /\ ~ Bound(a)
  /\ Blocked(<<CallPolicy>>) = {}
  /\ Charge({CallPolicy})
  /\ marker' = [marker EXCEPT ![a] = [phase |-> phase, expires |-> now + CorrelationTTL]]
  /\ Answer(heard, [kind |-> "charged"])
  /\ charged' = [charged EXCEPT ![a] = @ \cup {NewEvent(CallPolicy)}]
  /\ accepted' = [accepted EXCEPT ![a] = IF heard THEN {phase} ELSE {}]
  /\ UNCHANGED now

RefuseCall(a) == ~ Bound(a) /\ Refuse(<<CallPolicy>>)

(* callUser after initCall: what becomes of the marker m. *)
CorrelateTo(a, heard, m) ==
  /\ Bound(a) /\ marker[a].phase = "init_pending"
  /\ marker' = [marker EXCEPT ![a] = m]
  /\ Answer(heard, [kind |-> "correlated", attempt |-> a])
  /\ accepted' = [accepted EXCEPT ![a] = IF heard THEN @ \cup {"call_user_consumed"} ELSE @]
  /\ UNCHANGED <<now, keys, granted, charged>>

Consumed(expires) == [phase |-> "call_user_consumed", expires |-> expires]

(* Mutant: the marker is deleted. *)
CorrelateDeletes(a, heard) == CorrelateTo(a, heard, Consumed(-1))

(* Mutant: the marker gets a new TTL. *)
CorrelateExtends(a, heard) == CorrelateTo(a, heard, Consumed(now + CorrelationTTL))

(* The marker keeps the time it has left.  In its last instant PTTL is 0   *)
(* and the phase stays.                                                    *)
Correlate(a, heard) ==
  CorrelateTo(a, heard,
    IF marker[a].expires > now THEN Consumed(marker[a].expires) ELSE marker[a])

(* Any other event of a bound attempt is dropped by its handler. *)
Replay(a, phase) ==
  /\ Bound(a)
  /\ ~ (phase = "call_user_consumed" /\ marker[a].phase = "init_pending")
  /\ reply' = [kind |-> "replay", attempt |-> a]
  /\ UNCHANGED <<now, keys, marker, granted, charged, accepted>>

Tick ==
  /\ now < MaxTime
  /\ now' = now + 1
  /\ reply' = [kind |-> "none"]
  /\ UNCHANGED <<keys, marker, granted, charged, accepted>>

Next ==
  \/ \E stage \in Stages : Refuse(stage) \/ \E heard \in BOOLEAN : Admit(stage, heard)
  \/ \E a \in Attempts :
       \/ RefuseCall(a)
       \/ \E heard \in BOOLEAN : Correlate(a, heard)
       \/ \E phase \in Phases :
            Replay(a, phase) \/ \E heard \in BOOLEAN : ChargeCall(a, phase, heard)
  \/ Tick

Spec == Init /\ [][Next]_vars

-----------------------------------------------------------------------------
(* The quota, told from the history alone *)

Spent(events, from, to) ==
  Cardinality({e \in events : from <= e[1] /\ e[1] <= to})

(* The events a policy allows from one instant to another: a window has at *)
(* most Limit, a bucket its capacity and what is refilled meanwhile.       *)
WithinQuota(p, from, to, events) ==
  IF p \in Sliding
  THEN to - from < Window[p] => events <= Limit[p]
  ELSE events * Window[p] <= Full(p) + (to - from) * Limit[p]

(* In no interval has a policy admitted more than its quota, whatever was  *)
(* pruned or expired in Redis (distributedRateLimiter.js:110-142).         *)
QuotaKept ==
  \A p \in Policies : \A to \in 0..now : \A from \in 0..to :
    WithinQuota(p, from, to, Spent(granted[p], from, to))

(* One more event at that time would stay within the quota. *)
Fits(p, time) ==
  \A from \in 0..time : WithinQuota(p, from, time, Spent(granted[p], from, time) + 1)

(* A policy turns an event away only when the quota is really used up, and *)
(* an event that another policy of its stage refused, or that was a replay,*)
(* has cost nothing (distributedRateLimiter.js:75-114).                    *)
RefusalIsDue ==
  \A p \in Policies : Open(p) <=> Fits(p, now)

(* The wait a refusal names is exact for the policy that refused: not yet  *)
(* a tick earlier, and open again then (distributedRateLimiter.js:86, 105).*)
RetryIsExact ==
  reply.kind = "rate_limited" =>
    /\ Fits(reply.policy, now + reply.retryAfter)
    /\ \A wait \in 0..reply.retryAfter - 1 : ~ Fits(reply.policy, now + wait)

(* Whatever the order and number of its initCall and callUser events, a    *)
(* logical call is charged once while its marker can live                  *)
(* (distributedRateLimiter.js:50-70, 145).                                 *)
OneChargePerCall ==
  \A a \in Attempts : \A e, f \in charged[a] :
    e[1] <= f[1] /\ e # f => f[1] > e[1] + CorrelationTTL

(* The marker of an attempt does not outlive its charge by more than the   *)
(* TTL, however often it is correlated: an old id is not a free call.      *)
NoFreeCall ==
  reply.kind \in {"correlated", "replay"} =>
    \E e \in charged[reply.attempt] : now <= e[1] + CorrelationTTL

(* Each phase of an attempt is let through at most once per charge, save   *)
(* for the last instant of the marker (distributedRateLimiter.js:55-59).   *)
PhaseOnce ==
  [][\A a \in Attempts :
       /\ reply' = [kind |-> "correlated", attempt |-> a]
       /\ now < marker[a].expires
       => "call_user_consumed" \notin accepted[a]]_vars
=============================================================================
