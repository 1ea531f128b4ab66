-------------------------- MODULE MCCallLifecycle --------------------------
(* Instances of CallLifecycle: Alice calls Bob, and Bob may call Alice.    *)
EXTENDS CallLifecycle, TLC

CONSTANTS alice, bob, sa, sb, sb2, n1, n2, a1, a2, c1, c2, t1, t2

MCUsers == {alice, bob}
MCOwner == [s \in Sockets |-> IF s = sa THEN alice ELSE bob]
MCHome == [s \in Sockets |-> IF s = sa THEN n1 ELSE CHOOSE n \in Nodes : Nodes = {n1} \/ n # n1]
MCRank == [s \in Sockets |-> CASE s = sa -> 2 [] s = sb -> 1 [] OTHER -> 3]
MCCaller == [a \in Attempts |-> IF a = a1 THEN alice ELSE bob]
MCCallee == [a \in Attempts |-> IF a = a1 THEN bob ELSE alice]

(* Bounds of CallRaces: one call raced over by every handler and timer       *)
(* while the clients send three events or lose connections instead, or two  *)
(* calls that ring against each other at once, both by callUser alone,      *)
(* before their timeouts are due, with two such disturbances.               *)
Disturbances == events + Cardinality(Sockets \ live)
OneCall ==
  /\ adm[a2] = "none"
  /\ \A c, d \in Calls : rec[c].status # "none" /\ rec[d].status # "none" => c = d
  /\ Disturbances <= 3
Glare ==
  /\ \A c \in Calls : age[c] = Fresh
  /\ \A a \in Attempts : adm[a] # "init_pending"
  /\ Disturbances <= 2
RacesBound == OneCall \/ Glare

Interchangeable == Permutations(Tasks) \cup Permutations(Calls)
=============================================================================
