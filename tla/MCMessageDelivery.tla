------------------------- MODULE MCMessageDelivery -------------------------
(* Instances of MessageDelivery. *)
EXTENDS MessageDelivery, TLC

CONSTANTS k1, k2, t1, t2

Interchangeable == Permutations(Keys) \cup Permutations(Tasks)
=============================================================================
