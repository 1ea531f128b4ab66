---------------------------- MODULE MCJobQueue ----------------------------
(* Instances of JobQueue. *)
EXTENDS JobQueue, TLC

CONSTANTS j1, j2, h1, h2, h3

Interchangeable == Permutations(Handlers)
=============================================================================
