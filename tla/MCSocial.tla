------------------------------ MODULE MCSocial ------------------------------
(* Instances of Social: two users, one of whom has two tabs on two         *)
(* replicas.                                                               *)
EXTENDS Social, TLC

CONSTANTS ann, ben, cat, s1, s2, s3, n1, n2, t1, t2, t3

MCOwner == [s \in Sockets |-> ann]
MCHome == [s \in Sockets |-> IF s = s1 THEN n1 ELSE CHOOSE n \in Nodes : Nodes = {n1} \/ n # n1]
MCPlace == [t \in Tasks |-> IF t = t1 THEN n1 ELSE CHOOSE n \in Nodes : Nodes = {n1} \/ n # n1]
=============================================================================
