----------------------------- MODULE MCCluster -----------------------------
(* Model values and bounds for checking Cluster. *)
EXTENDS Cluster, TLC

CONSTANTS q1, a1, a2, o1, o2

MCServerKey == Address \X (1 .. MaxStarts)
Symmetry == Permutations(Address) \cup Permutations(Operator)
=============================================================================
