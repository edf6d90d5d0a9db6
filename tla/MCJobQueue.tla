----------------------------- MODULE MCJobQueue -----------------------------
(* Model values and bounds for checking JobQueue. *)
EXTENDS JobQueue, TLC

CONSTANTS q1, q2, s1, s2

MCQueueName == {q1, q2}
MCServerKey == {s1, s2}
Symmetry == Permutations(MCServerKey) \cup Permutations(MCQueueName)
=============================================================================
