----------------------------- MODULE MCAdminApi -----------------------------
(* Model values and bounds for checking AdminApi. *)
EXTENDS AdminApi, TLC

CONSTANTS q1, q2, s1

MCQueueName == {q1, q2}
MCServerKey == {s1}
Symmetry == Permutations(MCQueueName)
=============================================================================
