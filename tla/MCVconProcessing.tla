-------------------------- MODULE MCVconProcessing --------------------------
(* Model values, bounds and symmetry for VconProcessing. *)
EXTENDS VconProcessing, TLC

CONSTANTS u1, u2, r1, r2

OneProcessor == <<"whisper_base">>
TwoProcessors == <<"whisper_base", "whisper_tiny">>

\* One request has room for a second vCon.
MCMaxVcons == [r \in Request |-> IF r = r1 THEN 2 ELSE 1]

Symmetry == Permutations({u1, u2})
=============================================================================
