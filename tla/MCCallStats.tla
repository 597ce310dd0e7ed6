----------------------------- MODULE MCCallStats -----------------------------
(***************************************************************************)
(* Instances of CallStats for TLC.                                         *)
(***************************************************************************)
EXTENDS CallStats, TLC

\* The handlers treat every pit alike.
PitSymmetry == Permutations(Pit)
=============================================================================
