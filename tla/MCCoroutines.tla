---------------------------- MODULE MCCoroutines ----------------------------
(***************************************************************************)
(* Instances of Coroutines for TLC.                                        *)
(***************************************************************************)
EXTENDS Coroutines, TLC

\* The handlers treat all functions alike, and all frames.
CoSymmetry == Permutations(Pit \ Builtin) \cup Permutations(Frame)
=============================================================================
