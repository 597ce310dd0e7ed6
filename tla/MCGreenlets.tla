----------------------------- MODULE MCGreenlets -----------------------------
(***************************************************************************)
(* Instances of Greenlets for TLC.                                         *)
(***************************************************************************)
EXTENDS Greenlets, TLC

CONSTANTS t1, t2, a, b, c

\* Two greenlets take turns on one thread, a third one has a thread to itself.
MCThreadOf == (a :> t1) @@ (b :> t1) @@ (c :> t2)
=============================================================================
