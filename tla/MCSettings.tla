------------------------------ MODULE MCSettings ------------------------------
(***************************************************************************)
(* Instances of Settings for TLC.                                          *)
(***************************************************************************)
EXTENDS Settings, TLC

CONSTANTS f, g, cpu, wall

\* @profile(clock_type="cpu") and @profile(clock_type="wall")
MCClockOf == (f :> cpu) @@ (g :> wall)
=============================================================================
