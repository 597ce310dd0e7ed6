--------------------------- MODULE MCStatsReaders ---------------------------
(***************************************************************************)
(* Instances of StatsReaders for TLC.                                      *)
(***************************************************************************)
EXTENDS StatsReaders
=============================================================================
