----------------------------- MODULE MCStatistics -----------------------------
(***************************************************************************)
(* Instances of Statistics for TLC.                                        *)
(***************************************************************************)
EXTENDS Statistics

CONSTANTS f, g, p, cpu, wall

Pit(i, fn, n, kids) == [index |-> i, fn |-> fn, ncall |-> n, kids |-> kids]
Callee(i, n) == [index |-> i, ncall |-> n]

\* f calls g in one context; in another one g calls itself.
TwoContexts == [clock |-> cpu, pits |->
    <<Pit(1, f, 1, <<Callee(2, 1)>>), Pit(2, g, 1, <<>>),
      Pit(3, g, 2, <<Callee(3, 1)>>)>>]

\* g calls f in the only context.
OneContext == [clock |-> cpu, pits |->
    <<Pit(2, f, 1, <<>>), Pit(1, g, 1, <<Callee(2, 1)>>)>>]

\* Everything, and one record: f of TwoContexts, g of OneContext.
Filters == {1..3, {1}}

WallSession == [clock |-> wall, pits |-> <<Pit(1, f, 1, <<>>)>>]

Sessions == {TwoContexts, OneContext, WallSession}
=============================================================================
