-------------------------------- MODULE Stack --------------------------------
(***************************************************************************)
(* What CallStats takes the call stack of a context for: a sequence of     *)
(* calls, each with the time it began.                                     *)
(***************************************************************************)
EXTENDS Sequences, Naturals

CONSTANTS Key, Time

VARIABLE calls

Init == calls = <<>>
Push(k, t) == calls' = Append(calls, [key |-> k, t0 |-> t])
Pop == calls # <<>> /\ calls' = SubSeq(calls, 1, Len(calls) - 1)
Next == Pop \/ \E k \in Key, t \in Time : Push(k, t)
Spec == Init /\ [][Next]_calls
=============================================================================
