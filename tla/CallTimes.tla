------------------------------ MODULE CallTimes ------------------------------
(***************************************************************************)
(* What the counters of one context mean (the comments on _pit and         *)
(* _pit_children_info, yappi/_yappi.c:41-91), stated without time stamps,  *)
(* recursion levels or negative self times: each unit of time is charged,  *)
(* as it passes, to                                                        *)
(*   - the self time (tsub) of the function that is running, and of its    *)
(*     pair with the function that called it,                              *)
(*   - the cumulative time (ttot) of every function, and of every pair,    *)
(*     that is being executed, once however deep the recursion.            *)
(* A call is counted (ncall) when it returns, and also as a non-recursive  *)
(* call (nactualcall) when no other call of the function is in progress.   *)
(***************************************************************************)
EXTENDS Naturals, Sequences

CONSTANT Fn

VARIABLES
    running,    \* functions in progress, innermost last
    self, total, ncall, nactual,    \* per function
    pairSelf, pairTotal             \* per <<caller, callee>>

vars == <<running, self, total, ncall, nactual, pairSelf, pairTotal>>

\* The functions, and the caller/callee pairs, being executed.
InProgress == {running[i] : i \in 1..Len(running)}
PairsInProgress == {<<running[i-1], running[i]>> : i \in 2..Len(running)}
Innermost == running[Len(running)]
InnermostPair == <<running[Len(running)-1], Innermost>>

One(cond) == IF cond THEN 1 ELSE 0

Init ==
    /\ running = <<>>
    /\ self = [f \in Fn |-> 0]
    /\ total = [f \in Fn |-> 0]
    /\ ncall = [f \in Fn |-> 0]
    /\ nactual = [f \in Fn |-> 0]
    /\ pairSelf = [c \in Fn \X Fn |-> 0]
    /\ pairTotal = [c \in Fn \X Fn |-> 0]

Call(f) ==
    /\ running' = Append(running, f)
    /\ UNCHANGED <<self, total, ncall, nactual, pairSelf, pairTotal>>

Return ==
    /\ running # <<>>
    /\ running' = SubSeq(running, 1, Len(running) - 1)
    /\ ncall' = [ncall EXCEPT ![Innermost] = @ + 1]
    /\ nactual' = [nactual EXCEPT ![Innermost] = @ +
                     One(\A i \in 1..(Len(running)-1) : running[i] # Innermost)]
    /\ UNCHANGED <<self, total, pairSelf, pairTotal>>

Elapse ==
    /\ self' = [f \in Fn |-> self[f] + One(running # <<>> /\ f = Innermost)]
    /\ total' = [f \in Fn |-> total[f] + One(f \in InProgress)]
    /\ pairSelf' = [c \in Fn \X Fn |->
                      pairSelf[c] + One(Len(running) > 1 /\ c = InnermostPair)]
    /\ pairTotal' = [c \in Fn \X Fn |->
                       pairTotal[c] + One(c \in PairsInProgress)]
    /\ UNCHANGED <<running, ncall, nactual>>

Next == (\E f \in Fn : Call(f)) \/ Return \/ Elapse

Spec == Init /\ [][Next]_vars
=============================================================================
