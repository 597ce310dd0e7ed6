---------------------------- MODULE GreenletTimes ----------------------------
(***************************************************************************)
(* What profiling greenlets by CPU time promises, without time stamps and  *)
(* pauses.  Each thread runs the greenlet that it was last seen in; as the *)
(* thread's clock advances, so does the age of that greenlet and of every  *)
(* call it is in, and nobody else's.  A call that returns is charged its   *)
(* age.                                                                    *)
(***************************************************************************)
EXTENDS Naturals, Sequences

CONSTANTS Thread, Greenlet, NoGreenlet

VARIABLES
    seen,     \* the greenlet each thread was last seen in
    ages,     \* of each greenlet, followed by the calls it is in; <<>>: unknown
    elapsed   \* what the last call that returned was charged

vars == <<seen, ages, elapsed>>

Init ==
    /\ seen = [t \in Thread |-> NoGreenlet]
    /\ ages = [g \in Greenlet |-> <<>>]
    /\ elapsed = 0

\* A greenlet is as old as the time for which it has been seen.
Begun(g) == IF ages[g] = <<>> THEN <<0>> ELSE ages[g]

Pass(t) ==
    /\ seen[t] # NoGreenlet
    /\ ages' = [ages EXCEPT ![seen[t]] = [i \in 1..Len(@) |-> @[i] + 1]]
    /\ UNCHANGED <<seen, elapsed>>

See(t, g) ==
    /\ seen' = [seen EXCEPT ![t] = g]
    /\ ages' = [ages EXCEPT ![g] = Begun(g)]
    /\ UNCHANGED elapsed

Enter(t, g) ==
    /\ seen' = [seen EXCEPT ![t] = g]
    /\ ages' = [ages EXCEPT ![g] = Append(Begun(g), 0)]
    /\ UNCHANGED elapsed

Leave(t, g) ==
    /\ Len(ages[g]) > 1
    /\ seen' = [seen EXCEPT ![t] = g]
    /\ elapsed' = ages[g][Len(ages[g])]
    /\ ages' = [ages EXCEPT ![g] = SubSeq(@, 1, Len(@) - 1)]

\* Everything is forgotten; profiling may go on, in the greenlet that asked.
Forget ==
    /\ seen' = [t \in Thread |-> NoGreenlet]
    /\ ages' = [g \in Greenlet |-> <<>>]
    /\ UNCHANGED elapsed

ForgetAndSee(t, g) ==
    /\ seen' = [u \in Thread |-> IF u = t THEN g ELSE NoGreenlet]
    /\ ages' = [h \in Greenlet |-> IF h = g THEN <<0>> ELSE <<>>]
    /\ UNCHANGED elapsed

Next ==
    \/ \E t \in Thread : Pass(t)
    \/ \E t \in Thread, g \in Greenlet :
         See(t, g) \/ Enter(t, g) \/ Leave(t, g) \/ ForgetAndSee(t, g)
    \/ Forget

Spec == Init /\ [][Next]_vars
=============================================================================
