--------------------------- MODULE CoroutineTimes ---------------------------
(***************************************************************************)
(* What profiling coroutines by wall time promises (the comment on         *)
(* "yielded" in _call_leave, doc/coroutine-profiling.md), without records, *)
(* time stamps and recursion levels.  A coroutine grows old from the first *)
(* time it is entered non-recursively, while it runs and while it is       *)
(* suspended.  When it finishes, and no other call of its function is in   *)
(* progress, the function is charged its age.  Only finishing is a call.   *)
(***************************************************************************)
EXTENDS Naturals, Sequences

CONSTANTS Fn, Frame

VARIABLES
    body,    \* the calls in progress, innermost last: a function and a frame
    ages,    \* of the coroutines that have one
    total,   \* per function
    ncall

vars == <<body, ages, total, ncall>>

Call == [pit: Fn, frame: Frame]
Innermost == body[Len(body)]
Others == SubSeq(body, 1, Len(body) - 1)
InProgress(p, calls) == \E i \in 1..Len(calls) : calls[i].pit = p

Aged(c) == c \in DOMAIN ages
Forgotten(c) == [d \in DOMAIN ages \ {c} |-> ages[d]]

Nothing ==
    /\ total = [p \in Fn |-> 0]
    /\ ncall = [p \in Fn |-> 0]

Init ==
    /\ body = <<>>
    /\ ages = [c \in {} |-> 0]
    /\ Nothing

Enter(c) ==
    /\ body' = Append(body, c)
    /\ ages' = IF Aged(c) \/ InProgress(c.pit, body) THEN ages
               ELSE [d \in DOMAIN ages \cup {c} |-> IF d = c THEN 0 ELSE ages[d]]
    /\ UNCHANGED <<total, ncall>>

Suspend ==
    /\ body # <<>>
    /\ body' = Others
    /\ UNCHANGED <<ages, total, ncall>>

Finish ==
    /\ body # <<>>
    /\ body' = Others
    /\ ages' = Forgotten(Innermost)
    /\ ncall' = [ncall EXCEPT ![Innermost.pit] = @ + 1]
    /\ total' = IF InProgress(Innermost.pit, Others) THEN total
                ELSE [total EXCEPT ![Innermost.pit] = @ + ages[Innermost]]

Pass ==
    /\ ages' = [c \in DOMAIN ages |-> ages[c] + 1]
    /\ UNCHANGED <<body, total, ncall>>

\* A coroutine finishes while nothing is profiled.
Vanish(c) ==
    /\ body = <<>>
    /\ ages' = Forgotten(c)
    /\ UNCHANGED <<body, total, ncall>>

Forget ==
    /\ body = <<>>
    /\ ages' = [c \in {} |-> 0]
    /\ Nothing'
    /\ UNCHANGED body

Next ==
    \/ \E c \in Call : Enter(c) \/ Vanish(c)
    \/ Suspend
    \/ Finish
    \/ Pass
    \/ Forget

Spec == Init /\ [][Next]_vars
=============================================================================
