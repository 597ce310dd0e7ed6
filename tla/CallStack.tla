------------------------------ MODULE CallStack ------------------------------
(***************************************************************************)
(* The call stack of a context as an array that doubles when it is full    *)
(* (yappi/callstack.c), used as _call_enter and _call_leave use it:        *)
(* _call_leave pops the caller to look at it and pushes it back, and spush *)
(* writes the key of a slot but not its time.                              *)
(***************************************************************************)
EXTENDS Integers, FiniteSets

CONSTANTS
    CKey, Time,
    StackSize,  \* screate(size)
    MaxDepth    \* bound: calls in progress

ASSUME StackAssumption == StackSize \in Nat \ {0} /\ MaxDepth \in Nat

VARIABLES items, head, size   \* _items, from 0; index of the top; allocated

stackVars == <<items, head, size>>

Blank == [key |-> "0", t0 |-> 0]

\* screate
StackInit ==
    /\ items = [i \in 0..(StackSize - 1) |-> Blank]
    /\ head = -1
    /\ size = StackSize

\* Mutant of Room: the stack grows when the slot above the last one is used.
RoomLate ==
    IF head >= size
    THEN [i \in 0..(2 * size - 1) |-> IF i < size THEN items[i] ELSE Blank]
    ELSE items

\* _sgrow: the slots in use and a blank one for the call to come.
Room ==
    IF head >= size - 1
    THEN [i \in 0..(2 * size - 1) |-> IF i < size THEN items[i] ELSE Blank]
    ELSE items

\* Mutant of PushedBack: the slot is wiped.
PushedWiped(i, k) == [items EXCEPT ![i] = [Blank EXCEPT !.key = k]]

\* spush into a slot that exists.
PushedBack(i, k) == [items EXCEPT ![i].key = k]

\* _call_enter: _push_frame, then ci->t0 = now.
Enter(k, t) ==
    /\ head + 1 < MaxDepth
    /\ LET room == Room
       IN  /\ items' = [i \in DOMAIN room \cup {head + 1} |->
                          IF i = head + 1 THEN [key |-> k, t0 |-> t] ELSE room[i]]
           /\ size' = IF head >= size - 1 THEN 2 * size ELSE size
    /\ head' = head + 1

\* _call_leave with one call on the stack: _pop_frame, and a second that fails.
LeaveLast ==
    /\ head = 0
    /\ head' = -1
    /\ UNCHANGED <<items, size>>

\* _call_leave: _pop_frame twice, then _push_frame of the caller.
LeaveToCaller ==
    /\ head > 0
    /\ items' = PushedBack(head - 1, items[head - 1].key)
    /\ head' = head - 1
    /\ UNCHANGED size

StackNext == LeaveLast \/ LeaveToCaller \/ \E k \in CKey, t \in Time : Enter(k, t)

StackSpec == StackInit /\ [][StackNext]_stackVars

-----------------------------------------------------------------------------
\* Every slot up to head has been allocated.
StackTypeOK ==
    /\ size \in Nat
    /\ DOMAIN items = 0..(size - 1)
    /\ head \in -1..(size - 1)
    /\ \A i \in 0..head : items[i] \in [key: CKey, t0: Time]

\* The array is the stack of calls that CallStats works with: leaving a callee
\* keeps the time of the caller's entry, at any depth and after any growth.
Abstract == INSTANCE Stack WITH
    Key <- CKey, calls <- [i \in 1..(head + 1) |-> items[i - 1]]
IsStack == Abstract!Spec
=============================================================================
