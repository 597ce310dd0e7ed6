------------------------------ MODULE Coroutines ------------------------------
(***************************************************************************)
(* A program of coroutines, asynchronous generators and the builtins they  *)
(* call, profiled by wall time; the accounting is that of CallStats        *)
(* (yappi/_yappi.c: _coro_enter, _coro_exit, _call_enter, _call_leave).    *)
(*                                                                         *)
(* Whoever runs may enter a suspended coroutine: the event loop, another   *)
(* coroutine that awaits it or iterates over it, or throw(), which enters  *)
(* the innermost coroutine of a chain of awaits without the ones around    *)
(* it.  The profiler knows a coroutine by the address of its frame, which  *)
(* the interpreter gives to another coroutine once the first has finished. *)
(***************************************************************************)
EXTENDS CallStats

CONSTANTS Builtin   \* pits of builtin functions

ASSUME CoroutinesAssumption ==
    /\ WallClock
    /\ AsyncFrame = Frame
    /\ Builtin \subseteq Pit

VARIABLES
    live,   \* frame -> function, of the coroutines begun and not finished
    body,   \* the calls in progress, innermost last
    on      \* the profile function is set

coVars == <<vars, live, body, on>>

CoInit ==
    /\ Init
    /\ live = [f \in {} |-> 0]
    /\ body = <<>>
    /\ on = TRUE

InBuiltin == body # <<>> /\ Top(body).pit \in Builtin
Runs(f) == \E i \in 1..Len(body) : body[i].frame = f

\* Bound: calls made while nothing is profiled.
Called(p, f) ==
    /\ Len(body) < MaxCalls
    /\ body' = Append(body, [pit |-> p, frame |-> f])
    /\ UNCHANGED on
    /\ IF on THEN CallEnter(p, f) ELSE UNCHANGED vars

Left(suspended) ==
    /\ body # <<>>
    /\ body' = Pop(body)
    /\ UNCHANGED on
    /\ IF on THEN CallLeave(Top(body).frame, suspended) ELSE UNCHANGED vars

\* A coroutine is created and entered.
Begin(p, f) ==
    /\ p \notin Builtin
    /\ f \notin DOMAIN live
    /\ live' = WithKey(live, f, p)
    /\ Called(p, f)

\* A suspended coroutine is entered.
Resume(f) ==
    /\ f \in DOMAIN live
    /\ ~Runs(f)
    /\ Called(live[f], f)
    /\ UNCHANGED live

\* A builtin is called; the event has the frame of its caller.
CallBuiltin(b) ==
    /\ body # <<>>
    /\ ~InBuiltin
    /\ Called(b, Top(body).frame)
    /\ UNCHANGED live

\* yield, or an await that has to wait
Suspend ==
    /\ ~InBuiltin
    /\ Left(TRUE)
    /\ UNCHANGED live

\* return, or an exception that is not caught
Finish ==
    /\ Left(FALSE)
    /\ live' = IF InBuiltin THEN live ELSE Without(live, Top(body).frame)

\* start() or stop() between two turns of the event loop
Switch ==
    /\ body = <<>>
    /\ on' = ~on
    /\ UNCHANGED <<vars, live, body>>

\* clear_stats() between two turns of the event loop
Clear ==
    /\ body = <<>>
    /\ stack' = <<>>
    /\ pits' = [p \in {} |-> Zero]
    /\ children' = [e \in {} |-> Zero]
    /\ pitLevel' = [p \in {} |-> 0]
    /\ childLevel' = [e \in {} |-> 0]
    /\ coroutines' = [c \in {} |-> 0]
    /\ outermost' = [p \in Pit |-> [callcount |-> 0, nonrec |-> 0, tsub |-> 0]]
    /\ UNCHANGED <<now, lastSeen, calls, live, body, on>>

Passes == Tick /\ UNCHANGED <<live, body, on>>

Others ==
    \/ \E f \in Frame : Resume(f)
    \/ \E b \in Builtin : CallBuiltin(b)
    \/ Suspend
    \/ Finish
    \/ Switch
    \/ Clear
    \/ Passes

CoNext == Others \/ \E p \in Pit, f \in Frame : Begin(p, f)
CoSpec == CoInit /\ [][CoNext]_coVars

\* No coroutine gets the frame of one that left its record behind: by finishing
\* while nothing was profiled, or inside another call of its function.
FreshNext ==
    \/ Others
    \/ \E p \in Pit, f \in Frame :
         <<p, f>> \notin DOMAIN coroutines /\ Begin(p, f)
FreshSpec == CoInit /\ [][FreshNext]_coVars

-----------------------------------------------------------------------------
\* The coroutines, and the calls of builtins, that have a record.
IsLive(c) == \/ c.frame \in DOMAIN live /\ live[c.frame] = c.pit
             \/ \E i \in 1..Len(body) : body[i] = c
Remembered == {c \in [pit: Pit, frame: Frame] :
                /\ <<c.pit, c.frame>> \in DOMAIN coroutines
                /\ IsLive(c)}

Times == INSTANCE CoroutineTimes WITH
    Fn    <- Pit,
    body  <- IF on THEN body ELSE <<>>,
    ages  <- [c \in Remembered |-> now - coroutines[<<c.pit, c.frame>>]],
    total <- [p \in Pit |-> Recorded(pits, p).ttotal],
    ncall <- [p \in Pit |-> Recorded(pits, p).callcount]

\* doc/coroutine-profiling.md: time spent suspended is part of a coroutine's
\* wall time, and a call is counted when it finishes, however coroutines of the
\* same function overlap, recurse, are entered by throw() or outlive a session.
WallTimesAsPromised == Times!Spec
=============================================================================
