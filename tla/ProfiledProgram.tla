--------------------------- MODULE ProfiledProgram ---------------------------
(***************************************************************************)
(* CallStats fed by an interpreter thread: calls and returns nest, the     *)
(* profiler is first switched on somewhere inside running calls, and an    *)
(* event is delivered only while the thread's profile function is set      *)
(* (_eval_setprofile, _eval_unsetprofile).  The interpreter decides when   *)
(* it makes a call of a builtin whether that call is reported, so the      *)
(* return of a builtin is reported only if its call was.                   *)
(***************************************************************************)
EXTENDS CallStats

CONSTANTS
    Builtin,     \* the pits of builtin functions (PyTrace_C_CALL events)
    MaxUnseen    \* bound: calls in progress when profiling begins

ASSUME ProgramAssumption == Builtin \subseteq Pit /\ MaxUnseen \in Nat

VARIABLES
    program,   \* the interpreter's stack: functions, and whether the profiler
               \* saw the call
    on         \* the thread's profile function is _yapp_callback

programVars == <<program, on>>
allVars == <<vars, programVars>>

ProgramInit ==
    /\ Init
    /\ \E n \in 0..MaxUnseen, p \in Pit \ Builtin :
         program = [i \in 1..n |-> [fn |-> p, seen |-> FALSE]]
    /\ on = TRUE

\* The program calls p; a builtin calls nothing that is reported.
ProgramCall(p, f) ==
    /\ program # <<>> => Top(program).fn \notin Builtin
    /\ program' = Append(program, [fn |-> p, seen |-> on])
    /\ IF on THEN CallEnter(p, f)
             ELSE Len(program) < MaxCalls /\ UNCHANGED vars
    /\ UNCHANGED on

\* The innermost function of the program returns.
ReturnReported ==
    on /\ (Top(program).fn \in Builtin => Top(program).seen)

ProgramReturn(f) ==
    /\ program # <<>>
    /\ program' = Pop(program)
    /\ IF ReturnReported THEN CallLeave(f, FALSE) ELSE UNCHANGED vars
    /\ UNCHANGED on

ProgramRuns == Tick /\ UNCHANGED programVars

-----------------------------------------------------------------------------
ProgramTypeOK ==
    /\ TypeOK
    /\ program \in Seq([fn: Pit, seen: BOOLEAN])
    /\ on \in BOOLEAN

Seen == {i \in 1..Len(program) : program[i].seen}

\* The profiler's stack mirrors the part of the program's stack it has seen: it
\* has as many entries, and the n-th call that was seen is at place n.  So the
\* record that _call_leave pops is the one of the function that returns.
StackMirrorsProgram ==
    /\ Len(stack) = Cardinality(Seen)
    /\ \A i \in Seen :
         stack[Cardinality({j \in Seen : j <= i})].pit = program[i].fn
=============================================================================
