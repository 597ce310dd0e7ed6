---------------------------- MODULE StatsReaders ----------------------------
(***************************************************************************)
(* A profiled program that reads its own statistics while the profiler     *)
(* runs (yappi/yappi.py: get_func_stats, YFuncStats.get, get_thread_stats, *)
(* _YContextStats.get).  The readers are functions of the program like any *)
(* other: their calls and returns are reported except between the calls of *)
(* the builtins _pause and _resume, and those four points lie at different *)
(* depths of the program's stack.                                          *)
(***************************************************************************)
EXTENDS ProfiledProgram

CONSTANTS
    GetFuncStats, GetThreadStats, Get,  \* Python functions of yappi.py
    Pause, Resume                       \* builtins of _yappi.c

Reader == {GetFuncStats, GetThreadStats, Get, Pause, Resume}

ASSUME ReaderAssumption ==
    /\ Reader \subseteq Pit
    /\ Cardinality(Reader) = 5
    /\ {Pause, Resume} \subseteq Builtin
    /\ {GetFuncStats, GetThreadStats, Get} \cap Builtin = {}

VARIABLES
    script,   \* what is left to do of the reader that is running
    running,  \* yapprunning
    paused,   \* the flag set by _pause and cleared by _resume
    made      \* history: calls of the program's own functions that were reported

readerVars == <<allVars, script, running, paused, made>>

\* The steps of a reader: call a function, return from it, or have an effect.
CallOf(p) == <<"call", p>>
ReturnOf == <<"return", Get>>
Effect(e) == <<e, Get>>
Builtins(p, e) == <<CallOf(p), Effect(e), ReturnOf>>

\* YFuncStats.get
GetOfFuncStats ==
    <<CallOf(Get)>> \o Builtins(Pause, "pause") \o <<Effect("enumerate")>>
        \o Builtins(Resume, "resume") \o <<ReturnOf>>

\* Mutant of FuncStatsScript: get() alone pauses.
FuncStatsPausedOnce ==
    <<CallOf(GetFuncStats)>> \o GetOfFuncStats \o <<ReturnOf>>

FuncStatsScript ==
    <<CallOf(GetFuncStats)>> \o Builtins(Pause, "pause") \o GetOfFuncStats
        \o Builtins(Resume, "resume") \o <<ReturnOf>>

\* get_thread_stats: _YContextStats.get pauses on its own only.  What it
\* enumerates are the contexts, which changes nothing.
ThreadStatsScript ==
    <<CallOf(GetThreadStats), CallOf(Get)>> \o Builtins(Pause, "pause")
        \o Builtins(Resume, "resume") \o <<ReturnOf, ReturnOf>>

ReaderInit ==
    /\ ProgramInit
    /\ \A i \in 1..Len(program) : program[i].fn \notin Reader
    /\ script = <<>>
    /\ running = TRUE
    /\ paused = FALSE
    /\ made = [p \in Pit \ Reader |-> 0]

\* The program's own functions run when no reader does.
OwnStep ==
    /\ script = <<>>
    /\ \/ \E p \in Pit \ Reader, f \in Frame :
            /\ ProgramCall(p, f)
            /\ made' = [made EXCEPT ![p] = @ + One(on)]
       \/ \E f \in Frame : ProgramReturn(f) /\ UNCHANGED made
    /\ UNCHANGED <<script, running, paused>>

Passes == ProgramRuns /\ UNCHANGED <<script, running, paused, made>>

\* Bound: a reader is started only when its calls fit under MaxCalls.
ReportedCalls == 5

Read(steps) ==
    /\ script = <<>>
    /\ program # <<>> => Top(program).fn \notin Builtin
    /\ calls + ReportedCalls <= MaxCalls
    /\ script' = steps
    /\ UNCHANGED <<allVars, running, paused, made>>

ReadFuncStats == Read(FuncStatsScript)
ReadThreadStats == Read(ThreadStatsScript)

\* Mutant of PauseEffect: the flag says what the last _pause found.
PauseForgets ==
    /\ paused' = running
    /\ running' = FALSE
    /\ on' = (on /\ ~running)
    /\ UNCHANGED <<vars, program>>

\* _pause: only a running profiler is stopped.
PauseEffect ==
    /\ paused' = (paused \/ running)
    /\ running' = FALSE
    /\ on' = (on /\ ~running)
    /\ UNCHANGED <<vars, program>>

\* _resume: only a paused profiler is started.
ResumeEffect ==
    /\ paused' = FALSE
    /\ running' = (running \/ paused)
    /\ on' = (on \/ paused)
    /\ UNCHANGED <<vars, program>>

ReaderStep(f) ==
    /\ script # <<>>
    /\ script' = Tail(script)
    /\ UNCHANGED made
    /\ LET what == Head(script)[1]
       IN  \/ what = "call" /\ ProgramCall(Head(script)[2], f)
              /\ UNCHANGED <<running, paused>>
           \/ what = "return" /\ ProgramReturn(f)
              /\ UNCHANGED <<running, paused>>
           \/ what = "pause" /\ PauseEffect
           \/ what = "resume" /\ ResumeEffect
           \/ what = "enumerate" /\ Enumerate
              /\ UNCHANGED <<programVars, running, paused>>

\* A program that reads its function statistics while it runs.
FuncReaderNext ==
    OwnStep \/ Passes \/ ReadFuncStats \/ \E f \in Frame : ReaderStep(f)
FuncReaderSpec == ReaderInit /\ [][FuncReaderNext]_readerVars

\* A program that reads its thread statistics while it runs.
ThreadReaderNext ==
    OwnStep \/ Passes \/ ReadThreadStats \/ \E f \in Frame : ReaderStep(f)
ThreadReaderSpec == ReaderInit /\ [][ThreadReaderNext]_readerVars

-----------------------------------------------------------------------------
\* The profiler runs again once a reader is done, and events are delivered.
ProfilingResumes == script = <<>> => running /\ on /\ ~paused

\* While the program's own functions run the profiler's stack mirrors the
\* program's, whatever was running when it was switched on, and it does so again
\* once a reader is done: the returns reported after _resume undo just the calls
\* reported before _pause, although they are not the returns of those calls.
ReadersBalance == script = <<>> => StackMirrorsProgram

\* doc/api.md: ncall is "number of times the executed function is called".
\* When none of the program's functions is in progress any more, each has been
\* counted as often as its calls were reported.
OwnCallsCounted ==
    (script = <<>> /\ program = <<>>) =>
        \A p \in DOMAIN pits \ Reader : pits[p].callcount = made[p]
=============================================================================
