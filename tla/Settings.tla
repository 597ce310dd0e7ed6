------------------------------- MODULE Settings -------------------------------
(***************************************************************************)
(* What a profile is made with, and the decorator that makes one           *)
(* (yappi/yappi.py: profile, run, set_clock_type, set_context_backend; the *)
(* functions they call in yappi/_yappi.c).                                 *)
(*                                                                         *)
(* A function of the profiler is a step: what happens when threads take    *)
(* turns inside one is the subject of Session.  The wrapper of a decorated *)
(* function is several steps, and one level counts the calls of the        *)
(* function in all threads.                                                *)
(***************************************************************************)
EXTENDS Naturals, SequencesExt

CONSTANTS
    Thread,
    Decorated,    \* functions under @profile(clock_type=ClockOf[f])
    ClockOf,
    Clock,
    Backend,      \* what tells contexts apart: native_thread or greenlet
    MaxBlocks     \* bound: decorated calls and run() blocks in progress

ASSUME SettingsAssumption ==
    /\ ClockOf \in [Decorated -> Clock]
    /\ "run" \notin Decorated      \* the name of the blocks of run()
    /\ MaxBlocks \in Nat

VARIABLES
    clock,      \* the clock type of timing.c
    backend,    \* ctx_type
    running,    \* yapprunning
    haveStats,  \* yapphavestats
    level,      \* func._rec_level
    blocks,     \* of each thread: its wrappers in progress, and where they are
    records     \* the clock and backend with which the tables were filled

profiler == <<clock, backend, running, haveStats, records>>
vars == <<profiler, level, blocks>>

Init ==
    /\ clock \in Clock
    /\ backend \in Backend
    /\ running = FALSE
    /\ haveStats = FALSE
    /\ level = [f \in Decorated |-> 0]
    /\ blocks = [t \in Thread |-> <<>>]
    /\ records = {}

-----------------------------------------------------------------------------
\* Functions of the profiler.

\* An event is recorded.
Record ==
    /\ running
    /\ records' = records \cup {[clock |-> clock, backend |-> backend]}
    /\ UNCHANGED <<clock, backend, running, haveStats>>

\* A profiler that runs already takes no notice.
StartEffect ==
    /\ running' = TRUE
    /\ haveStats' = TRUE
    /\ UNCHANGED <<clock, backend, records>>

StopEffect ==
    /\ running' = FALSE
    /\ UNCHANGED <<clock, backend, haveStats, records>>

\* Mutant of ClearEffect: _resume leaves yapphavestats alone.
ClearEffectOnly ==
    /\ records' = {}
    /\ haveStats' = FALSE
    /\ UNCHANGED <<clock, backend, running>>

\* _pause, clear_stats, _resume: a profiler that runs is started again.
ClearEffect ==
    /\ records' = {}
    /\ haveStats' = running
    /\ UNCHANGED <<clock, backend, running>>

\* While there are statistics a clock is refused, unless it is the same.
ClockRefused(c) == haveStats /\ c # clock

ClockEffect(c) ==
    /\ clock' = c
    /\ UNCHANGED <<backend, running, haveStats, records>>

\* The callbacks, which set_context_backend installs before it can be refused,
\* are left out.
BackendRefused(b) == haveStats /\ b # backend

BackendEffect(b) ==
    /\ backend' = b
    /\ UNCHANGED <<clock, running, haveStats, records>>

-----------------------------------------------------------------------------
\* The wrapper of a decorated function, and the run() context manager.  A
\* thread executes the innermost of its blocks.
Block(f, at) == [fn |-> f, at |-> at]
RunBlock == Block("run", "body")

At(t, at) == blocks[t] # <<>> /\ Last(blocks[t]).at = at /\ Last(blocks[t]) # RunBlock
Current(t) == Last(blocks[t]).fn
Going(t, at) == blocks' = [blocks EXCEPT ![t] = Append(Front(@), Block(Current(t), at))]
Leaving(t) == blocks' = [blocks EXCEPT ![t] = Front(@)]

\* A thread that runs code of the program
Free(t) == blocks[t] # <<>> => Last(blocks[t]).at = "body"

\* A decorated function is called: the level is looked at.
Enter(t, f) ==
    /\ Free(t)
    /\ Len(blocks[t]) < MaxBlocks
    /\ blocks' = [blocks EXCEPT ![t] =
                    Append(@, Block(f, IF level[f] = 0 THEN "clear" ELSE "count"))]
    /\ UNCHANGED <<profiler, level>>

WrapperClears(t) ==
    /\ At(t, "clear")
    /\ ClearEffect
    /\ Going(t, "clock")
    /\ UNCHANGED level

\* An exception of set_clock_type leaves the wrapper: func is not called.
WrapperSetsClock(t) ==
    /\ At(t, "clock")
    /\ LET c == ClockOf[Current(t)]
       IN  IF ClockRefused(c)
           THEN Leaving(t) /\ UNCHANGED profiler
           ELSE Going(t, "start") /\ ClockEffect(c)
    /\ UNCHANGED level

WrapperStarts(t) ==
    /\ At(t, "start")
    /\ StartEffect
    /\ Going(t, "count")
    /\ UNCHANGED level

\* Mutant of WrapperCounts: an inner call is not counted.
WrapperCountsOnce(t) ==
    /\ At(t, "count")
    /\ level' = [level EXCEPT ![Current(t)] = 1]
    /\ Going(t, "body")
    /\ UNCHANGED profiler

WrapperCounts(t) ==
    /\ At(t, "count")
    /\ level' = [level EXCEPT ![Current(t)] = @ + 1]
    /\ Going(t, "body")
    /\ UNCHANGED profiler

\* Mutant of WrapperUncounts: no "finally".
WrapperUncountsUnlessRaised(t) ==
    /\ At(t, "body")
    /\ \/ /\ level' = [level EXCEPT ![Current(t)] = @ - 1]
          /\ IF level'[Current(t)] = 0 THEN Going(t, "stop") ELSE Leaving(t)
       \/ Leaving(t) /\ UNCHANGED level
    /\ UNCHANGED profiler

\* func has returned, or raised an exception.
WrapperUncounts(t) ==
    /\ At(t, "body")
    /\ level' = [level EXCEPT ![Current(t)] = @ - 1]
    /\ IF level'[Current(t)] = 0 THEN Going(t, "stop") ELSE Leaving(t)
    /\ UNCHANGED profiler

WrapperStops(t) ==
    /\ At(t, "stop")
    /\ StopEffect
    /\ Going(t, "report")
    /\ UNCHANGED level

\* Statistics are printed, or handed to return_callback: code of the program,
\* which may raise an exception and leaves the profiler alone.
WrapperReports(t) ==
    /\ At(t, "report")
    /\ Going(t, "final_clear")
    /\ UNCHANGED <<profiler, level>>

WrapperEnds(t) ==
    /\ At(t, "final_clear")
    /\ ClearEffect
    /\ Leaving(t)
    /\ UNCHANGED level

Wrapper(t) ==
    \/ WrapperClears(t) \/ WrapperSetsClock(t) \/ WrapperStarts(t)
    \/ WrapperCounts(t) \/ WrapperUncounts(t) \/ WrapperStops(t)
    \/ WrapperReports(t) \/ WrapperEnds(t)

\* with run(): the block is entered; it ends.
RunBegins(t) ==
    /\ Free(t)
    /\ Len(blocks[t]) < MaxBlocks
    /\ StartEffect
    /\ blocks' = [blocks EXCEPT ![t] = Append(@, RunBlock)]
    /\ UNCHANGED level

RunEnds(t) ==
    /\ blocks[t] # <<>> /\ Last(blocks[t]) = RunBlock
    /\ StopEffect
    /\ Leaving(t)
    /\ UNCHANGED level

\* The program calls the profiler, also inside blocks.
Calls(t) ==
    /\ Free(t)
    /\ \/ StartEffect
       \/ StopEffect
       \/ ClearEffect
       \/ \E c \in Clock : ~ClockRefused(c) /\ ClockEffect(c)
       \/ \E b \in Backend : ~BackendRefused(b) /\ BackendEffect(b)
    /\ UNCHANGED <<level, blocks>>

Events == Record /\ UNCHANGED <<level, blocks>>

Next ==
    \/ Events
    \/ \E t \in Thread :
         \/ \E f \in Decorated : Enter(t, f)
         \/ Wrapper(t)
         \/ RunBegins(t) \/ RunEnds(t)
         \/ Calls(t)

Spec == Init /\ [][Next]_vars

-----------------------------------------------------------------------------
\* Whatever is in the tables was measured by the clock that is set, in contexts
\* of the backend that is set: neither can be changed while there are
\* statistics, nor while the profiler, cleared, goes on recording.
OneClockOneBackend ==
    \A r \in records : r = [clock |-> clock, backend |-> backend]

\* yappi.py, profile: statistics are shown "only [...] when recursion level of
\* the function becomes 0. Otherwise, we are in the middle of a recursive call
\* tree and not finished yet."
StopsAfterLastCall ==
    \A t, u \in Thread : At(t, "stop") =>
        \A i \in DOMAIN blocks[u] : blocks[u][i] # Block(Current(t), "body")

\* A decorated call that is not inside another block, of any thread, ends with a
\* profiler that is stopped and empty, however it and the calls inside it ended,
\* unless its clock was refused and the function not called.
DecoratedLeavesNothing ==
    [][\A t \in Thread :
         /\ Len(blocks[t]) = 1 /\ Last(blocks[t]) # RunBlock /\ ~At(t, "clock")
         /\ \A u \in Thread : blocks'[u] = <<>>
         => ~running' /\ ~haveStats' /\ records' = {}]_vars
=============================================================================
