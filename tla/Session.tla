------------------------------- MODULE Session -------------------------------
(***************************************************************************)
(* The life of a profiling session: the flags and tables that start, stop, *)
(* clear_stats, _pause and _resume (yappi/_yappi.c) and their Python       *)
(* callers (yappi/yappi.py) share with the profiler callback that runs in  *)
(* every profiled thread.                                                  *)
(*                                                                         *)
(* C code runs under the interpreter lock.  Another thread gets its turn   *)
(* between two steps of a Python function and while C code is calling a    *)
(* Python callback (_call_funcobjargs), so those are the places where the  *)
(* actions begin and end.  Only the busy loop of _wait_for_callbacks runs  *)
(* without the lock, and sees _callback_depth in the middle of C code.     *)
(*                                                                         *)
(* A context is identified by its thread (its ident _yappi_tid); what is   *)
(* recorded in a context is the subject of CallStats.                      *)
(***************************************************************************)
EXTENDS Naturals, Sequences, FiniteSets

CONSTANTS
    Thread,      \* threads of the program
    Initial,     \* those that run when the behaviour begins
    Caller,      \* those that call the profiler's functions
    Calls,       \* the functions they call
    Settings,    \* the settings a session may have
    MaxCalls     \* bound: calls of the profiler's functions

API == {"start", "stop", "clear_stats", "get_func_stats", "get_thread_stats"}

\* The Python callbacks installed; start(profile_threads=...), which becomes
\* flags.multicontext; whether _eval_setprofile sets every thread, as it does
\* on Python 3.12 and later.
Setting == [callbacks: SUBSET {"id", "name", "tag"},
            multi: BOOLEAN,
            allThreads: BOOLEAN]

ASSUME SessionAssumption ==
    /\ Initial \subseteq Thread
    /\ Caller \subseteq Initial
    /\ Calls \subseteq API
    /\ Settings \subseteq Setting
    /\ \A s \in Settings : s.multi \/ "id" \notin s.callbacks
    /\ MaxCalls \in Nat

VARIABLES
    settings,     \* the settings of this session, which do not change
    running,      \* yapprunning
    haveStats,    \* yapphavestats
    initialized,  \* yappinitialized: the tables exist
    paused,       \* set by _pause, cleared by _resume
    generation,   \* history: how often the tables have been freed
    contexts,     \* the table of contexts: id -> its name is known
    current,      \* current_ctx: id and generation of a context
    initialCtx,   \* initial_ctx, likewise
    hook,         \* threading.setprofile(_profile_thread_callback) in force
    alive,        \* threads that run
    prof,         \* a thread's profile function: "none", "python" or "c"
    event,        \* how far a thread is with the event it is delivering
    todo,         \* what is left of the profiler function a thread is calling
    reading,      \* generation of the tables a thread is enumerating
    charged,      \* history: <<thread, context>> of the events recorded
    wanted,       \* history: the last of start() and stop() was start()
    starters,     \* history: threads that called start()
    made          \* history: calls of the profiler's functions so far

Callbacks == settings.callbacks
Multi == settings.multi
AllThreads == settings.allThreads

flags == <<settings, running, haveStats, initialized, paused>>
tables == <<generation, contexts>>
history == <<charged, wanted, starters, made>>
vars == <<flags, tables, current, initialCtx, hook, alive, prof, event, todo,
          reading, history>>

Nobody == "nobody"
NoCtx == [id |-> Nobody, gen |-> 0]
CtxId(t) == IF Multi \/ "id" \in Callbacks THEN t ELSE "0"

-----------------------------------------------------------------------------
\* The stages of an event.  "hooked": _profile_thread_callback was entered;
\* "in": a Python callback runs; "after": it has returned, C code goes on;
\* "fault": freed or missing tables were used.
Idle == [at |-> "none"]
Hooked(call) == [at |-> "hooked", call |-> call]
InCallback(which, call) ==
    [at |-> "in", which |-> which, call |-> call, saved |-> current]
Fault == [at |-> "fault"]

Advance(t, e) == event' = [event EXCEPT ![t] = e]

InCallbacks == {t \in Thread : event[t].at = "in"}

\* Mutant of callbackDepth: callbacks are not counted.
depthUncounted == 0

callbackDepth == Cardinality(InCallbacks)  \* _callback_depth

\* A thread between two callbacks of one event holds the interpreter lock.
LockHolder == {t \in Thread : event[t].at = "after"}
MayRun(t) == t \in alive /\ LockHolder \subseteq {t}

-----------------------------------------------------------------------------
Init ==
    /\ settings \in Settings
    /\ running = FALSE
    /\ haveStats = FALSE
    /\ initialized = TRUE
    /\ paused = FALSE
    /\ generation = 1
    /\ contexts = [c \in {} |-> FALSE]
    /\ current = NoCtx
    /\ initialCtx = NoCtx
    /\ hook = FALSE
    /\ alive = Initial
    /\ prof = [t \in Thread |-> "none"]
    /\ event = [t \in Thread |-> Idle]
    /\ todo = [t \in Thread |-> <<>>]
    /\ reading = [t \in Thread |-> 0]
    /\ charged = {}
    /\ wanted = FALSE
    /\ starters = {}
    /\ made = 0

\* Mutant of SetProfileEverywhere: threads to come are included.
SetProfileEvenUnborn == [u \in Thread |-> "c"]

\* _eval_setprofile and _eval_unsetprofile, of one thread or of every thread
SetProfileEverywhere == [u \in Thread |-> IF u \in alive THEN "c" ELSE prof[u]]

\* Mutant of SetProfile: every thread, on every version of Python.
SetProfileOfAll(t) == SetProfileEverywhere

SetProfile(t) ==
    IF AllThreads THEN SetProfileEverywhere ELSE [prof EXCEPT ![t] = "c"]
UnsetProfileEverywhere == [u \in Thread |-> "none"]

\* The threading module starts a thread with the hook as its profile function.
ThreadStarts(t) ==
    /\ t \notin alive
    /\ LockHolder = {}
    /\ alive' = alive \cup {t}
    /\ prof' = [prof EXCEPT ![t] = IF hook THEN "python" ELSE "none"]
    /\ UNCHANGED <<flags, tables, current, initialCtx, hook, event, todo,
                   reading, history>>

-----------------------------------------------------------------------------
\* The profiler callback, _yapp_callback.

Ref(id) == [id |-> id, gen |-> generation]
Live(ctx) == ctx.gen = generation /\ ctx.id \in DOMAIN contexts

\* _current_tag, then _call_enter or _call_leave uses current_ctx.
Record(t, ctx) ==
    /\ Advance(t, Idle)
    /\ charged' = charged \cup {<<t, ctx.id>>}

TagAndRecord(t, ctx, call) ==
    IF call /\ "tag" \in Callbacks
    THEN /\ Advance(t, [InCallback("tag", call) EXCEPT !.saved = ctx])
         /\ UNCHANGED charged
    ELSE Record(t, ctx)

\* The part of _yapp_callback that follows _thread2ctx; table is the table of
\* contexts that _thread2ctx leaves.
HaveContext(t, table, call) ==
    LET ctx == Ref(CtxId(t))
    IN  /\ contexts' = table
        /\ current' = ctx
        /\ IF ~Multi /\ ctx # initialCtx
           THEN Advance(t, Idle) /\ UNCHANGED charged
           ELSE IF ~table[ctx.id] /\ "name" \in Callbacks
           THEN /\ Advance(t, [InCallback("name", call) EXCEPT !.saved = ctx])
                /\ UNCHANGED charged
           ELSE TagAndRecord(t, ctx, call)

\* The table in which _profile_thread makes sure of a record for t.
Profiled(t) ==
    [c \in DOMAIN contexts \cup {CtxId(t)} |->
        c \in DOMAIN contexts /\ contexts[c]]

\* Every lookup in the table of contexts needs the table.
TablesMissing(t) ==
    /\ ~initialized
    /\ Advance(t, Fault)
    /\ UNCHANGED <<contexts, current, prof, charged>>

\* _profile_thread has the context's id.
ProfileThread(t, call) ==
    \/ TablesMissing(t)
    \/ /\ initialized
       /\ prof' = SetProfile(t)
       /\ HaveContext(t, Profiled(t), call)

\* _thread2ctx has the context's id; _profile_thread asks for it again.
Thread2Ctx(t, call) ==
    \/ TablesMissing(t)
    \/ /\ initialized
       /\ CtxId(t) \in DOMAIN contexts
       /\ HaveContext(t, contexts, call)
       /\ UNCHANGED prof
    \/ /\ initialized
       /\ CtxId(t) \notin DOMAIN contexts
       /\ IF "id" \in Callbacks
          THEN /\ Advance(t, InCallback("id_again", call))
               /\ UNCHANGED <<contexts, current, prof, charged>>
          ELSE ProfileThread(t, call)

EventUnchanged ==
    UNCHANGED <<flags, generation, initialCtx, hook, alive, todo, reading,
                wanted, starters, made>>

\* An event is delivered to a thread whose profile function is _yapp_callback.
EventBegins(t, call) ==
    /\ MayRun(t)
    /\ prof[t] = "c"
    /\ event[t] = Idle
    /\ IF "id" \in Callbacks
       THEN /\ Advance(t, InCallback("id", call))
            /\ UNCHANGED <<contexts, current, prof, charged>>
       ELSE Thread2Ctx(t, call)
    /\ EventUnchanged

\* The first event of a new thread goes to _profile_thread_callback.
HookBegins(t, call) ==
    /\ MayRun(t)
    /\ prof[t] = "python"
    /\ event[t] = Idle
    /\ Advance(t, Hooked(call))
    /\ UNCHANGED <<contexts, current, prof, charged>>
    /\ EventUnchanged

\* profile_event: _ensure_thread_profiled, then the event itself.
ProfileEvent(t) ==
    /\ MayRun(t)
    /\ event[t].at = "hooked"
    /\ IF "id" \in Callbacks
       THEN /\ Advance(t, InCallback(IF prof[t] = "c" THEN "id" ELSE "hook_id",
                                     event[t].call))
            /\ UNCHANGED <<contexts, current, prof, charged>>
       ELSE IF prof[t] = "c" THEN Thread2Ctx(t, event[t].call)
       ELSE ProfileThread(t, event[t].call)
    /\ EventUnchanged

\* Mutant of RestoreContext: current_ctx is left as other threads made it.
KeepContext(t) == UNCHANGED current

\* A callback returns: _call_funcobjargs restores current_ctx.
RestoreContext(t) == current' = event[t].saved

CallbackReturns(t) ==
    /\ MayRun(t)
    /\ event[t].at = "in"
    /\ Advance(t, [event[t] EXCEPT !.at = "after"])
    /\ RestoreContext(t)
    /\ UNCHANGED <<contexts, prof, charged>>
    /\ EventUnchanged

AfterId(t) ==
    /\ event[t].which = "id"
    /\ Thread2Ctx(t, event[t].call)

AfterIdAgain(t) ==
    /\ event[t].which = "id_again"
    /\ ProfileThread(t, event[t].call)

\* _ensure_thread_profiled is done; _yapp_callback asks for the id again.
AfterHookId(t) ==
    /\ event[t].which = "hook_id"
    /\ \/ TablesMissing(t)
       \/ /\ initialized
          /\ prof' = SetProfile(t)
          /\ contexts' = Profiled(t)
          /\ Advance(t, InCallback("id", event[t].call))
          /\ UNCHANGED <<current, charged>>

\* The name may not be available yet: it is asked for again.
AfterName(t) ==
    /\ event[t].which = "name"
    /\ UNCHANGED <<current, prof>>
    /\ IF Live(current)
       THEN /\ \E got \in BOOLEAN :
                 contexts' = [contexts EXCEPT ![current.id] = got]
            /\ TagAndRecord(t, current, event[t].call)
       ELSE Advance(t, Fault) /\ UNCHANGED <<contexts, charged>>

AfterTag(t) ==
    /\ event[t].which = "tag"
    /\ UNCHANGED <<contexts, current, prof>>
    /\ IF Live(current) THEN Record(t, current)
       ELSE Advance(t, Fault) /\ UNCHANGED charged

EventContinues(t) ==
    /\ MayRun(t)
    /\ event[t].at = "after"
    /\ \/ AfterId(t) \/ AfterIdAgain(t) \/ AfterHookId(t)
       \/ AfterName(t) \/ AfterTag(t)
    /\ EventUnchanged

-----------------------------------------------------------------------------
\* The profiler's functions, as the steps between which other threads run.

\* Mutant of Steps: clear_stats waits before it pauses.
StepsWaitFirst == [
    start            |-> <<"hook", "start">>,
    stop             |-> <<"stop", "unhook">>,
    clear_stats      |-> <<"wait", "pause", "clear", "resume">>,
    get_func_stats   |-> <<"pause", "pause", "enumerate", "enumerated",
                           "resume", "resume">>,
    get_thread_stats |-> <<"pause", "enumerate", "enumerated", "resume">>]

\* Mutant of Steps: start sets the hook for new threads when it is done.
StepsHookLast == [
    start            |-> <<"start", "hook">>,
    stop             |-> <<"stop", "unhook">>,
    clear_stats      |-> <<"pause", "wait", "clear", "resume">>,
    get_func_stats   |-> <<"pause", "pause", "enumerate", "enumerated",
                           "resume", "resume">>,
    get_thread_stats |-> <<"pause", "enumerate", "enumerated", "resume">>]

Steps == [
    start            |-> <<"hook", "start">>,
    stop             |-> <<"stop", "unhook">>,
    clear_stats      |-> <<"pause", "wait", "clear", "resume">>,
    get_func_stats   |-> <<"pause", "pause", "enumerate", "enumerated",
                           "resume", "resume">>,
    get_thread_stats |-> <<"pause", "enumerate", "enumerated", "resume">>]

CallAPI(t, f) ==
    /\ MayRun(t)
    /\ event[t] = Idle
    /\ todo[t] = <<>>
    /\ made < MaxCalls
    /\ made' = made + 1
    /\ todo' = [todo EXCEPT ![t] = Steps[f]]
    /\ UNCHANGED <<flags, tables, current, initialCtx, hook, alive, prof,
                   event, reading, charged, wanted, starters>>

\* Thread t does the next step of the function it is calling.
NextStep(t, step) ==
    /\ t \in alive
    /\ event[t] = Idle
    /\ todo[t] # <<>>
    /\ Head(todo[t]) = step
    /\ todo' = [todo EXCEPT ![t] = Tail(@)]

Unhindered(t) ==
    MayRun(t) /\ UNCHANGED <<settings, event, alive, charged, made>>

\* threading.setprofile, called when every thread is to be profiled.
SetHook(t) ==
    /\ NextStep(t, "hook")
    /\ Unhindered(t)
    /\ hook' = (hook \/ Multi)
    /\ UNCHANGED <<flags, tables, current, initialCtx, prof, reading, wanted,
                   starters>>

UnsetHook(t) ==
    /\ NextStep(t, "unhook")
    /\ Unhindered(t)
    /\ hook' = FALSE
    /\ UNCHANGED <<flags, tables, current, initialCtx, prof, reading, wanted,
                   starters>>

\* Mutant of InitProfiler: the tables are made once, when yappi is imported.
InitOnImport == UNCHANGED initialized

\* _init_profiler makes the tables that are missing.
InitProfiler == initialized' = TRUE

\* _start, by thread t, of a profiler that does not run.
StartProfiler(t) ==
    /\ running' = TRUE
    /\ haveStats' = TRUE
    /\ InitProfiler
    /\ IF Multi
       THEN /\ prof' = SetProfileEverywhere
            /\ UNCHANGED <<contexts, initialCtx>>
       ELSE /\ prof' = IF prof[t] = "c" /\ CtxId(t) \in DOMAIN contexts
                       THEN prof ELSE SetProfile(t)
            /\ contexts' = Profiled(t)
            /\ initialCtx' = Ref(CtxId(t))
    /\ UNCHANGED <<generation, current>>

AlreadyStarted == UNCHANGED <<running, haveStats, initialized, prof, tables,
                              current, initialCtx>>

Start(t) ==
    /\ NextStep(t, "start")
    /\ Unhindered(t)
    /\ IF running THEN AlreadyStarted ELSE StartProfiler(t)
    /\ wanted' = TRUE
    /\ starters' = starters \cup {t}
    /\ UNCHANGED <<paused, hook, reading>>

\* Mutant of StopProfiler: the profile functions stay in place.
StopFlagOnly == running' = FALSE /\ UNCHANGED prof

\* _stop
StopProfiler ==
    /\ running' = FALSE
    /\ prof' = IF running THEN UnsetProfileEverywhere ELSE prof

Stop(t) ==
    /\ NextStep(t, "stop")
    /\ Unhindered(t)
    /\ StopProfiler
    /\ wanted' = FALSE
    /\ UNCHANGED <<haveStats, initialized, paused, tables, current, initialCtx,
                   hook, reading, starters>>

\* Mutant of PausedFlag: the flag says what the last _pause found.
PausedByLast == running

PausedFlag == paused \/ running

Pause(t) ==
    /\ NextStep(t, "pause")
    /\ Unhindered(t)
    /\ paused' = PausedFlag
    /\ StopProfiler
    /\ UNCHANGED <<haveStats, initialized, tables, current, initialCtx, hook,
                   reading, wanted, starters>>

Resume(t) ==
    /\ NextStep(t, "resume")
    /\ Unhindered(t)
    /\ paused' = FALSE
    /\ IF paused /\ ~running THEN StartProfiler(t) ELSE AlreadyStarted
    /\ UNCHANGED <<hook, reading, wanted, starters>>

\* _wait_for_callbacks leaves its busy loop, whoever holds the lock.
WaitEnds(t) ==
    /\ NextStep(t, "wait")
    /\ callbackDepth = 0
    /\ UNCHANGED <<flags, tables, current, initialCtx, hook, alive, prof,
                   event, reading, history>>

\* clear_stats of _yappi.c frees every table.
Clear(t) ==
    /\ NextStep(t, "clear")
    /\ Unhindered(t)
    /\ IF haveStats
       THEN /\ haveStats' = FALSE
            /\ initialized' = FALSE
            /\ generation' = generation + 1
            /\ contexts' = [c \in {} |-> FALSE]
            /\ current' = NoCtx
            /\ initialCtx' = NoCtx
       ELSE UNCHANGED <<haveStats, initialized, tables, current, initialCtx>>
    /\ UNCHANGED <<running, paused, hook, prof, reading, wanted, starters>>

\* enum_func_stats and enum_context_stats walk the tables and call Python for
\* each record.
Enumerate(t) ==
    /\ NextStep(t, "enumerate")
    /\ Unhindered(t)
    /\ reading' = [reading EXCEPT ![t] = IF haveStats THEN generation ELSE 0]
    /\ UNCHANGED <<flags, tables, current, initialCtx, hook, prof, wanted,
                   starters>>

Enumerated(t) ==
    /\ NextStep(t, "enumerated")
    /\ MayRun(t)
    /\ reading' = [reading EXCEPT ![t] = 0]
    /\ Advance(t, IF reading[t] \in {0, generation} THEN Idle ELSE Fault)
    /\ UNCHANGED <<flags, tables, current, initialCtx, hook, alive, prof,
                   history>>

APIStep(t) ==
    \/ SetHook(t) \/ UnsetHook(t) \/ Start(t) \/ Stop(t)
    \/ Pause(t) \/ Resume(t) \/ WaitEnds(t) \/ Clear(t)
    \/ Enumerate(t) \/ Enumerated(t)

-----------------------------------------------------------------------------
EventStep(t) == ProfileEvent(t) \/ CallbackReturns(t) \/ EventContinues(t)

Next ==
    \/ \E t \in Thread : ThreadStarts(t)
    \/ \E t \in Thread, call \in BOOLEAN : EventBegins(t, call) \/ HookBegins(t, call)
    \/ \E t \in Thread : EventStep(t)
    \/ \E t \in Caller, f \in Calls : CallAPI(t, f)
    \/ \E t \in Caller : APIStep(t)

Spec == Init /\ [][Next]_vars

\* A callback that was called returns and a Python function that was called
\* goes on; nothing obliges the program to make further calls.
FairSpec ==
    /\ Spec
    /\ \A t \in Thread : WF_vars(EventStep(t))
    /\ \A t \in Caller : WF_vars(APIStep(t))

-----------------------------------------------------------------------------
CtxRef == [id: Thread \cup {"0", Nobody}, gen: Nat]

TypeOK ==
    /\ settings \in Settings
    /\ running \in BOOLEAN /\ haveStats \in BOOLEAN
    /\ initialized \in BOOLEAN /\ paused \in BOOLEAN
    /\ generation \in Nat
    /\ DOMAIN contexts \subseteq Thread \cup {"0"}
    /\ contexts \in [DOMAIN contexts -> BOOLEAN]
    /\ current \in CtxRef /\ initialCtx \in CtxRef
    /\ hook \in BOOLEAN
    /\ alive \subseteq Thread
    /\ prof \in [Thread -> {"none", "python", "c"}]
    /\ \A t \in Thread \ alive : prof[t] = "none"
    /\ event \in [Thread -> {Idle, Fault}
          \cup [at: {"hooked"}, call: BOOLEAN]
          \cup [at: {"in", "after"}, which: {"id", "id_again", "hook_id", "name", "tag"},
                call: BOOLEAN, saved: CtxRef]]
    /\ todo \in [Thread -> Seq(UNION {{s[i] : i \in DOMAIN s} :
                                       s \in {Steps[f] : f \in API}})]
    /\ reading \in [Thread -> Nat]
    /\ wanted \in BOOLEAN
    /\ starters \subseteq Caller
    /\ made \in 0..MaxCalls

AtRest == \A t \in Thread : todo[t] = <<>>

\* The tables that a call holds on to are not freed under it, and are there
\* when an event looks for its context, even though every callback, and every
\* record handed to Python, lets other threads run (tests/test_functionality.py,
\* test_clear_stats_race).
TablesOutliveTheirUsers == \A t \in Thread : event[t].at # "fault"

\* start(): "profile_threads: Set to True to profile multiple threads" (yappi.py).
\* While the profiler runs, every thread there is delivers events, to
\* _yapp_callback or first to the hook: also one that the program has started
\* between the two statements of start(), in a pause, or during a callback.
EveryThreadProfiled == Multi /\ running => \A t \in alive : prof[t] # "none"

\* The profiler runs only with its tables.
RunsOnTables == running => initialized /\ haveStats

\* README.md: "Profiler can be started/stopped and results can be obtained from
\* any time and any thread."  Once every function of the profiler has returned
\* it runs just if the last of start() and stop() was start().
RunsAsAsked == AtRest => (running <=> wanted) /\ ~paused

\* Callbacks let other threads record events of their own in the middle of an
\* event: each event is still charged to the context of its own thread.
ChargedToOwnContext == \A c \in charged : c[2] = CtxId(c[1])

\* yappi.py, start(): "Set to false to profile only the invoking thread."
OnlyInvokingThread == ~Multi => \A c \in charged : c[1] \in starters

\* Between the first record of an enumeration and the last, while Python runs
\* for every record, the table of contexts that henum walks stays what it is, and
\* no thread gets further with a new event than the hook of the threading module.
\* The other tables are touched only by events that were in a callback, each of
\* which can still end, once.
EnumerationUndisturbed ==
    [][\A r \in Thread :
          reading[r] # 0 /\ reading'[r] # 0 =>
            /\ DOMAIN contexts' = DOMAIN contexts
            /\ \A t \in Thread :
                 event[t] = Idle => event'[t].at \in {"none", "hooked"}]_vars

\* clear_stats() does not wait for callbacks for ever.
Waiting(t) == todo[t] # <<>> /\ Head(todo[t]) = "wait"
WaitingEnds == \A t \in Caller : Waiting(t) ~> ~Waiting(t)
=============================================================================
