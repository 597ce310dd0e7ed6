------------------------------ MODULE Greenlets ------------------------------
(***************************************************************************)
(* Greenlets profiled by CPU time (yappi/_yappi.c, context backend         *)
(* GREENLET and CPU_CLOCK; the thread-local value of yappi/tls.c).         *)
(*                                                                         *)
(* The clock is the CPU clock of a thread, and the greenlets of a thread   *)
(* take turns on it.  Nobody tells the profiler of a switch: an event that *)
(* comes from another greenlet than the thread's last event pauses the     *)
(* context of that one and moves every time stamp of the new one's context *)
(* forward by the time it was paused.                                      *)
(*                                                                         *)
(* What a call does to the other counters of its context is the subject of *)
(* CallStats; here a context is its time stamps.                           *)
(***************************************************************************)
EXTENDS Naturals, Sequences

CONSTANTS
    Thread,
    Greenlet,      \* also their contexts: every greenlet has an id of its own
    NoGreenlet,    \* NULL
    ThreadOf,      \* the thread on which a greenlet runs, for all its life
    StartModes,    \* values of profile_greenlets given to start()
    AllThreads,    \* profile functions are set in all threads (Python >= 3.12)
    MaxTime,       \* bound: ticks of each thread's clock
    MaxDepth       \* bound: calls in progress in a greenlet

ASSUME GreenletsAssumption ==
    /\ NoGreenlet \notin Greenlet
    /\ ThreadOf \in [Greenlet -> Thread]
    /\ StartModes \subseteq BOOLEAN
    /\ AllThreads \in BOOLEAN
    /\ MaxTime \in Nat
    /\ MaxDepth \in Nat

VARIABLES
    clock,       \* tickcount() of each thread
    active,      \* the greenlet that each thread is running
    contexts,    \* the context of each greenlet
    prev,        \* the value of tl_prev_ctx_key in each thread
    running,     \* yapprunning
    multi,       \* flags.multicontext
    initialCtx,  \* initial_ctx
    profiled,    \* threads whose profile function is _yapp_callback
    elapsed      \* history: elapsed in the last _call_leave

session == <<running, multi, initialCtx, profiled>>
vars == <<clock, active, contexts, prev, session, elapsed>>

\* times: ctx->t0 followed by the t0 of the items of ctx->cs.  A greenlet
\* without a context has no time stamps.
Context == [times: Seq(Nat), paused: BOOLEAN, pausedAt: Nat]
NoContext == [times |-> <<>>, paused |-> FALSE, pausedAt |-> 0]
Known(g) == contexts[g].times # <<>>

Init ==
    /\ clock = [t \in Thread |-> 0]
    /\ active \in [Thread -> Greenlet]
    /\ \A t \in Thread : ThreadOf[active[t]] = t
    /\ contexts = [g \in Greenlet |-> NoContext]
    /\ prev = [t \in Thread |-> NoGreenlet]
    /\ running = FALSE
    /\ multi = FALSE
    /\ initialCtx = NoGreenlet
    /\ profiled = {}
    /\ elapsed = 0

Tick(t) ==
    /\ clock[t] < MaxTime
    /\ clock' = [clock EXCEPT ![t] = @ + 1]
    /\ UNCHANGED <<active, contexts, prev, session, elapsed>>

\* greenlet.switch(), which the profiler does not see.
Switch(t, g) ==
    /\ ThreadOf[g] = t
    /\ active' = [active EXCEPT ![t] = g]
    /\ UNCHANGED <<clock, contexts, prev, session, elapsed>>

-----------------------------------------------------------------------------
\* _create_ctx, when the context is looked up for the first time
Created(c, time) == IF c.times = <<>> THEN [c EXCEPT !.times = <<time>>] ELSE c

\* _profile_thread also takes a context that exists out of its pause.
ProfileThread(c, time) ==
    [Created(c, time) EXCEPT !.paused = FALSE, !.pausedAt = 0]

\* _pause_greenlet_ctx
Pause(c, time) == [c EXCEPT !.paused = TRUE, !.pausedAt = time]

\* Mutant of Resume: the call on top of the stack is left out.
ResumeButTop(c, time) ==
    IF ~c.paused THEN c
    ELSE [c EXCEPT !.paused = FALSE,
                   !.times = [i \in 1..Len(c.times) |->
                                IF i > 1 /\ i = Len(c.times) THEN c.times[i]
                                ELSE c.times[i] + (time - c.pausedAt)]]

\* _resume_greenlet_ctx
Resume(c, time) ==
    IF ~c.paused THEN c
    ELSE [c EXCEPT !.paused = FALSE,
                   !.times = [i \in 1..Len(c.times) |->
                                c.times[i] + (time - c.pausedAt)]]

\* Mutant of SwitchedFrom: only the new greenlet is dealt with.
SwitchedFromUnpaused(p, table, g, time) ==
    IF p \in {NoGreenlet, g} THEN table
    ELSE [table EXCEPT ![g] = Resume(@, time)]

\* An event of greenlet g in a thread whose last event came from p.
SwitchedFrom(p, table, g, time) ==
    IF p \in {NoGreenlet, g} THEN table
    ELSE [table EXCEPT ![p] = Pause(@, time), ![g] = Resume(@, time)]

\* The first half of _yapp_callback, in thread t: the context of the greenlet
\* that runs is found or made, and a switch is noticed.
Noticed(table, t) ==
    LET g == active[t]
    IN  SwitchedFrom(prev[t], [table EXCEPT ![g] = Created(@, clock[t])],
                     g, clock[t])
PrevNoticed(t) == [prev EXCEPT ![t] = active[t]]

Event(t) ==
    /\ running
    /\ t \in profiled
    /\ prev' = PrevNoticed(t)
    /\ UNCHANGED <<clock, active, session>>

\* An event of which nothing is recorded: an exception, a built-in method, the
\* return of a call that began unseen, or, unless greenlets are all profiled,
\* any event of another greenlet than the initial one.
Look(t) ==
    /\ Event(t)
    /\ contexts' = Noticed(contexts, t)
    /\ UNCHANGED elapsed

Recorded(g) == multi \/ g = initialCtx

\* _call_enter
Call(t) ==
    /\ Event(t)
    /\ Recorded(active[t])
    /\ Len(contexts[active[t]].times) <= MaxDepth
    /\ contexts' = [Noticed(contexts, t) EXCEPT
                      ![active[t]].times = Append(@, clock[t])]
    /\ UNCHANGED elapsed

\* _call_leave
Return(t) ==
    /\ Event(t)
    /\ Recorded(active[t])
    /\ Len(contexts[active[t]].times) > 1
    /\ LET table == Noticed(contexts, t)
           times == table[active[t]].times
           n     == Len(times)
       IN  /\ elapsed' = clock[t] - times[n]
           /\ contexts' = [table EXCEPT
                             ![active[t]].times = SubSeq(@, 1, n - 1)]

-----------------------------------------------------------------------------
\* _start, called by the Python function of thread t that is going to return
\* into a profiled greenlet: the return event is noticed at once.
StartIn(t, m, table) ==
    /\ running' = TRUE
    /\ multi' = m
    /\ IF m
       THEN /\ profiled' = Thread
            /\ UNCHANGED initialCtx
            /\ contexts' = Noticed(table, t)
       ELSE /\ profiled' = IF AllThreads THEN Thread ELSE {t}
            /\ initialCtx' = active[t]
            /\ contexts' = Noticed([table EXCEPT ![active[t]] =
                                      ProfileThread(@, clock[t])], t)
    /\ prev' = PrevNoticed(t)
    /\ UNCHANGED <<clock, active, elapsed>>

Start(t, m) == ~running /\ StartIn(t, m, contexts)

Stop ==
    /\ running
    /\ running' = FALSE
    /\ profiled' = {}
    /\ UNCHANGED <<clock, active, contexts, prev, multi, initialCtx, elapsed>>

\* get_func_stats or get_greenlet_stats: _pause and _resume.  A thread that is
\* profiled has already delivered the event of this call.
Read(t) ==
    /\ running
    /\ t \in profiled => prev[t] = active[t]
    /\ StartIn(t, multi, contexts)

\* clear_stats of a profiler that does not run.  delete_tls_key and the next
\* create_tls_key leave no value in any thread.
Clear ==
    /\ ~running
    /\ contexts' = [g \in Greenlet |-> NoContext]
    /\ prev' = [t \in Thread |-> NoGreenlet]
    /\ initialCtx' = NoGreenlet
    /\ UNCHANGED <<clock, active, running, multi, profiled, elapsed>>

\* clear_stats by a thread of a profiler that runs: _pause, the above, _resume.
ClearRunning(t) ==
    /\ running
    /\ contexts' = [g \in Greenlet |->
                      IF g = active[t] THEN Created(NoContext, clock[t])
                      ELSE NoContext]
    /\ prev' = [u \in Thread |-> IF u = t THEN active[t] ELSE NoGreenlet]
    /\ profiled' = IF multi \/ AllThreads THEN Thread ELSE {t}
    /\ initialCtx' = IF multi THEN NoGreenlet ELSE active[t]
    /\ UNCHANGED <<clock, active, running, multi, elapsed>>

-----------------------------------------------------------------------------
Environment ==
    \/ \E t \in Thread : Tick(t)
    \/ \E t \in Thread, g \in Greenlet : Switch(t, g)

Events == \E t \in Thread : Look(t) \/ Call(t) \/ Return(t)

Next ==
    \/ Environment
    \/ Events
    \/ \E t \in Thread, m \in StartModes : Start(t, m)
    \/ \E t \in Thread : Read(t) \/ ClearRunning(t)
    \/ Stop
    \/ Clear

Spec == Init /\ [][Next]_vars

\* start(profile_greenlets=False) and the functions that resume such a profiler
\* are not called in a greenlet whose context is paused: _profile_thread would
\* end its pause without moving its time stamps.
KeepsPause(t, m) == m \/ ~contexts[active[t]].paused

NextKeepingPauses ==
    \/ Environment
    \/ Events
    \/ \E t \in Thread, m \in StartModes : KeepsPause(t, m) /\ Start(t, m)
    \/ \E t \in Thread : KeepsPause(t, multi) /\ Read(t)
    \/ \E t \in Thread : ClearRunning(t)
    \/ Stop
    \/ Clear

SpecKeepingPauses == Init /\ [][NextKeepingPauses]_vars

-----------------------------------------------------------------------------
\* The variables hold what their C types hold.
TypeOK ==
    /\ clock \in [Thread -> Nat]
    /\ active \in [Thread -> Greenlet]
    /\ contexts \in [Greenlet -> Context]
    /\ prev \in [Thread -> Greenlet \cup {NoGreenlet}]
    /\ running \in BOOLEAN
    /\ multi \in BOOLEAN
    /\ initialCtx \in Greenlet \cup {NoGreenlet}
    /\ profiled \subseteq Thread
    /\ elapsed \in Nat

\* Of the greenlets of a thread that have a context, all are paused but the one
\* whose event came last, whatever was started, stopped, read and cleared since.
AllPausedButLast ==
    \A g \in Greenlet :
        IF Known(g) THEN contexts[g].paused <=> prev[ThreadOf[g]] # g
        ELSE ~contexts[g].paused /\ prev[ThreadOf[g]] # g

\* The time a context's stamps are compared with: now, or when it was paused.
Reading(g) ==
    IF contexts[g].paused THEN contexts[g].pausedAt ELSE clock[ThreadOf[g]]
Ages(g) == [i \in 1..Len(contexts[g].times) |->
              Reading(g) - contexts[g].times[i]]

Promised == INSTANCE GreenletTimes WITH
    seen <- prev,
    ages <- [g \in Greenlet |-> Ages(g)]

\* Each call of a greenlet is charged the time for which its greenlet was the
\* one seen running, and none of the time of the greenlets that ran in between.
ChargesOwnTime == Promised!Spec
=============================================================================
