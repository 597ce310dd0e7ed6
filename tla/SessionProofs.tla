---------------------------- MODULE SessionProofs ----------------------------
(***************************************************************************)
(* Proofs about Session: every event is recorded in the context of its own *)
(* thread; the profiler runs just if asked and with its tables; a running  *)
(* profiler profiles every thread, and with profile_threads=False only the *)
(* thread that called start(); no table is freed under an event, and none  *)
(* disturbed while it is read; and every variable keeps its type.          *)
(***************************************************************************)
EXTENDS Session, FiniteSetTheorems, SequenceTheorems, TLAPS

\* A stage of an event of thread t holds on to a context of t.
Own(t, e) ==
    e.at \in {"in", "after"} /\ e.which \in {"name", "tag"} => e.saved.id = CtxId(t)

\* The inductive invariant.  Contexts saved across a callback are the thread's
\* own; the thread that goes on after a callback is alone in C code, and
\* current_ctx is the context that it had saved.
OwnInv ==
    /\ DOMAIN event = Thread
    /\ \A t \in Thread : Own(t, event[t])
    /\ \A t \in Thread : event[t].at = "after" => current = event[t].saved
    /\ \A t, u \in LockHolder : t = u
    /\ ChargedToOwnContext

\* How far an event of thread t gets in a stretch of C code: no further than
\* the next callback, with at most one record, in the context of t.
Stretch(t) ==
    /\ \E e : Advance(t, e) /\ Own(t, e) /\ e.at # "after"
    /\ charged' = charged \/ charged' = charged \cup {<<t, CtxId(t)>>}

LEMMA OwnInvInit == Init => OwnInv
  BY DEF Init, OwnInv, Own, Idle, LockHolder, ChargedToOwnContext

\* The invariant is kept by a stretch of a thread that holds the lock.
LEMMA StretchKeeps ==
    ASSUME OwnInv, NEW t \in Thread, Stretch(t), LockHolder \subseteq {t},
           settings' = settings
    PROVE  OwnInv'
<1>1. PICK e : Advance(t, e) /\ Own(t, e) /\ e.at # "after"
  BY DEF Stretch
<1>2. event' = [event EXCEPT ![t] = e] /\ DOMAIN event = Thread
  BY <1>1 DEF Advance, OwnInv
<1>3. DOMAIN event' = Thread /\ event'[t] = e
      /\ \A u \in Thread \ {t} : event'[u] = event[u]
  BY <1>2
<1>4. \A u : CtxId(u)' = CtxId(u)
  BY DEF CtxId, Multi, Callbacks
<1>5. ASSUME NEW u \in Thread PROVE event'[u].at # "after"
  BY <1>1, <1>3 DEF LockHolder
<1>6. LockHolder' = {}
  BY <1>5 DEF LockHolder
<1>7. ASSUME NEW u \in Thread PROVE Own(u, event[u])'
  BY <1>1, <1>3, <1>4 DEF Own, OwnInv
<1>8. ChargedToOwnContext'
  BY <1>4 DEF Stretch, ChargedToOwnContext, OwnInv
<1> QED
  BY <1>3, <1>5, <1>6, <1>7, <1>8 DEF OwnInv

\* The invariant is kept by a step that leaves events and records alone; only a
\* thread that holds the lock sets current_ctx.
LEMMA ElsewhereKeeps ==
    ASSUME OwnInv, UNCHANGED <<settings, event, charged>>,
           current' = current \/ LockHolder = {}
    PROVE  OwnInv'
<1>1. \A u : CtxId(u)' = CtxId(u)
  BY DEF CtxId, Multi, Callbacks
<1>2. LockHolder' = LockHolder
  BY DEF LockHolder
<1>3. ASSUME NEW u \in Thread, event'[u].at = "after" PROVE current' = event'[u].saved
  BY <1>3 DEF LockHolder, OwnInv
<1>4. ASSUME NEW u \in Thread PROVE Own(u, event[u])'
  BY <1>1 DEF Own, OwnInv
<1>5. ChargedToOwnContext'
  BY <1>1 DEF ChargedToOwnContext, OwnInv
<1> QED
  BY <1>2, <1>3, <1>4, <1>5 DEF OwnInv

-----------------------------------------------------------------------------
(* The stretches of _yapp_callback. *)

LEMMA CallbackFields ==
    ASSUME NEW which, NEW call, NEW ctx
    PROVE  /\ InCallback(which, call).at = "in"
           /\ InCallback(which, call).which = which
           /\ [InCallback(which, call) EXCEPT !.saved = ctx].at = "in"
           /\ [InCallback(which, call) EXCEPT !.saved = ctx].which = which
           /\ [InCallback(which, call) EXCEPT !.saved = ctx].saved = ctx
  BY DEF InCallback

\* An event that waits for a name or a tag has saved its own context.
LEMMA AsksWithContext ==
    ASSUME NEW t, NEW which, NEW call, NEW ctx, ctx.id = CtxId(t),
           Advance(t, [InCallback(which, call) EXCEPT !.saved = ctx]),
           UNCHANGED charged
    PROVE  Stretch(t)
<1> DEFINE e == [InCallback(which, call) EXCEPT !.saved = ctx]
<1>1. Own(t, e) /\ e.at # "after"
  BY CallbackFields DEF Own
<1> HIDE DEF e
<1>2. Advance(t, e)
  BY DEF e
<1> QED
  BY <1>1, <1>2 DEF Stretch

\* An event that waits for an id has no context yet.
LEMMA AsksForId ==
    ASSUME NEW t, NEW which, NEW call, which \notin {"name", "tag"},
           Advance(t, InCallback(which, call)), UNCHANGED charged
    PROVE  Stretch(t)
<1>1. Own(t, InCallback(which, call)) /\ InCallback(which, call).at # "after"
  BY CallbackFields DEF Own
<1> QED
  BY <1>1 DEF Stretch

\* An event is over, or its tables are gone.
LEMMA EventEnds ==
    ASSUME NEW t, Advance(t, Idle) \/ Advance(t, Fault),
           charged' = charged \/ charged' = charged \cup {<<t, CtxId(t)>>}
    PROVE  Stretch(t)
<1>1. Own(t, Idle) /\ Idle.at # "after" /\ Own(t, Fault) /\ Fault.at # "after"
  BY DEF Own, Idle, Fault
<1> QED
  BY <1>1 DEF Stretch

LEMMA RecordStretch ==
    ASSUME NEW t, NEW ctx, ctx.id = CtxId(t), Record(t, ctx)
    PROVE  Stretch(t)
  BY EventEnds DEF Record

LEMMA TagAndRecordStretch ==
    ASSUME NEW t, NEW ctx, NEW call, ctx.id = CtxId(t), TagAndRecord(t, ctx, call)
    PROVE  Stretch(t)
<1>1. CASE call /\ "tag" \in Callbacks
  BY <1>1, AsksWithContext DEF TagAndRecord
<1>2. CASE ~(call /\ "tag" \in Callbacks)
  BY <1>2, RecordStretch DEF TagAndRecord
<1> QED
  BY <1>1, <1>2

LEMMA HaveContextStretch ==
    ASSUME NEW t, NEW table, NEW call, HaveContext(t, table, call)
    PROVE  Stretch(t)
<1> DEFINE ctx == Ref(CtxId(t))
<1>1. ctx.id = CtxId(t)
  BY DEF Ref
<1> HIDE DEF ctx
<1>2. \/ Advance(t, Idle) /\ UNCHANGED charged
      \/ Advance(t, [InCallback("name", call) EXCEPT !.saved = ctx])
           /\ UNCHANGED charged
      \/ TagAndRecord(t, ctx, call)
  BY DEF HaveContext, ctx
<1> QED
  BY <1>1, <1>2, EventEnds, AsksWithContext, TagAndRecordStretch

LEMMA TablesMissingStretch ==
    ASSUME NEW t, TablesMissing(t) PROVE Stretch(t)
  BY EventEnds DEF TablesMissing

LEMMA ProfileThreadStretch ==
    ASSUME NEW t, NEW call, ProfileThread(t, call) PROVE Stretch(t)
  BY TablesMissingStretch, HaveContextStretch DEF ProfileThread

LEMMA Thread2CtxStretch ==
    ASSUME NEW t, NEW call, Thread2Ctx(t, call) PROVE Stretch(t)
<1>1. \/ TablesMissing(t)
      \/ HaveContext(t, contexts, call)
      \/ Advance(t, InCallback("id_again", call)) /\ UNCHANGED charged
      \/ ProfileThread(t, call)
  BY DEF Thread2Ctx
<1> QED
  BY <1>1, TablesMissingStretch, HaveContextStretch, ProfileThreadStretch, AsksForId

-----------------------------------------------------------------------------
(* The actions. *)

LEMMA EventBeginsKeeps ==
    ASSUME OwnInv, NEW t \in Thread, NEW call, EventBegins(t, call)
    PROVE  OwnInv'
<1>1. Stretch(t)
  <2>1. \/ Advance(t, InCallback("id", call)) /\ UNCHANGED charged
        \/ Thread2Ctx(t, call)
    BY DEF EventBegins
  <2> QED
    BY <2>1, AsksForId, Thread2CtxStretch
<1>2. LockHolder \subseteq {t} /\ settings' = settings
  BY DEF EventBegins, MayRun, EventUnchanged, flags
<1> QED
  BY <1>1, <1>2, StretchKeeps

LEMMA HookBeginsKeeps ==
    ASSUME OwnInv, NEW t \in Thread, NEW call, HookBegins(t, call)
    PROVE  OwnInv'
<1>1. Own(t, Hooked(call)) /\ Hooked(call).at # "after"
  BY DEF Own, Hooked
<1>2. Advance(t, Hooked(call)) /\ UNCHANGED charged
  BY DEF HookBegins
<1>3. Stretch(t)
  BY <1>1, <1>2 DEF Stretch
<1>4. LockHolder \subseteq {t} /\ settings' = settings
  BY DEF HookBegins, MayRun, EventUnchanged, flags
<1> QED
  BY <1>3, <1>4, StretchKeeps

LEMMA ProfileEventKeeps ==
    ASSUME OwnInv, NEW t \in Thread, ProfileEvent(t)
    PROVE  OwnInv'
<1> DEFINE call == event[t].call
<1>1. Stretch(t)
  <2>1. \/ Advance(t, InCallback("id", call)) /\ UNCHANGED charged
        \/ Advance(t, InCallback("hook_id", call)) /\ UNCHANGED charged
        \/ Thread2Ctx(t, call)
        \/ ProfileThread(t, call)
    BY DEF ProfileEvent
  <2> HIDE DEF call
  <2> QED
    BY <2>1, AsksForId, Thread2CtxStretch, ProfileThreadStretch
<1>2. LockHolder \subseteq {t} /\ settings' = settings
  BY DEF ProfileEvent, MayRun, EventUnchanged, flags
<1> QED
  BY <1>1, <1>2, StretchKeeps

\* A callback returns: its thread is the only one in C code, and current_ctx is
\* what it was when the callback was called.
LEMMA CallbackReturnsKeeps ==
    ASSUME OwnInv, NEW t \in Thread, CallbackReturns(t)
    PROVE  OwnInv'
<1>1. /\ LockHolder \subseteq {t} /\ event[t].at = "in"
      /\ event' = [event EXCEPT ![t] = [event[t] EXCEPT !.at = "after"]]
      /\ current' = event[t].saved
      /\ charged' = charged /\ settings' = settings
  BY DEF CallbackReturns, MayRun, Advance, RestoreContext, EventUnchanged, flags
<1>2. /\ event'[t] = [event[t] EXCEPT !.at = "after"]
      /\ DOMAIN event' = Thread
      /\ \A u \in Thread \ {t} : event'[u] = event[u] /\ event[u].at # "after"
  BY <1>1 DEF OwnInv, LockHolder
<1>3. event'[t].at = "after" /\ event'[t].saved = event[t].saved
      /\ event'[t].which = event[t].which
  BY <1>1, <1>2
<1>4. LockHolder' \subseteq {t}
  BY <1>2 DEF LockHolder
<1>5. \A u : CtxId(u)' = CtxId(u)
  BY <1>1 DEF CtxId, Multi, Callbacks
<1>6. ASSUME NEW u \in Thread PROVE Own(u, event[u])'
  BY <1>1, <1>2, <1>3, <1>5 DEF Own, OwnInv
<1>7. ASSUME NEW u \in Thread, event'[u].at = "after" PROVE current' = event'[u].saved
  BY <1>1, <1>2, <1>3, <1>7
<1>8. ChargedToOwnContext'
  BY <1>1, <1>5 DEF ChargedToOwnContext, OwnInv
<1> QED
  BY <1>2, <1>4, <1>6, <1>7, <1>8 DEF OwnInv

LEMMA EventContinuesKeeps ==
    ASSUME OwnInv, NEW t \in Thread, EventContinues(t)
    PROVE  OwnInv'
<1>1. /\ LockHolder \subseteq {t} /\ settings' = settings
      /\ event[t].at = "after" /\ current = event[t].saved
      /\ event[t].which \in {"name", "tag"} => current.id = CtxId(t)
  BY DEF EventContinues, MayRun, EventUnchanged, flags, OwnInv, Own
<1> DEFINE call == event[t].call
<1>2. Stretch(t)
  <2>1. CASE AfterId(t)
    BY <2>1, Thread2CtxStretch DEF AfterId
  <2>2. CASE AfterIdAgain(t)
    BY <2>2, ProfileThreadStretch DEF AfterIdAgain
  <2>3. CASE AfterHookId(t)
    <3>1. \/ TablesMissing(t)
          \/ Advance(t, InCallback("id", call)) /\ UNCHANGED charged
      BY <2>3 DEF AfterHookId
    <3> QED
      BY <3>1, TablesMissingStretch, AsksForId
  <2>4. CASE AfterName(t)
    <3>1. current.id = CtxId(t)
      BY <1>1, <2>4 DEF AfterName
    <3>2. \/ TagAndRecord(t, current, call)
          \/ Advance(t, Fault) /\ UNCHANGED charged
      BY <2>4 DEF AfterName
    <3> QED
      BY <3>1, <3>2, TagAndRecordStretch, EventEnds
  <2>5. CASE AfterTag(t)
    <3>1. current.id = CtxId(t)
      BY <1>1, <2>5 DEF AfterTag
    <3>2. \/ Record(t, current)
          \/ Advance(t, Fault) /\ UNCHANGED charged
      BY <2>5 DEF AfterTag
    <3> QED
      BY <3>1, <3>2, RecordStretch, EventEnds
  <2> QED
    BY <2>1, <2>2, <2>3, <2>4, <2>5 DEF EventContinues
<1> QED
  BY <1>1, <1>2, StretchKeeps

\* A thread at a step of a Python function is in no event, so that no thread is
\* in C code when it has the lock.
LEMMA NobodyInC ==
    ASSUME NEW t \in Thread, MayRun(t), event[t] = Idle
    PROVE  LockHolder = {}
  BY DEF MayRun, LockHolder, Idle

LEMMA APIStepKeeps ==
    ASSUME OwnInv, NEW t \in Caller, APIStep(t)
    PROVE  OwnInv'
<1>1. t \in Thread
  BY SessionAssumption
<1>2. CASE SetHook(t) \/ UnsetHook(t) \/ Start(t) \/ Stop(t) \/ Pause(t)
             \/ Resume(t) \/ Clear(t) \/ Enumerate(t)
  <2>1. NextStep(t, "hook") \/ NextStep(t, "unhook") \/ NextStep(t, "start")
        \/ NextStep(t, "stop") \/ NextStep(t, "pause") \/ NextStep(t, "resume")
        \/ NextStep(t, "clear") \/ NextStep(t, "enumerate")
    BY <1>2 DEF SetHook, UnsetHook, Start, Stop, Pause, Resume, Clear, Enumerate
  <2>2. Unhindered(t)
    BY <1>2 DEF SetHook, UnsetHook, Start, Stop, Pause, Resume, Clear, Enumerate
  <2>3. LockHolder = {}
    BY <1>1, <2>1, <2>2, NobodyInC DEF NextStep, Unhindered
  <2>4. UNCHANGED <<settings, event, charged>>
    BY <2>2 DEF Unhindered
  <2> QED
    BY <2>3, <2>4, ElsewhereKeeps
<1>3. CASE WaitEnds(t)
  BY <1>3, ElsewhereKeeps DEF WaitEnds, flags, history
<1>4. CASE Enumerated(t)
  <2>1. LockHolder \subseteq {t} /\ settings' = settings
    BY <1>4 DEF Enumerated, MayRun, flags
  <2>2. Stretch(t)
    BY <1>4, EventEnds DEF Enumerated, history
  <2> QED
    BY <1>1, <2>1, <2>2, StretchKeeps
<1> QED
  BY <1>2, <1>3, <1>4 DEF APIStep

LEMMA OwnInvStep == OwnInv /\ [Next]_vars => OwnInv'
<1> SUFFICES ASSUME OwnInv, [Next]_vars PROVE OwnInv'
  OBVIOUS
<1>1. ASSUME NEW t \in Thread, ThreadStarts(t) PROVE OwnInv'
  BY <1>1, ElsewhereKeeps DEF ThreadStarts, flags, history
<1>2. ASSUME NEW t \in Thread, NEW call \in BOOLEAN,
             EventBegins(t, call) \/ HookBegins(t, call)
      PROVE  OwnInv'
  BY <1>2, EventBeginsKeeps, HookBeginsKeeps
<1>3. ASSUME NEW t \in Thread, EventStep(t) PROVE OwnInv'
  BY <1>3, ProfileEventKeeps, CallbackReturnsKeeps, EventContinuesKeeps DEF EventStep
<1>4. ASSUME NEW t \in Caller, NEW f \in Calls, CallAPI(t, f) PROVE OwnInv'
  BY <1>4, ElsewhereKeeps DEF CallAPI, flags
<1>5. ASSUME NEW t \in Caller, APIStep(t) PROVE OwnInv'
  BY <1>5, APIStepKeeps
<1>6. CASE UNCHANGED vars
  BY <1>6, ElsewhereKeeps DEF vars, flags, history
<1> QED
  BY <1>1, <1>2, <1>3, <1>4, <1>5, <1>6 DEF Next

\* Whatever threads, callers and callbacks there are, every event is recorded
\* in the context of the thread that delivers it (_call_funcobjargs restores
\* current_ctx after every callback).
THEOREM ChargedCorrectly == Spec => []ChargedToOwnContext
<1>1. OwnInv => ChargedToOwnContext
  BY DEF OwnInv
<1> QED
  BY <1>1, OwnInvInit, OwnInvStep, PTL DEF Spec

-----------------------------------------------------------------------------
(* One thread that calls the profiler's functions. *)

StepName == {"hook", "start", "stop", "unhook", "pause", "wait", "clear",
             "resume", "enumerate", "enumerated"}

\* Thread t has done the first k steps of function f.
Remains(t, f, k) ==
    /\ Len(todo[t]) = Len(Steps[f]) - k
    /\ \A i \in 1..Len(todo[t]) : todo[t][i] = Steps[f][i + k]

\* Between functions the flags say what was asked for; a function that has
\* paused keeps it in the flag of _pause.
Steady == ~paused /\ (running <=> wanted)
Held == ~running /\ (paused <=> wanted)

\* The numbers of steps of f after which the profiler is paused.
HeldAfter(f) ==
    CASE f = "clear_stats" -> 1..3
      [] f = "get_func_stats" -> 1..4
      [] f = "get_thread_stats" -> 1..3
      [] OTHER -> {}

FlagsFit(f, k) == IF k \in HeldAfter(f) THEN Held ELSE Steady

ControlInv(c) ==
    /\ todo \in [Thread -> Seq(StepName)]
    /\ running \in BOOLEAN /\ paused \in BOOLEAN /\ wanted \in BOOLEAN
    /\ \E f \in API, k \in Nat : Remains(c, f, k) /\ FlagsFit(f, k)
    /\ RunsOnTables

-----------------------------------------------------------------------------
(* The functions' steps. *)

\* What the step after the first k of f needs and leaves.
StepFits(f, k, step) ==
    \/ step = "pause" /\ k + 1 \in HeldAfter(f)
    \/ step = "resume" /\ k + 1 \notin HeldAfter(f)
    \/ /\ step \in {"wait", "clear", "enumerate", "enumerated"}
       /\ k \in HeldAfter(f) /\ k + 1 \in HeldAfter(f)
    \/ /\ step \in {"hook", "start", "stop", "unhook"}
       /\ k \notin HeldAfter(f) /\ k + 1 \notin HeldAfter(f)

LEMMA StepsFit ==
    ASSUME NEW f \in API
    PROVE  /\ Steps[f] \in Seq(StepName)
           /\ Len(Steps[f]) > 0
           /\ 0 \notin HeldAfter(f)
           /\ Len(Steps[f]) \notin HeldAfter(f)
           /\ \A k \in 0..(Len(Steps[f]) - 1) : StepFits(f, k, Steps[f][k + 1])
<1>1. CASE f = "start"
  <2>1. HeldAfter("start") = {}
    BY DEF HeldAfter
  <2>2. Steps["start"] = <<"hook", "start">>
    BY DEF Steps
  <2>3. Steps["start"] \in Seq(StepName) /\ Len(Steps["start"]) = 2
    BY <2>2 DEF StepName
  <2>4. StepFits("start", 0, Steps["start"][1])
    BY <2>1, <2>2 DEF StepFits
  <2>5. StepFits("start", 1, Steps["start"][2])
    BY <2>1, <2>2 DEF StepFits
  <2>6. \A k \in 0..1 : k = 0 \/ k = 1
    OBVIOUS
  <2> QED
    BY <1>1, <2>1, <2>3, <2>4, <2>5, <2>6
<1>2. CASE f = "stop"
  <2>1. HeldAfter("stop") = {}
    BY DEF HeldAfter
  <2>2. Steps["stop"] = <<"stop", "unhook">>
    BY DEF Steps
  <2>3. Steps["stop"] \in Seq(StepName) /\ Len(Steps["stop"]) = 2
    BY <2>2 DEF StepName
  <2>4. StepFits("stop", 0, Steps["stop"][1])
    BY <2>1, <2>2 DEF StepFits
  <2>5. StepFits("stop", 1, Steps["stop"][2])
    BY <2>1, <2>2 DEF StepFits
  <2>6. \A k \in 0..1 : k = 0 \/ k = 1
    OBVIOUS
  <2> QED
    BY <1>2, <2>1, <2>3, <2>4, <2>5, <2>6
<1>3. CASE f = "clear_stats"
  <2>1. HeldAfter("clear_stats") = 1..3
    BY DEF HeldAfter
  <2>2. Steps["clear_stats"] = <<"pause", "wait", "clear", "resume">>
    BY DEF Steps
  <2>3. Steps["clear_stats"] \in Seq(StepName) /\ Len(Steps["clear_stats"]) = 4
    BY <2>2 DEF StepName
  <2>4. StepFits("clear_stats", 0, Steps["clear_stats"][1])
    BY <2>1, <2>2 DEF StepFits
  <2>5. StepFits("clear_stats", 1, Steps["clear_stats"][2])
    BY <2>1, <2>2 DEF StepFits
  <2>6. StepFits("clear_stats", 2, Steps["clear_stats"][3])
    BY <2>1, <2>2 DEF StepFits
  <2>7. StepFits("clear_stats", 3, Steps["clear_stats"][4])
    BY <2>1, <2>2 DEF StepFits
  <2>8. \A k \in 0..3 : k = 0 \/ k = 1 \/ k = 2 \/ k = 3
    OBVIOUS
  <2> QED
    BY <1>3, <2>1, <2>3, <2>4, <2>5, <2>6, <2>7, <2>8
<1>4. CASE f = "get_func_stats"
  <2>1. HeldAfter("get_func_stats") = 1..4
    BY DEF HeldAfter
  <2>2. Steps["get_func_stats"] = <<"pause", "pause", "enumerate", "enumerated", "resume", "resume">>
    BY DEF Steps
  <2>3. Steps["get_func_stats"] \in Seq(StepName) /\ Len(Steps["get_func_stats"]) = 6
    BY <2>2 DEF StepName
  <2>4. StepFits("get_func_stats", 0, Steps["get_func_stats"][1])
    BY <2>1, <2>2 DEF StepFits
  <2>5. StepFits("get_func_stats", 1, Steps["get_func_stats"][2])
    BY <2>1, <2>2 DEF StepFits
  <2>6. StepFits("get_func_stats", 2, Steps["get_func_stats"][3])
    BY <2>1, <2>2 DEF StepFits
  <2>7. StepFits("get_func_stats", 3, Steps["get_func_stats"][4])
    BY <2>1, <2>2 DEF StepFits
  <2>8. StepFits("get_func_stats", 4, Steps["get_func_stats"][5])
    BY <2>1, <2>2 DEF StepFits
  <2>9. StepFits("get_func_stats", 5, Steps["get_func_stats"][6])
    BY <2>1, <2>2 DEF StepFits
  <2>10. \A k \in 0..5 : k = 0 \/ k = 1 \/ k = 2 \/ k = 3 \/ k = 4 \/ k = 5
    OBVIOUS
  <2> QED
    BY <1>4, <2>1, <2>3, <2>4, <2>5, <2>6, <2>7, <2>8, <2>9, <2>10
<1>5. CASE f = "get_thread_stats"
  <2>1. HeldAfter("get_thread_stats") = 1..3
    BY DEF HeldAfter
  <2>2. Steps["get_thread_stats"] = <<"pause", "enumerate", "enumerated", "resume">>
    BY DEF Steps
  <2>3. Steps["get_thread_stats"] \in Seq(StepName) /\ Len(Steps["get_thread_stats"]) = 4
    BY <2>2 DEF StepName
  <2>4. StepFits("get_thread_stats", 0, Steps["get_thread_stats"][1])
    BY <2>1, <2>2 DEF StepFits
  <2>5. StepFits("get_thread_stats", 1, Steps["get_thread_stats"][2])
    BY <2>1, <2>2 DEF StepFits
  <2>6. StepFits("get_thread_stats", 2, Steps["get_thread_stats"][3])
    BY <2>1, <2>2 DEF StepFits
  <2>7. StepFits("get_thread_stats", 3, Steps["get_thread_stats"][4])
    BY <2>1, <2>2 DEF StepFits
  <2>8. \A k \in 0..3 : k = 0 \/ k = 1 \/ k = 2 \/ k = 3
    OBVIOUS
  <2> QED
    BY <1>5, <2>1, <2>3, <2>4, <2>5, <2>6, <2>7, <2>8
<1> QED
  BY <1>1, <1>2, <1>3, <1>4, <1>5 DEF API

\* A function's step is done: one more of its steps has been done.
LEMMA StepDone ==
    ASSUME NEW c \in Thread, ControlInv(c), NEW step, NextStep(c, step)
    PROVE  /\ todo' \in [Thread -> Seq(StepName)]
           /\ \E f \in API, k \in Nat :
                 Remains(c, f, k + 1)' /\ StepFits(f, k, step) /\ FlagsFit(f, k)
<1>1. PICK f \in API, k \in Nat : Remains(c, f, k) /\ FlagsFit(f, k)
  BY DEF ControlInv
<1>2. /\ todo[c] \in Seq(StepName) /\ todo[c] # <<>> /\ Head(todo[c]) = step
      /\ todo' = [todo EXCEPT ![c] = Tail(todo[c])]
      /\ todo \in [Thread -> Seq(StepName)]
  BY DEF NextStep, ControlInv
<1>3. /\ Len(todo[c]) \in Nat \ {0} /\ Head(todo[c]) = todo[c][1]
      /\ Tail(todo[c]) \in Seq(StepName) /\ Len(Tail(todo[c])) = Len(todo[c]) - 1
      /\ \A i \in 1..(Len(todo[c]) - 1) : Tail(todo[c])[i] = todo[c][i + 1]
  BY <1>2
<1>4. todo' \in [Thread -> Seq(StepName)] /\ todo'[c] = Tail(todo[c])
  BY <1>2, <1>3
<1>5. Steps[f] \in Seq(StepName) /\ Len(Steps[f]) \in Nat
  BY StepsFit
<1>6. step = Steps[f][k + 1] /\ k \in 0..(Len(Steps[f]) - 1)
  BY <1>1, <1>2, <1>3, <1>5 DEF Remains
<1>7. StepFits(f, k, step)
  BY <1>6, StepsFit
<1>8. Remains(c, f, k + 1)'
  <2>1. Len(todo'[c]) = Len(Steps[f]) - (k + 1)
    BY <1>1, <1>3, <1>4, <1>5 DEF Remains
  <2>2. ASSUME NEW i \in 1..Len(todo'[c]) PROVE todo'[c][i] = Steps[f][i + (k + 1)]
    <3>1. todo'[c][i] = todo[c][i + 1] /\ i + 1 \in 1..Len(todo[c])
      BY <1>3, <1>4
    <3>2. (i + 1) + k = i + (k + 1)
      OBVIOUS
    <3> QED
      BY <1>1, <3>1, <3>2 DEF Remains
  <2> QED
    BY <2>1, <2>2 DEF Remains
<1> QED
  BY <1>1, <1>4, <1>7, <1>8
-----------------------------------------------------------------------------
(* The flags. *)

Flags == <<todo, running, paused, wanted, initialized, haveStats>>

LEMMA ControlFrame ==
    ASSUME NEW c, ControlInv(c), UNCHANGED Flags
    PROVE  ControlInv(c)'
  BY DEF ControlInv, Flags, Remains, FlagsFit, Held, Steady, RunsOnTables

LEMMA ControlInit == ASSUME NEW c \in Thread, Init PROVE ControlInv(c)
<1>1. todo \in [Thread -> Seq(StepName)] /\ Len(todo[c]) = 0
  BY DEF Init
<1>2. Steps["start"] = <<"hook", "start">> /\ Len(Steps["start"]) = 2
  BY DEF Steps
<1>3. Remains(c, "start", 2)
  BY <1>1, <1>2 DEF Remains
<1>4. 2 \notin HeldAfter("start")
  BY StepsFit, <1>2 DEF API
<1>5. FlagsFit("start", 2) /\ RunsOnTables
  BY <1>4 DEF Init, FlagsFit, Steady, RunsOnTables
<1> QED
  BY <1>1, <1>3, <1>5 DEF ControlInv, Init, API

\* A step whose effect on the flags suits its place in the function.
LEMMA ControlStepDone ==
    ASSUME NEW c \in Thread, ControlInv(c), NEW step, NextStep(c, step),
           running' \in BOOLEAN, paused' \in BOOLEAN, wanted' \in BOOLEAN,
           RunsOnTables',
           step = "pause" => Held',
           step = "resume" => Steady',
           step \in {"wait", "clear", "enumerate", "enumerated"} /\ Held => Held',
           step \in {"hook", "start", "stop", "unhook"} /\ Steady => Steady'
    PROVE  ControlInv(c)'
<1>1. todo' \in [Thread -> Seq(StepName)]
  BY StepDone
<1>2. PICK f \in API, k \in Nat :
         Remains(c, f, k + 1)' /\ StepFits(f, k, step) /\ FlagsFit(f, k)
  BY StepDone
<1>3. FlagsFit(f, k + 1)'
  BY <1>2 DEF StepFits, FlagsFit
<1>4. k + 1 \in Nat
  OBVIOUS
<1> QED
  BY <1>1, <1>2, <1>3, <1>4 DEF ControlInv

\* What a step finds: a function that clears or reads has paused, one that
\* starts or stops has not.
LEMMA StepFinds ==
    ASSUME NEW c \in Thread, ControlInv(c), NEW step, NextStep(c, step)
    PROVE  /\ Held \/ Steady
           /\ step \in {"clear", "enumerate", "enumerated"} => Held
           /\ step \in {"start", "stop"} => Steady
<1>1. PICK f \in API, k \in Nat : StepFits(f, k, step) /\ FlagsFit(f, k)
  BY StepDone
<1> QED
  BY <1>1 DEF StepFits, FlagsFit

LEMMA ControlAPI ==
    ASSUME NEW c \in Thread, ControlInv(c), APIStep(c)
    PROVE  ControlInv(c)'
<1> USE DEF Unhindered, flags, history
<1>1. CASE SetHook(c)
  BY <1>1, ControlStepDone DEF SetHook, ControlInv, RunsOnTables, Steady
<1>2. CASE UnsetHook(c)
  BY <1>2, ControlStepDone DEF UnsetHook, ControlInv, RunsOnTables, Steady
<1>3. CASE Start(c)
  <2>1. NextStep(c, "start") /\ Steady
    BY <1>3, StepFinds DEF Start
  <2>2. running' = TRUE /\ wanted' = TRUE /\ paused' = paused /\ RunsOnTables'
    BY <1>3 DEF Start, AlreadyStarted, StartProfiler, InitProfiler, ControlInv,
                RunsOnTables
  <2> QED
    BY <2>1, <2>2, ControlStepDone DEF Steady, ControlInv
<1>4. CASE Stop(c)
  <2>1. NextStep(c, "stop") /\ Steady
    BY <1>4, StepFinds DEF Stop
  <2>2. running' = FALSE /\ wanted' = FALSE /\ paused' = paused
    BY <1>4 DEF Stop, StopProfiler
  <2> QED
    BY <2>1, <2>2, ControlStepDone DEF Steady, ControlInv, RunsOnTables
<1>5. CASE Pause(c)
  <2>1. NextStep(c, "pause") /\ (Held \/ Steady)
    BY <1>5, StepFinds DEF Pause
  <2>2. running' = FALSE /\ wanted' = wanted /\ paused' = (paused \/ running)
    BY <1>5 DEF Pause, StopProfiler, PausedFlag
  <2> QED
    BY <2>1, <2>2, ControlStepDone DEF Steady, Held, ControlInv, RunsOnTables
<1>6. CASE Resume(c)
  <2>1. NextStep(c, "resume") /\ (Held \/ Steady)
    BY <1>6, StepFinds DEF Resume
  <2>2. /\ paused' = FALSE /\ wanted' = wanted
        /\ running' = (running \/ paused) /\ RunsOnTables'
    BY <1>6 DEF Resume, AlreadyStarted, StartProfiler, InitProfiler, ControlInv,
                RunsOnTables
  <2> QED
    BY <2>1, <2>2, ControlStepDone DEF Steady, Held, ControlInv
<1>7. CASE WaitEnds(c)
  BY <1>7, ControlStepDone DEF WaitEnds, ControlInv, RunsOnTables, Held
<1>8. CASE Clear(c)
  <2>1. NextStep(c, "clear") /\ Held
    BY <1>8, StepFinds DEF Clear
  <2>2. UNCHANGED <<running, wanted, paused>>
    BY <1>8 DEF Clear
  <2> QED
    BY <2>1, <2>2, ControlStepDone DEF Held, ControlInv, RunsOnTables
<1>9. CASE Enumerate(c)
  BY <1>9, ControlStepDone DEF Enumerate, ControlInv, RunsOnTables, Held
<1>10. CASE Enumerated(c)
  BY <1>10, ControlStepDone DEF Enumerated, ControlInv, RunsOnTables, Held
<1> QED
  BY <1>1, <1>2, <1>3, <1>4, <1>5, <1>6, <1>7, <1>8, <1>9, <1>10 DEF APIStep

\* A function is called: the last one has done all its steps.
LEMMA ControlCall ==
    ASSUME NEW c \in Thread, ControlInv(c), NEW f \in Calls, CallAPI(c, f)
    PROVE  ControlInv(c)'
<1>1. f \in API
  BY SessionAssumption
<1>2. PICK g \in API, k \in Nat : Remains(c, g, k) /\ FlagsFit(g, k)
  BY DEF ControlInv
<1>3. /\ todo[c] = <<>> /\ todo' = [todo EXCEPT ![c] = Steps[f]]
      /\ UNCHANGED <<running, paused, wanted, initialized, haveStats>>
  BY DEF CallAPI, flags
<1>4. Len(Steps[g]) \in Nat /\ Len(Steps[f]) \in Nat /\ Steps[f] \in Seq(StepName)
  BY <1>1, StepsFit
<1>5. Steady
  <2>1. k = Len(Steps[g])
    BY <1>2, <1>3, <1>4 DEF Remains
  <2> QED
    BY <1>2, <2>1, StepsFit DEF FlagsFit
<1>6. todo' \in [Thread -> Seq(StepName)] /\ todo'[c] = Steps[f]
  BY <1>3, <1>4 DEF ControlInv
<1>7. Remains(c, f, 0)'
  BY <1>4, <1>6 DEF Remains
<1>8. FlagsFit(f, 0)'
  BY <1>1, <1>3, <1>5, StepsFit DEF FlagsFit, Steady
<1> QED
  BY <1>1, <1>3, <1>6, <1>7, <1>8 DEF ControlInv, RunsOnTables

LEMMA ControlStep ==
    ASSUME NEW c \in Thread, Caller = {c}, ControlInv(c), [Next]_vars
    PROVE  ControlInv(c)'
<1>1. ASSUME NEW t \in Thread, ThreadStarts(t) PROVE ControlInv(c)'
  BY <1>1, ControlFrame DEF ThreadStarts, Flags, flags, history
<1>2. ASSUME EventUnchanged PROVE ControlInv(c)'
  BY <1>2, ControlFrame DEF EventUnchanged, Flags, flags
<1>3. ASSUME NEW t \in Thread, NEW call \in BOOLEAN,
             EventBegins(t, call) \/ HookBegins(t, call)
      PROVE  ControlInv(c)'
  BY <1>2, <1>3 DEF EventBegins, HookBegins
<1>4. ASSUME NEW t \in Thread, EventStep(t) PROVE ControlInv(c)'
  BY <1>2, <1>4 DEF EventStep, ProfileEvent, CallbackReturns, EventContinues
<1>5. ASSUME NEW f \in Calls, CallAPI(c, f) PROVE ControlInv(c)'
  BY <1>5, ControlCall
<1>6. CASE APIStep(c)
  BY <1>6, ControlAPI
<1>7. CASE UNCHANGED vars
  BY <1>7, ControlFrame DEF vars, Flags, flags, history
<1> QED
  BY <1>1, <1>3, <1>4, <1>5, <1>6, <1>7 DEF Next

\* At rest the flags are steady.
LEMMA ControlAtRest ==
    ASSUME NEW c \in Thread, ControlInv(c)
    PROVE  RunsOnTables /\ RunsAsAsked
<1>1. PICK g \in API, k \in Nat : Remains(c, g, k) /\ FlagsFit(g, k)
  BY DEF ControlInv
<1>2. ASSUME todo[c] = <<>> PROVE Steady
  <2>1. k = Len(Steps[g])
    BY <1>1, <1>2, StepsFit DEF Remains
  <2> QED
    BY <1>1, <2>1, StepsFit DEF FlagsFit
<1> QED
  BY <1>2 DEF RunsAsAsked, AtRest, Steady, ControlInv

\* If one thread calls the profiler's functions, then, whatever events and
\* callbacks come in between, the profiler runs just if the last of start() and
\* stop() was start(): pausing and resuming, nested in get_func_stats, neither
\* lose a session nor revive one.
THEOREM OneCallerControls ==
    ASSUME NEW c \in Thread, Caller = {c}
    PROVE  Spec => []RunsAsAsked
<1>1. Init => ControlInv(c)
  BY ControlInit
<1>2. ControlInv(c) /\ [Next]_vars => ControlInv(c)'
  BY ControlStep
<1>3. ControlInv(c) => RunsAsAsked
  BY ControlAtRest
<1> QED
  BY <1>1, <1>2, <1>3, PTL DEF Spec

\* Nor does it ever run without its tables: clear_stats frees them only while it
\* is paused, and _resume makes them again.  (Another caller could start the
\* profiler between the _pause and the clear.)
THEOREM OneCallerKeepsTables ==
    ASSUME NEW c \in Thread, Caller = {c}
    PROVE  Spec => []RunsOnTables
<1>1. Init => ControlInv(c)
  BY ControlInit
<1>2. ControlInv(c) /\ [Next]_vars => ControlInv(c)'
  BY ControlStep
<1>3. ControlInv(c) => RunsOnTables
  BY ControlAtRest
<1> QED
  BY <1>1, <1>2, <1>3, PTL DEF Spec
-----------------------------------------------------------------------------
(* Events, if no id callback is installed and no thread has the hook of the  *)
(* threading module as its profile function.                                 *)

\* Of the stages of an event only the installed callbacks for names and tags are
\* left.
Quiet(e) ==
    \/ e.at \in {"none", "fault"}
    \/ e.at \in {"in", "after"} /\ e.which \in {"name", "tag"} \cap Callbacks

QuietEvents ==
    /\ DOMAIN event = Thread
    /\ prof \in [Thread -> {"none", "c"}]
    /\ \A t \in Thread : Quiet(event[t])

Busy(t) == prof[t] = "c" \/ event[t].at \in {"in", "after"}

\* What an event does: thread t goes on to the next callback or to the end, and
\* its profile function is set only if it was.
Delivers(t) ==
    /\ \E e : Advance(t, e) /\ Quiet(e)
    /\ charged' = charged \/ charged' = charged \cup {<<t, CtxId(t)>>}
    /\ prof' = prof \/ (prof[t] = "c" /\ prof' = SetProfile(t))

LEMMA QuietStages ==
    ASSUME NEW which \in {"name", "tag"} \cap Callbacks, NEW call, NEW ctx
    PROVE  Quiet([InCallback(which, call) EXCEPT !.saved = ctx])
  BY CallbackFields DEF Quiet

LEMMA QuietEnds == Quiet(Idle) /\ Quiet(Fault)
  BY DEF Quiet, Idle, Fault

LEMMA QuietTagAndRecord ==
    ASSUME NEW t, NEW ctx, NEW call, TagAndRecord(t, ctx, call)
    PROVE  \E e : Advance(t, e) /\ Quiet(e)
<1>1. \/ /\ "tag" \in Callbacks
         /\ Advance(t, [InCallback("tag", call) EXCEPT !.saved = ctx])
      \/ Advance(t, Idle)
  BY DEF TagAndRecord, Record
<1> QED
  BY <1>1, QuietStages, QuietEnds

LEMMA QuietHaveContext ==
    ASSUME NEW t, NEW table, NEW call, HaveContext(t, table, call)
    PROVE  \E e : Advance(t, e) /\ Quiet(e)
<1> DEFINE ctx == Ref(CtxId(t))
<1>1. \/ Advance(t, Idle)
      \/ /\ "name" \in Callbacks
         /\ Advance(t, [InCallback("name", call) EXCEPT !.saved = ctx])
      \/ TagAndRecord(t, ctx, call)
  BY DEF HaveContext
<1> HIDE DEF ctx
<1> QED
  BY <1>1, QuietStages, QuietEnds, QuietTagAndRecord

LEMMA QuietMissing ==
    ASSUME NEW t, TablesMissing(t)
    PROVE  (\E e : Advance(t, e) /\ Quiet(e)) /\ prof' = prof
  BY QuietEnds DEF TablesMissing

LEMMA QuietProfileThread ==
    ASSUME NEW t, NEW call, ProfileThread(t, call)
    PROVE  /\ \E e : Advance(t, e) /\ Quiet(e)
           /\ prof' = prof \/ prof' = SetProfile(t)
  BY QuietMissing, QuietHaveContext DEF ProfileThread

LEMMA QuietThread2Ctx ==
    ASSUME NEW t, NEW call, "id" \notin Callbacks, Thread2Ctx(t, call)
    PROVE  /\ \E e : Advance(t, e) /\ Quiet(e)
           /\ prof' = prof \/ prof' = SetProfile(t)
<1>1. \/ TablesMissing(t)
      \/ HaveContext(t, contexts, call) /\ UNCHANGED prof
      \/ ProfileThread(t, call)
  BY DEF Thread2Ctx
<1> QED
  BY <1>1, QuietMissing, QuietHaveContext, QuietProfileThread

\* Every event of a thread is such a step of a thread that is profiled or has
\* come back from a callback.
LEMMA EventDelivers ==
    ASSUME QuietEvents, OwnInv, "id" \notin Callbacks, NEW t \in Thread, NEW call,
           EventBegins(t, call) \/ HookBegins(t, call) \/ EventStep(t)
    PROVE  Delivers(t) /\ Busy(t) /\ EventUnchanged
<1>1. CASE EventBegins(t, call)
  <2>1. Thread2Ctx(t, call) /\ prof[t] = "c" /\ EventUnchanged
    BY <1>1 DEF EventBegins
  <2>2. Stretch(t)
    BY <2>1, Thread2CtxStretch
  <2> QED
    BY <2>1, <2>2, QuietThread2Ctx DEF Delivers, Busy, Stretch
<1>2. ~HookBegins(t, call) /\ ~ProfileEvent(t)
  BY DEF HookBegins, ProfileEvent, QuietEvents, Quiet
<1>3. CASE CallbackReturns(t)
  <2> DEFINE e == [event[t] EXCEPT !.at = "after"]
  <2>1. /\ event[t].at = "in" /\ Advance(t, e)
        /\ prof' = prof /\ charged' = charged /\ EventUnchanged
    BY <1>3 DEF CallbackReturns
  <2>2. event[t].which \in {"name", "tag"} \cap Callbacks
    BY <2>1 DEF QuietEvents, Quiet
  <2>3. e.at = "after" /\ e.which = event[t].which
    BY <2>1
  <2>4. Quiet(e)
    BY <2>2, <2>3 DEF Quiet
  <2> HIDE DEF e
  <2> QED
    BY <2>1, <2>4 DEF Delivers, Busy
<1>4. CASE EventContinues(t)
  <2>1. /\ event[t].at = "after" /\ EventUnchanged
        /\ current = event[t].saved
        /\ event[t].which \in {"name", "tag"} /\ current.id = CtxId(t)
    BY <1>4 DEF EventContinues, QuietEvents, Quiet, OwnInv, Own
  <2>2. AfterName(t) \/ AfterTag(t)
    BY <1>4, <2>1 DEF EventContinues, AfterId, AfterIdAgain, AfterHookId
  <2>3. prof' = prof
    BY <2>2 DEF AfterName, AfterTag
  <2> DEFINE call2 == event[t].call
  <2>4. \/ TagAndRecord(t, current, call2)
        \/ Record(t, current)
        \/ Advance(t, Fault) /\ charged' = charged
    BY <2>2 DEF AfterName, AfterTag
  <2> HIDE DEF call2
  <2>5. Stretch(t)
    BY <2>1, <2>4, TagAndRecordStretch, RecordStretch, EventEnds
  <2>6. \E e : Advance(t, e) /\ Quiet(e)
    BY <2>4, QuietTagAndRecord, QuietEnds DEF Record
  <2> QED
    BY <2>1, <2>3, <2>5, <2>6 DEF Delivers, Busy, Stretch
<1> QED
  BY <1>1, <1>2, <1>3, <1>4 DEF EventStep

LEMMA SetProfileQuiet ==
    ASSUME QuietEvents, NEW t \in Thread
    PROVE  /\ SetProfileEverywhere \in [Thread -> {"none", "c"}]
           /\ SetProfile(t) \in [Thread -> {"none", "c"}]
           /\ UnsetProfileEverywhere \in [Thread -> {"none", "c"}]
  BY DEF QuietEvents, SetProfileEverywhere, SetProfile, UnsetProfileEverywhere

LEMMA DeliversQuiet ==
    ASSUME QuietEvents, NEW t \in Thread, Delivers(t), settings' = settings
    PROVE  /\ QuietEvents'
           /\ \A u \in Thread \ {t} : event'[u] = event[u]
<1>1. PICK e : Advance(t, e) /\ Quiet(e)
  BY DEF Delivers
<1>2. event' = [event EXCEPT ![t] = e] /\ DOMAIN event = Thread
  BY <1>1 DEF Advance, QuietEvents
<1>3. DOMAIN event' = Thread /\ event'[t] = e
      /\ \A u \in Thread \ {t} : event'[u] = event[u]
  BY <1>2
<1>4. \A u \in Thread : Quiet(event'[u])
  BY <1>1, <1>3 DEF QuietEvents
<1>5. prof' \in [Thread -> {"none", "c"}]
  BY SetProfileQuiet DEF Delivers, QuietEvents
<1> QED
  BY <1>3, <1>4, <1>5 DEF QuietEvents, Quiet, Callbacks
-----------------------------------------------------------------------------
(* Who is profiled. *)

\* What the steps of the profiler's functions do to events.
LEMMA APIQuiet ==
    ASSUME QuietEvents, NEW t \in Caller, APIStep(t)
    PROVE  /\ QuietEvents'
           /\ settings' = settings /\ alive' = alive /\ charged' = charged
           /\ \A u \in Thread : event'[u].at \in {"in", "after"} => event'[u] = event[u]
<1> USE DEF Unhindered, flags, history
<1>1. t \in Thread
  BY SessionAssumption
<1>2. CASE SetHook(t) \/ UnsetHook(t) \/ Start(t) \/ Stop(t) \/ Pause(t)
             \/ Resume(t) \/ WaitEnds(t) \/ Clear(t) \/ Enumerate(t)
  <2>1. UNCHANGED <<event, settings, alive, charged>>
    BY <1>2 DEF SetHook, UnsetHook, Start, Stop, Pause, Resume, WaitEnds, Clear,
                Enumerate
  <2>2. \/ prof' \in {prof, SetProfileEverywhere, SetProfile(t), UnsetProfileEverywhere}
    BY <1>2 DEF SetHook, UnsetHook, Start, Stop, Pause, Resume, WaitEnds, Clear,
                Enumerate, AlreadyStarted, StartProfiler, StopProfiler
  <2>3. prof' \in [Thread -> {"none", "c"}]
    BY <1>1, <2>2, SetProfileQuiet DEF QuietEvents
  <2> QED
    BY <2>1, <2>3 DEF QuietEvents, Quiet, Callbacks
<1>3. CASE Enumerated(t)
  <2>1. /\ Advance(t, Idle) \/ Advance(t, Fault)
        /\ UNCHANGED <<prof, settings, alive, charged>>
    BY <1>3 DEF Enumerated
  <2>2. Delivers(t)
    BY <2>1, QuietEnds DEF Delivers
  <2>3. event'[t] \in {Idle, Fault}
    BY <1>1, <2>1 DEF Advance, QuietEvents
  <2> QED
    BY <1>1, <2>1, <2>2, <2>3, DeliversQuiet DEF Idle, Fault
<1> QED
  BY <1>2, <1>3 DEF APIStep

\* While the profiler does not run no thread has _yapp_callback as its profile
\* function.  This needs threads that are there from the beginning and no id
\* callback, as an event that has yet to profile its thread does so after a stop.
Silent == ~running => \A t \in Thread : prof[t] # "c"

SilentInv ==
    /\ settings \in Settings
    /\ alive = Thread
    /\ QuietEvents
    /\ OwnInv
    /\ Silent

LEMMA SilentInit == ASSUME Initial = Thread, Init PROVE SilentInv
  BY OwnInvInit, QuietEnds DEF Init, SilentInv, QuietEvents, Silent, Quiet, Idle

LEMMA SilentEvent ==
    ASSUME SilentInv, "id" \notin Callbacks, NEW t \in Thread, NEW call,
           EventBegins(t, call) \/ HookBegins(t, call) \/ EventStep(t)
    PROVE  /\ settings' = settings /\ alive' = alive
           /\ QuietEvents' /\ Silent'
<1>1. Delivers(t) /\ EventUnchanged
  BY EventDelivers DEF SilentInv
<1>2. UNCHANGED <<settings, alive, running>>
  BY <1>1 DEF EventUnchanged, flags
<1>3. QuietEvents'
  BY <1>1, <1>2, DeliversQuiet DEF SilentInv
<1>4. Silent'
  BY <1>1, <1>2 DEF Delivers, Silent, SilentInv
<1> QED
  BY <1>2, <1>3, <1>4

LEMMA SilentAPI ==
    ASSUME SilentInv, NEW t \in Caller, APIStep(t)
    PROVE  Silent'
<1> USE DEF SilentInv, Silent
<1>1. CASE SetHook(t) \/ UnsetHook(t) \/ WaitEnds(t) \/ Clear(t) \/ Enumerate(t)
             \/ Enumerated(t)
  BY <1>1 DEF SetHook, UnsetHook, WaitEnds, Clear, Enumerate, Enumerated, flags
<1>2. CASE Start(t) \/ Resume(t)
  BY <1>2 DEF Start, Resume, AlreadyStarted, StartProfiler
<1>3. CASE Stop(t) \/ Pause(t)
  BY <1>3 DEF Stop, Pause, StopProfiler, UnsetProfileEverywhere
<1> QED
  BY <1>1, <1>2, <1>3 DEF APIStep

LEMMA SilentStep ==
    ASSUME \A s \in Settings : "id" \notin s.callbacks, SilentInv, [Next]_vars
    PROVE  SilentInv'
<1>1. "id" \notin Callbacks
  BY DEF SilentInv, Callbacks
<1>2. OwnInv'
  BY OwnInvStep DEF SilentInv
<1>3. ASSUME NEW t \in Thread, ThreadStarts(t) PROVE FALSE
  BY <1>3 DEF ThreadStarts, SilentInv
<1>4. ASSUME NEW t \in Thread, NEW call \in BOOLEAN,
             EventBegins(t, call) \/ HookBegins(t, call)
      PROVE  SilentInv'
  BY <1>1, <1>2, <1>4, SilentEvent DEF SilentInv
<1>5. ASSUME NEW t \in Thread, EventStep(t) PROVE SilentInv'
  BY <1>1, <1>2, <1>5, SilentEvent DEF SilentInv
<1>6. ASSUME NEW t \in Caller, NEW f \in Calls, CallAPI(t, f) PROVE SilentInv'
  BY <1>2, <1>6 DEF CallAPI, SilentInv, QuietEvents, Quiet, Callbacks, Silent, flags
<1>7. ASSUME NEW t \in Caller, APIStep(t) PROVE SilentInv'
  BY <1>2, <1>7, SilentAPI, APIQuiet DEF SilentInv
<1>8. CASE UNCHANGED vars
  BY <1>2, <1>8 DEF vars, SilentInv, QuietEvents, Quiet, Callbacks, Silent, flags
<1> QED
  BY <1>3, <1>4, <1>5, <1>6, <1>7, <1>8 DEF Next

-----------------------------------------------------------------------------
(* profile_threads=False *)

\* Without multicontext, and unless profile functions are set in all threads at
\* once, whoever is profiled has called start().
SoloInv(c) ==
    /\ settings \in Settings
    /\ wanted => c \in starters
    /\ ~Multi => /\ hook = FALSE
                 /\ QuietEvents
                 /\ \A t \in Thread : Busy(t) => t \in starters
    /\ OnlyInvokingThread

LEMMA SoloInit == ASSUME NEW c \in Thread, Init PROVE SoloInv(c)
  BY QuietEnds DEF Init, SoloInv, QuietEvents, Quiet, Busy, Idle, OnlyInvokingThread

LEMMA SoloFrame ==
    ASSUME NEW c, SoloInv(c),
           UNCHANGED <<settings, wanted, starters, prof, event, hook, charged>>
    PROVE  SoloInv(c)'
  BY DEF SoloInv, QuietEvents, Quiet, Callbacks, Busy, OnlyInvokingThread, Multi

\* An event belongs to a thread that is profiled already.
LEMMA SoloEvent ==
    ASSUME \A s \in Settings : s.multi \/ ~s.allThreads,
           NEW c, SoloInv(c), OwnInv, NEW t \in Thread, NEW call,
           EventBegins(t, call) \/ HookBegins(t, call) \/ EventStep(t)
    PROVE  SoloInv(c)'
<1>1. EventUnchanged
  BY DEF EventBegins, HookBegins, EventStep, ProfileEvent, CallbackReturns,
         EventContinues
<1>2. UNCHANGED <<settings, wanted, starters, hook>>
  BY <1>1 DEF EventUnchanged, flags
<1>3. CASE Multi
  BY <1>2, <1>3 DEF SoloInv, OnlyInvokingThread, Multi
<1>4. CASE ~Multi
  <2>1. "id" \notin Callbacks /\ ~AllThreads
    BY <1>4, SessionAssumption DEF SoloInv, Multi, Callbacks, AllThreads
  <2>2. Delivers(t) /\ Busy(t)
    BY <1>4, <2>1, EventDelivers DEF SoloInv
  <2>3. QuietEvents' /\ \A u \in Thread \ {t} : event'[u] = event[u]
    BY <1>2, <1>4, <2>2, DeliversQuiet DEF SoloInv
  <2>4. t \in starters
    BY <1>4, <2>2 DEF SoloInv
  <2>5. prof' = prof \/ prof' = [prof EXCEPT ![t] = "c"]
    BY <2>1, <2>2 DEF Delivers, SetProfile
  <2>6. \A u \in Thread \ {t} : prof'[u] = prof[u]
    BY <1>4, <2>5 DEF SoloInv, QuietEvents
  <2>7. \A u \in Thread : Busy(u)' => u \in starters'
    BY <1>2, <1>4, <2>3, <2>4, <2>6 DEF SoloInv, Busy
  <2>8. OnlyInvokingThread'
    BY <1>2, <2>2, <2>4 DEF SoloInv, OnlyInvokingThread, Delivers, Multi
  <2> QED
    BY <1>2, <1>4, <2>3, <2>7, <2>8 DEF SoloInv, Multi
<1> QED
  BY <1>3, <1>4

\* Only start(), and a _resume after a _pause, set a profile function.
LEMMA SoloStarts ==
    ASSUME NEW c \in Thread, SoloInv(c), ~Multi, ~AllThreads,
           prof' = prof \/ (prof' = SetProfile(c) /\ c \in starters'),
           event' = event, settings' = settings, starters \subseteq starters'
    PROVE  QuietEvents' /\ \A t \in Thread : Busy(t)' => t \in starters'
<1>1. QuietEvents /\ \A t \in Thread : Busy(t) => t \in starters
  BY DEF SoloInv
<1>2. QuietEvents'
  BY <1>1, SetProfileQuiet DEF QuietEvents, Quiet, Callbacks
<1>3. ASSUME NEW t \in Thread, Busy(t)' PROVE t \in starters'
  <2>1. CASE prof' = prof
    BY <1>1, <1>3, <2>1 DEF Busy
  <2>2. CASE prof' = [prof EXCEPT ![c] = "c"] /\ c \in starters'
    BY <1>1, <1>3, <2>2 DEF Busy, QuietEvents
  <2> QED
    BY <2>1, <2>2 DEF SetProfile
<1> QED
  BY <1>2, <1>3

LEMMA SoloAPI ==
    ASSUME \A s \in Settings : s.multi \/ ~s.allThreads,
           NEW c \in Thread, Caller = {c}, SoloInv(c), ControlInv(c), APIStep(c)
    PROVE  SoloInv(c)'
<1> USE DEF Unhindered, flags, history
<1>1. settings' = settings /\ charged' = charged
  BY DEF APIStep, SetHook, UnsetHook, Start, Stop, Pause, Resume, WaitEnds, Clear,
         Enumerate, Enumerated
<1>2. wanted' => c \in starters'
  BY DEF SoloInv, APIStep, SetHook, UnsetHook, Start, Stop, Pause, Resume, WaitEnds,
         Clear, Enumerate, Enumerated
<1>3. starters \subseteq starters'
  BY DEF APIStep, SetHook, UnsetHook, Start, Stop, Pause, Resume, WaitEnds, Clear,
         Enumerate, Enumerated
<1>4. OnlyInvokingThread'
  BY <1>1, <1>3 DEF SoloInv, OnlyInvokingThread, Multi
<1>5. CASE Multi
  BY <1>1, <1>2, <1>4, <1>5 DEF SoloInv, Multi
<1>6. CASE ~Multi
  <2>1. ~AllThreads
    BY <1>6 DEF SoloInv, Multi, AllThreads
  <2>2. hook' = FALSE
    BY <1>6 DEF SoloInv, APIStep, SetHook, UnsetHook, Start, Stop, Pause, Resume,
                WaitEnds, Clear, Enumerate, Enumerated
  <2>3. QuietEvents' /\ \A t \in Thread : Busy(t)' => t \in starters'
    <3>1. CASE SetHook(c) \/ UnsetHook(c) \/ Stop(c) \/ Pause(c) \/ WaitEnds(c)
                 \/ Clear(c) \/ Enumerate(c)
      <4>1. /\ prof' \in {prof, UnsetProfileEverywhere}
            /\ event' = event /\ starters' = starters
        BY <3>1 DEF SetHook, UnsetHook, Stop, Pause, WaitEnds, Clear, Enumerate,
                    StopProfiler
      <4>2. \A t \in Thread : prof'[t] = "c" => prof[t] = "c"
        BY <4>1 DEF UnsetProfileEverywhere
      <4>3. QuietEvents'
        BY <1>1, <1>6, <4>1, SetProfileQuiet DEF SoloInv, QuietEvents, Quiet, Callbacks
      <4> QED
        BY <1>6, <4>1, <4>2, <4>3 DEF SoloInv, Busy
    <3>2. CASE Start(c)
      <4>1. /\ prof' = prof \/ prof' = SetProfile(c)
            /\ event' = event /\ starters' = starters \cup {c}
        BY <1>6, <3>2 DEF Start, AlreadyStarted, StartProfiler
      <4> QED
        BY <1>1, <1>6, <2>1, <4>1, SoloStarts
    <3>3. CASE Resume(c)
      <4>1. /\ prof' = prof \/ (prof' = SetProfile(c) /\ paused)
            /\ event' = event /\ starters' = starters
        BY <1>6, <3>3 DEF Resume, AlreadyStarted, StartProfiler
      <4>2. paused => c \in starters
        BY <3>3, StepFinds DEF Resume, Held, Steady, SoloInv
      <4> QED
        BY <1>1, <1>6, <2>1, <4>1, <4>2, SoloStarts
    <3>4. CASE Enumerated(c)
      <4>1. UNCHANGED <<prof, starters>>
        BY <3>4 DEF Enumerated
      <4>2. /\ QuietEvents'
            /\ \A u \in Thread : event'[u].at \in {"in", "after"} => event'[u] = event[u]
        BY <1>6, APIQuiet DEF SoloInv
      <4> QED
        BY <1>6, <4>1, <4>2 DEF SoloInv, Busy
    <3> QED
      BY <3>1, <3>2, <3>3, <3>4 DEF APIStep
  <2> QED
    BY <1>1, <1>2, <1>4, <2>2, <2>3 DEF SoloInv, Multi
<1> QED
  BY <1>5, <1>6

LEMMA SoloStep ==
    ASSUME \A s \in Settings : s.multi \/ ~s.allThreads,
           NEW c \in Thread, Caller = {c}, SoloInv(c), ControlInv(c), OwnInv, [Next]_vars
    PROVE  SoloInv(c)'
<1>1. ASSUME NEW t \in Thread, ThreadStarts(t) PROVE SoloInv(c)'
  <2>1. /\ UNCHANGED <<settings, wanted, starters, event, hook, charged>>
        /\ prof' = [prof EXCEPT ![t] = IF hook THEN "python" ELSE "none"]
    BY <1>1 DEF ThreadStarts, flags, history
  <2>2. CASE Multi
    BY <2>1, <2>2 DEF SoloInv, OnlyInvokingThread, Multi
  <2>3. CASE ~Multi
    <3>1. prof' = [prof EXCEPT ![t] = "none"]
      BY <2>1, <2>3 DEF SoloInv
    <3>2. QuietEvents' /\ \A u \in Thread : Busy(u)' => Busy(u)
      BY <2>1, <2>3, <3>1 DEF SoloInv, QuietEvents, Quiet, Callbacks, Busy
    <3> QED
      BY <2>1, <2>3, <3>2 DEF SoloInv, OnlyInvokingThread, Multi
  <2> QED
    BY <2>2, <2>3
<1>2. ASSUME NEW t \in Thread, NEW call \in BOOLEAN,
             EventBegins(t, call) \/ HookBegins(t, call)
      PROVE  SoloInv(c)'
  BY <1>2, SoloEvent
<1>3. ASSUME NEW t \in Thread, EventStep(t) PROVE SoloInv(c)'
  BY <1>3, SoloEvent
<1>4. ASSUME NEW f \in Calls, CallAPI(c, f) PROVE SoloInv(c)'
  BY <1>4, SoloFrame DEF CallAPI, flags
<1>5. CASE APIStep(c)
  BY <1>5, SoloAPI
<1>6. CASE UNCHANGED vars
  BY <1>6, SoloFrame DEF vars, flags, history
<1> QED
  BY <1>1, <1>2, <1>3, <1>4, <1>5, <1>6 DEF Next

\* With one thread that calls the profiler's functions, and a version of Python
\* that sets the profile function of one thread, start(profile_threads=False)
\* records events of the thread that called it alone, also after get_func_stats
\* and clear_stats have paused and resumed.
THEOREM OnlyInvokerRecorded ==
    ASSUME NEW c \in Thread, Caller = {c},
           \A s \in Settings : s.multi \/ ~s.allThreads
    PROVE  Spec => []OnlyInvokingThread
<1> DEFINE Inv == SoloInv(c) /\ ControlInv(c) /\ OwnInv
<1>1. Init => Inv
  BY SoloInit, ControlInit, OwnInvInit
<1>2. Inv /\ [Next]_vars => Inv'
  BY SoloStep, ControlStep, OwnInvStep
<1>3. Inv => OnlyInvokingThread
  BY DEF SoloInv
<1> HIDE DEF Inv
<1> QED
  BY <1>1, <1>2, <1>3, PTL DEF Spec

-----------------------------------------------------------------------------
(* The tables, while statistics are cleared and read. *)

\* The next step of the function that thread t is calling.
At(t, step) == todo[t] # <<>> /\ Head(todo[t]) = step

-----------------------------------------------------------------------------
(* The order of steps. *)

LEMMA StepOrder ==
    ASSUME NEW f \in API, NEW k \in Nat, k + 1 <= Len(Steps[f])
    PROVE  /\ Steps[f][k + 1] = "wait" => k + 2 <= Len(Steps[f])
           /\ Steps[f][k + 1] = "enumerate" => k + 2 <= Len(Steps[f])
           /\ Steps[f][k + 1] = "hook" => k + 2 <= Len(Steps[f])
           /\ Steps[f][k + 1] = "stop" => k + 2 <= Len(Steps[f])
           /\ k = 0 => Steps[f][k + 1] \notin {"start", "unhook"}
           /\ k + 2 <= Len(Steps[f]) =>
                /\ Steps[f][k + 2] = "clear" <=> Steps[f][k + 1] = "wait"
                /\ Steps[f][k + 2] = "enumerated" <=> Steps[f][k + 1] = "enumerate"
                /\ Steps[f][k + 2] = "start" <=> Steps[f][k + 1] = "hook"
                /\ Steps[f][k + 2] = "unhook" <=> Steps[f][k + 1] = "stop"
<1>1. CASE f = "start"
  <2>1. Steps["start"] = <<"hook", "start">>
    BY DEF Steps
  <2>2. Len(Steps["start"]) = 2
    BY <2>1
  <2>3. k = 0 \/ k = 1
    BY <1>1, <2>2
  <2> QED
    BY <1>1, <2>1, <2>2, <2>3
<1>2. CASE f = "stop"
  <2>1. Steps["stop"] = <<"stop", "unhook">>
    BY DEF Steps
  <2>2. Len(Steps["stop"]) = 2
    BY <2>1
  <2>3. k = 0 \/ k = 1
    BY <1>2, <2>2
  <2> QED
    BY <1>2, <2>1, <2>2, <2>3
<1>3. CASE f = "clear_stats"
  <2>1. Steps["clear_stats"] = <<"pause", "wait", "clear", "resume">>
    BY DEF Steps
  <2>2. Len(Steps["clear_stats"]) = 4
    BY <2>1
  <2>3. k = 0 \/ k = 1 \/ k = 2 \/ k = 3
    BY <1>3, <2>2
  <2> QED
    BY <1>3, <2>1, <2>2, <2>3
<1>4. CASE f = "get_func_stats"
  <2>1. Steps["get_func_stats"] =
          <<"pause", "pause", "enumerate", "enumerated", "resume", "resume">>
    BY DEF Steps
  <2>2. Len(Steps["get_func_stats"]) = 6
    BY <2>1
  <2>3. k = 0 \/ k = 1 \/ k = 2 \/ k = 3 \/ k = 4 \/ k = 5
    BY <1>4, <2>2
  <2> QED
    BY <1>4, <2>1, <2>2, <2>3
<1>5. CASE f = "get_thread_stats"
  <2>1. Steps["get_thread_stats"] = <<"pause", "enumerate", "enumerated", "resume">>
    BY DEF Steps
  <2>2. Len(Steps["get_thread_stats"]) = 4
    BY <2>1
  <2>3. k = 0 \/ k = 1 \/ k = 2 \/ k = 3
    BY <1>5, <2>2
  <2> QED
    BY <1>5, <2>1, <2>2, <2>3
<1> QED
  BY <1>1, <1>2, <1>3, <1>4, <1>5 DEF API

\* A thread is about to clear, or to end an enumeration, only while the profiler
\* is paused.
LEMMA HeldAt ==
    ASSUME NEW c \in Thread, ControlInv(c), At(c, "clear") \/ At(c, "enumerated")
    PROVE  ~running
<1>1. PICK f \in API, k \in Nat : Remains(c, f, k) /\ FlagsFit(f, k)
  BY DEF ControlInv
<1>2. todo[c] \in Seq(StepName) /\ todo[c] # <<>>
  BY DEF ControlInv, At
<1>3. Len(todo[c]) \in Nat \ {0} /\ Head(todo[c]) = todo[c][1]
  BY <1>2
<1>4. Len(Steps[f]) \in Nat
  BY StepsFit
<1>5. Head(todo[c]) = Steps[f][k + 1] /\ k \in 0..(Len(Steps[f]) - 1)
  BY <1>1, <1>3, <1>4 DEF Remains
<1>6. StepFits(f, k, Head(todo[c]))
  BY <1>5, StepsFit
<1> QED
  BY <1>1, <1>6 DEF StepFits, FlagsFit, Held, At

LEMMA EmptyByLength ==
    ASSUME NEW S, NEW s \in Seq(S)
    PROVE  s = <<>> <=> Len(s) = 0
  OBVIOUS

\* What comes next after a step.
LEMMA NextAt ==
    ASSUME NEW c \in Thread, ControlInv(c), NEW step, NextStep(c, step)
    PROVE  /\ At(c, "clear")' <=> step = "wait"
           /\ At(c, "enumerated")' <=> step = "enumerate"
           /\ At(c, "start")' <=> step = "hook"
           /\ At(c, "unhook")' <=> step = "stop"
<1>1. PICK f \in API, k \in Nat : Remains(c, f, k)
  BY DEF ControlInv
<1>2. /\ todo[c] \in Seq(StepName) /\ todo[c] # <<>> /\ Head(todo[c]) = step
      /\ todo' = [todo EXCEPT ![c] = Tail(todo[c])]
      /\ todo \in [Thread -> Seq(StepName)]
  BY DEF NextStep, ControlInv
<1>3. /\ Len(todo[c]) \in Nat \ {0} /\ Head(todo[c]) = todo[c][1]
      /\ Tail(todo[c]) \in Seq(StepName) /\ Len(Tail(todo[c])) = Len(todo[c]) - 1
      /\ \A i \in 1..(Len(todo[c]) - 1) : Tail(todo[c])[i] = todo[c][i + 1]
  BY <1>2
<1>4. todo'[c] = Tail(todo[c])
  BY <1>2, <1>3
<1>5. Len(Steps[f]) \in Nat
  BY StepsFit
<1>6. step = Steps[f][k + 1] /\ k + 1 <= Len(Steps[f])
  BY <1>1, <1>2, <1>3, <1>5 DEF Remains
<1>7. todo'[c] # <<>> <=> k + 2 <= Len(Steps[f])
  <2>1. Tail(todo[c]) # <<>> <=> Len(Tail(todo[c])) # 0
    BY <1>3, EmptyByLength
  <2>2. Len(Tail(todo[c])) = Len(Steps[f]) - k - 1
    BY <1>1, <1>3, <1>5 DEF Remains
  <2>3. Len(Steps[f]) - k - 1 # 0 <=> k + 2 <= Len(Steps[f])
    BY <1>5, <1>6
  <2> QED
    BY <1>4, <2>1, <2>2, <2>3
<1>8. ASSUME k + 2 <= Len(Steps[f]) PROVE Head(todo'[c]) = Steps[f][k + 2]
  <2>1. 2 \in 1..Len(todo[c]) /\ 1 \in 1..(Len(todo[c]) - 1)
    BY <1>1, <1>3, <1>5, <1>8 DEF Remains
  <2>2. todo[c][2] = Steps[f][2 + k] /\ Tail(todo[c])[1] = todo[c][1 + 1]
    BY <1>1, <1>3, <2>1 DEF Remains
  <2>3. 2 + k = k + 2 /\ 1 + 1 = 2
    OBVIOUS
  <2>4. Head(Tail(todo[c])) = Tail(todo[c])[1]
    BY <1>3, <2>1
  <2> QED
    BY <1>4, <2>2, <2>3, <2>4
<1>9. At(c, "clear")' <=> (k + 2 <= Len(Steps[f]) /\ Steps[f][k + 2] = "clear")
  BY <1>7, <1>8 DEF At
<1>10. At(c, "enumerated")' <=> (k + 2 <= Len(Steps[f]) /\ Steps[f][k + 2] = "enumerated")
  BY <1>7, <1>8 DEF At
<1>11. At(c, "start")' <=> (k + 2 <= Len(Steps[f]) /\ Steps[f][k + 2] = "start")
  BY <1>7, <1>8 DEF At
<1>12. At(c, "unhook")' <=> (k + 2 <= Len(Steps[f]) /\ Steps[f][k + 2] = "unhook")
  BY <1>7, <1>8 DEF At
<1> QED
  BY <1>6, <1>9, <1>10, <1>11, <1>12, StepOrder

\* No function begins by clearing, in the middle of an enumeration, or with the
\* second statement of start() or stop().
LEMMA CallAt ==
    ASSUME NEW c \in Thread, ControlInv(c), NEW f \in Calls, CallAPI(c, f)
    PROVE  /\ todo[c] = <<>>
           /\ ~At(c, "clear")' /\ ~At(c, "enumerated")'
           /\ ~At(c, "start")' /\ ~At(c, "unhook")'
<1>1. f \in API
  BY SessionAssumption
<1>2. Steps[f] \in Seq(StepName) /\ Len(Steps[f]) \in Nat \ {0}
      /\ 0 \notin HeldAfter(f) /\ StepFits(f, 0, Steps[f][1])
  BY <1>1, StepsFit
<1>3. Steps[f][1] \notin {"clear", "enumerated", "start", "unhook"}
  <2>1. 0 \in Nat /\ 0 + 1 <= Len(Steps[f])
    BY <1>2
  <2>2. Steps[f][0 + 1] \notin {"start", "unhook"}
    BY <1>1, <2>1, StepOrder
  <2>3. 0 + 1 = 1
    OBVIOUS
  <2> QED
    BY <1>2, <2>2, <2>3 DEF StepFits
<1>4. todo[c] = <<>> /\ todo'[c] = Steps[f]
  BY DEF CallAPI, ControlInv
<1>5. Head(Steps[f]) = Steps[f][1]
  BY <1>2
<1> QED
  BY <1>3, <1>4, <1>5 DEF At
-----------------------------------------------------------------------------
(* Statistics keep still while they are enumerated. *)

\* Only the thread that calls the profiler's functions enumerates.
ReadingInv(c) ==
    /\ DOMAIN reading = Thread
    /\ \A t \in Thread : reading[t] # 0 => t = c /\ At(c, "enumerated")
    /\ reading[c] \in {0, generation}

LEMMA ReadingInit == ASSUME NEW c \in Thread, Init PROVE ReadingInv(c)
  BY DEF Init, ReadingInv

LEMMA ReadingFrame ==
    ASSUME NEW c, ReadingInv(c), UNCHANGED <<reading, todo, generation>>
    PROVE  ReadingInv(c)'
  BY DEF ReadingInv, At

LEMMA ReadingAPI ==
    ASSUME NEW c \in Thread, ControlInv(c), ReadingInv(c), APIStep(c)
    PROVE  ReadingInv(c)'
<1> USE DEF ReadingInv
<1>1. ASSUME NEW step, step # "enumerated", NextStep(c, step)
      PROVE  \A t \in Thread : reading[t] = 0
  BY <1>1 DEF NextStep, At
<1>2. CASE SetHook(c) \/ UnsetHook(c) \/ Start(c) \/ Stop(c) \/ Pause(c)
             \/ Resume(c) \/ WaitEnds(c) \/ Clear(c)
  <2>1. \A t \in Thread : reading[t] = 0
    BY <1>1, <1>2 DEF SetHook, UnsetHook, Start, Stop, Pause, Resume, WaitEnds, Clear
  <2>2. reading' = reading
    BY <1>2 DEF SetHook, UnsetHook, Start, Stop, Pause, Resume, WaitEnds, Clear
  <2> QED
    BY <2>1, <2>2
<1>3. CASE Enumerate(c)
  <2>1. NextStep(c, "enumerate") /\ generation' = generation
        /\ reading' = [reading EXCEPT ![c] = IF haveStats THEN generation ELSE 0]
    BY <1>3 DEF Enumerate, tables
  <2>2. At(c, "enumerated")'
    BY <2>1, NextAt
  <2>3. \A t \in Thread : reading[t] = 0
    BY <1>1, <2>1
  <2> QED
    BY <2>1, <2>2, <2>3
<1>4. CASE Enumerated(c)
  BY <1>4 DEF Enumerated, tables
<1> QED
  BY <1>2, <1>3, <1>4 DEF APIStep

LEMMA ReadingStep ==
    ASSUME NEW c \in Thread, Caller = {c}, ControlInv(c), ReadingInv(c), [Next]_vars
    PROVE  ReadingInv(c)'
<1>1. ASSUME NEW t \in Thread, ThreadStarts(t) PROVE ReadingInv(c)'
  BY <1>1, ReadingFrame DEF ThreadStarts, tables
<1>2. ASSUME EventUnchanged PROVE ReadingInv(c)'
  BY <1>2, ReadingFrame DEF EventUnchanged
<1>3. ASSUME NEW t \in Thread, NEW call \in BOOLEAN,
             EventBegins(t, call) \/ HookBegins(t, call)
      PROVE  ReadingInv(c)'
  BY <1>2, <1>3 DEF EventBegins, HookBegins
<1>4. ASSUME NEW t \in Thread, EventStep(t) PROVE ReadingInv(c)'
  BY <1>2, <1>4 DEF EventStep, ProfileEvent, CallbackReturns, EventContinues
<1>5. ASSUME NEW f \in Calls, CallAPI(c, f) PROVE ReadingInv(c)'
  <2>1. todo[c] = <<>> /\ reading' = reading /\ generation' = generation
    BY <1>5, CallAt DEF CallAPI, tables
  <2>2. \A t \in Thread : reading[t] = 0
    BY <2>1 DEF ReadingInv, At
  <2> QED
    BY <2>1, <2>2 DEF ReadingInv
<1>6. CASE APIStep(c)
  BY <1>6, ReadingAPI
<1>7. CASE UNCHANGED vars
  BY <1>7, ReadingFrame DEF vars, tables
<1> QED
  BY <1>1, <1>3, <1>4, <1>5, <1>6, <1>7 DEF Next

\* An event that is under way, in a callback for a name or a tag, makes no context.
LEMMA UnderWayMakesNoContext ==
    ASSUME QuietEvents, NEW t \in Thread, EventStep(t)
    PROVE  /\ event[t].at \in {"in", "after"}
           /\ DOMAIN contexts' = DOMAIN contexts
<1>1. ~ProfileEvent(t)
  BY DEF ProfileEvent, QuietEvents, Quiet
<1>2. CASE CallbackReturns(t)
  BY <1>2 DEF CallbackReturns
<1>3. CASE EventContinues(t)
  <2>1. event[t].at = "after" /\ event[t].which \in {"name", "tag"}
    BY <1>3 DEF EventContinues, QuietEvents, Quiet
  <2>2. AfterName(t) \/ AfterTag(t)
    BY <1>3, <2>1 DEF EventContinues, AfterId, AfterIdAgain, AfterHookId
  <2>3. DOMAIN contexts' = DOMAIN contexts
    BY <2>2 DEF AfterName, AfterTag
  <2> QED
    BY <2>1, <2>3
<1> QED
  BY <1>1, <1>2, <1>3 DEF EventStep

\* What a step may do while records are handed to Python.
Undisturbed ==
    /\ DOMAIN contexts' = DOMAIN contexts
    /\ \A t \in Thread : event[t] = Idle => event'[t].at \in {"none", "hooked"}

LEMMA SameStages == ASSUME UNCHANGED <<contexts, event>> PROVE Undisturbed
  BY DEF Undisturbed, Idle

\* The profiler is paused, so no thread is profiled and none begins an event.
LEMMA UndisturbedWhileReading ==
    ASSUME NEW c \in Thread, Caller = {c}, ControlInv(c), ReadingInv(c), SilentInv,
           \A s \in Settings : "id" \notin s.callbacks,
           [Next]_vars, NEW r \in Thread, reading[r] # 0, reading'[r] # 0
    PROVE  Undisturbed
<1>0. "id" \notin Callbacks
  BY DEF SilentInv, Callbacks
<1>1. r = c /\ At(c, "enumerated") /\ ~running
  BY HeldAt DEF ReadingInv
<1>2. \A u \in Thread : prof[u] = "none"
  BY <1>1 DEF SilentInv, Silent, QuietEvents
<1>3. ASSUME NEW u \in Thread, ThreadStarts(u) PROVE FALSE
  BY <1>3 DEF ThreadStarts, SilentInv
<1>4. ASSUME NEW u \in Thread, NEW call \in BOOLEAN,
             EventBegins(u, call) \/ HookBegins(u, call)
      PROVE  FALSE
  BY <1>2, <1>4 DEF EventBegins, HookBegins
<1>5. ASSUME NEW u \in Thread, EventStep(u) PROVE Undisturbed
  <2>1. event[u].at \in {"in", "after"} /\ DOMAIN contexts' = DOMAIN contexts
    BY <1>5, UnderWayMakesNoContext DEF SilentInv
  <2>2. Delivers(u) /\ settings' = settings
    BY <1>5, <1>0, EventDelivers DEF SilentInv, EventUnchanged, flags
  <2>3. \A v \in Thread \ {u} : event'[v] = event[v]
    BY <2>2, DeliversQuiet DEF SilentInv
  <2> QED
    BY <2>1, <2>3 DEF Undisturbed, Idle
<1>6. ASSUME NEW f \in Calls, CallAPI(c, f) PROVE FALSE
  BY <1>1, <1>6 DEF CallAPI, At
<1>7. CASE APIStep(c)
  BY <1>1, <1>7 DEF At, NextStep, APIStep, SetHook, UnsetHook, Start, Stop, Pause,
     Resume, WaitEnds, Clear, Enumerate, Enumerated, ReadingInv, tables, history
<1>8. CASE UNCHANGED vars
  BY <1>8, SameStages DEF vars, tables
<1> QED
  BY <1>3, <1>4, <1>5, <1>6, <1>7, <1>8 DEF Next

\* If one thread calls the profiler's functions, all threads exist and no id
\* callback is installed, then, with the callbacks for names and tags in any
\* events under way, no context is made and no event begun between the first record
\* an enumeration hands out and the last.
THEOREM ReadsUndisturbed ==
    ASSUME NEW c \in Thread, Caller = {c}, Initial = Thread,
           \A s \in Settings : "id" \notin s.callbacks
    PROVE  Spec => EnumerationUndisturbed
<1> DEFINE Inv == ControlInv(c) /\ ReadingInv(c) /\ SilentInv
<1>1. Init => Inv
  BY ControlInit, ReadingInit, SilentInit
<1>2. Inv /\ [Next]_vars => Inv'
  BY ControlStep, ReadingStep, SilentStep
<1>3. Inv /\ [Next]_vars =>
        [\A r \in Thread :
            reading[r] # 0 /\ reading'[r] # 0 =>
              /\ DOMAIN contexts' = DOMAIN contexts
              /\ \A t \in Thread :
                   event[t] = Idle => event'[t].at \in {"none", "hooked"}]_vars
  BY UndisturbedWhileReading DEF Undisturbed
<1> HIDE DEF Inv
<1> QED
  BY <1>1, <1>2, <1>3, PTL DEF Spec, EnumerationUndisturbed
-----------------------------------------------------------------------------
(* Tables outlive their users. *)

\* A stage of an event does not use freed tables; the context it has saved is
\* among those of table.
Holds(e, table) ==
    /\ e.at # "fault"
    /\ e.at \in {"in", "after"} =>
          e.saved.gen = generation /\ e.saved.id \in DOMAIN table

\* The contexts that events have saved exist, and when clear_stats is done with
\* waiting no callback is running.
TablesInv(c) ==
    /\ \A t \in Thread : Holds(event[t], contexts)
    /\ At(c, "clear") => \A t \in Thread : event[t].at # "in"

\* What an event may do to tables and to its own stage.
Keeps(t) ==
    /\ generation' = generation
    /\ DOMAIN contexts \subseteq DOMAIN contexts'
    /\ \E e : Advance(t, e) /\ Holds(e, contexts')

LEMMA HoldsEnds == ASSUME NEW table PROVE Holds(Idle, table)
  BY DEF Holds, Idle

LEMMA HoldsAsks ==
    ASSUME NEW which, NEW call, NEW ctx, NEW table,
           ctx.gen = generation, ctx.id \in DOMAIN table
    PROVE  Holds([InCallback(which, call) EXCEPT !.saved = ctx], table)
  BY CallbackFields DEF Holds

LEMMA HoldsTagAndRecord ==
    ASSUME NEW t, NEW ctx, NEW call, TagAndRecord(t, ctx, call),
           ctx.gen = generation, ctx.id \in DOMAIN contexts'
    PROVE  \E e : Advance(t, e) /\ Holds(e, contexts')
<1>1. \/ Advance(t, [InCallback("tag", call) EXCEPT !.saved = ctx])
      \/ Advance(t, Idle)
  BY DEF TagAndRecord, Record
<1> QED
  BY <1>1, HoldsAsks, HoldsEnds

LEMMA HoldsHaveContext ==
    ASSUME NEW t, NEW table, NEW call, HaveContext(t, table, call),
           CtxId(t) \in DOMAIN table
    PROVE  \E e : Advance(t, e) /\ Holds(e, contexts')
<1> DEFINE ctx == Ref(CtxId(t))
<1>1. ctx.gen = generation /\ ctx.id = CtxId(t)
  BY DEF Ref
<1>2. /\ contexts' = table
      /\ \/ Advance(t, Idle)
         \/ Advance(t, [InCallback("name", call) EXCEPT !.saved = ctx])
         \/ TagAndRecord(t, ctx, call)
  BY DEF HaveContext
<1> HIDE DEF ctx
<1> QED
  BY <1>1, <1>2, HoldsAsks, HoldsEnds, HoldsTagAndRecord

LEMMA HoldsThread2Ctx ==
    ASSUME NEW t, NEW call, initialized, "id" \notin Callbacks, Thread2Ctx(t, call),
           generation' = generation
    PROVE  Keeps(t)
<1>1. \/ HaveContext(t, contexts, call) /\ CtxId(t) \in DOMAIN contexts
      \/ HaveContext(t, Profiled(t), call)
  BY DEF Thread2Ctx, ProfileThread, TablesMissing
<1>2. DOMAIN Profiled(t) = DOMAIN contexts \cup {CtxId(t)}
  BY DEF Profiled
<1>3. \E e : Advance(t, e) /\ Holds(e, contexts')
  BY <1>1, <1>2, HoldsHaveContext
<1>4. contexts' = contexts \/ contexts' = Profiled(t)
  BY <1>1 DEF HaveContext
<1> QED
  BY <1>2, <1>3, <1>4 DEF Keeps

\* An event is delivered only while the profiler runs, so there are tables; a
\* context that was saved across a callback still exists.
LEMMA EventKeeps ==
    ASSUME NEW c, TablesInv(c), ControlInv(c), SilentInv, "id" \notin Callbacks,
           NEW t \in Thread, NEW call,
           EventBegins(t, call) \/ HookBegins(t, call) \/ EventStep(t)
    PROVE  Keeps(t)
<1>1. EventUnchanged /\ generation' = generation
  BY EventDelivers DEF SilentInv, EventUnchanged
<1>2. CASE EventBegins(t, call)
  <2>1. Thread2Ctx(t, call) /\ prof[t] = "c"
    BY <1>2 DEF EventBegins
  <2>2. initialized
    BY <2>1 DEF SilentInv, Silent, ControlInv, RunsOnTables
  <2> QED
    BY <1>1, <2>1, <2>2, HoldsThread2Ctx
<1>3. ~HookBegins(t, call) /\ ~ProfileEvent(t)
  BY DEF HookBegins, ProfileEvent, SilentInv, QuietEvents, Quiet
<1>4. CASE CallbackReturns(t)
  <2> DEFINE e == [event[t] EXCEPT !.at = "after"]
  <2>1. event[t].at = "in" /\ Advance(t, e) /\ contexts' = contexts
    BY <1>4 DEF CallbackReturns
  <2>2. event[t].saved.gen = generation /\ event[t].saved.id \in DOMAIN contexts
    BY <2>1 DEF TablesInv, Holds
  <2>3. e.at = "after" /\ e.saved = event[t].saved
    BY <2>1
  <2>4. Holds(e, contexts')
    BY <2>1, <2>2, <2>3 DEF Holds
  <2> HIDE DEF e
  <2> QED
    BY <1>1, <2>1, <2>4 DEF Keeps
<1>5. CASE EventContinues(t)
  <2>1. event[t].at = "after" /\ event[t].which \in {"name", "tag"}
    BY <1>5 DEF EventContinues, SilentInv, QuietEvents, Quiet
  <2>2. AfterName(t) \/ AfterTag(t)
    BY <1>5, <2>1 DEF EventContinues, AfterId, AfterIdAgain, AfterHookId
  <2>3. current.gen = generation /\ current.id \in DOMAIN contexts
    BY <2>1 DEF SilentInv, OwnInv, TablesInv, Holds
  <2> DEFINE call2 == event[t].call
  <2>4. /\ DOMAIN contexts' = DOMAIN contexts
        /\ TagAndRecord(t, current, call2) \/ Record(t, current)
    BY <2>2, <2>3 DEF AfterName, AfterTag, Live
  <2> HIDE DEF call2
  <2>5. \E e : Advance(t, e) /\ Holds(e, contexts')
    BY <2>3, <2>4, HoldsTagAndRecord, HoldsEnds DEF Record
  <2> QED
    BY <1>1, <2>4, <2>5 DEF Keeps
<1> QED
  BY <1>2, <1>3, <1>4, <1>5 DEF EventStep

\* While clear_stats is about to free the tables, an event that is under way
\* comes to its end: without a second callback it does not call Python again.
LEMMA EventEndsBeforeClear ==
    ASSUME NEW c \in Thread, TablesInv(c), ControlInv(c), SilentInv,
           At(c, "clear"), "id" \notin Callbacks, ~({"name", "tag"} \subseteq Callbacks),
           NEW t \in Thread, NEW call,
           EventBegins(t, call) \/ HookBegins(t, call) \/ EventStep(t)
    PROVE  Advance(t, Idle) \/ Advance(t, Fault)
<1>1. prof[t] # "c" /\ event[t].at # "in"
  BY HeldAt DEF SilentInv, Silent, TablesInv
<1>2. EventContinues(t)
  BY <1>1 DEF EventBegins, HookBegins, EventStep, ProfileEvent, CallbackReturns,
              SilentInv, QuietEvents, Quiet
<1>3. event[t].at = "after" /\ event[t].which \in {"name", "tag"} \cap Callbacks
  BY <1>2 DEF EventContinues, SilentInv, QuietEvents, Quiet
<1>4. CASE event[t].which = "name"
  <2>1. AfterName(t) /\ "tag" \notin Callbacks
    BY <1>2, <1>3, <1>4 DEF EventContinues, AfterId, AfterIdAgain, AfterHookId, AfterTag
  <2> DEFINE call2 == event[t].call
  <2>2. TagAndRecord(t, current, call2) \/ Advance(t, Fault)
    BY <2>1 DEF AfterName
  <2> HIDE DEF call2
  <2> QED
    BY <2>1, <2>2 DEF TagAndRecord, Record
<1>5. CASE event[t].which = "tag"
  <2>1. AfterTag(t)
    BY <1>2, <1>5 DEF EventContinues, AfterId, AfterIdAgain, AfterHookId, AfterName
  <2> QED
    BY <2>1 DEF AfterTag, Record
<1> QED
  BY <1>3, <1>4, <1>5

LEMMA TablesInit == ASSUME NEW c \in Thread, Init PROVE TablesInv(c)
  BY DEF Init, TablesInv, Holds, Idle, At

\* The tables change under events that keep still.
LEMMA TablesGrow ==
    ASSUME NEW c, TablesInv(c), event' = event, generation' = generation,
           DOMAIN contexts \subseteq DOMAIN contexts',
           At(c, "clear")' => At(c, "clear")
    PROVE  TablesInv(c)'
  BY DEF TablesInv, Holds

LEMMA TablesEvent ==
    ASSUME NEW c \in Thread, TablesInv(c), ControlInv(c), SilentInv,
           "id" \notin Callbacks, ~({"name", "tag"} \subseteq Callbacks),
           NEW t \in Thread, NEW call,
           EventBegins(t, call) \/ HookBegins(t, call) \/ EventStep(t)
    PROVE  TablesInv(c)'
<1>1. Keeps(t)
  BY EventKeeps
<1>2. PICK e : Advance(t, e) /\ Holds(e, contexts')
  BY <1>1 DEF Keeps
<1>3. event'[t] = e /\ \A u \in Thread \ {t} : event'[u] = event[u]
  BY <1>2 DEF Advance, SilentInv, QuietEvents
<1>4. todo' = todo
  BY EventDelivers DEF SilentInv, EventUnchanged
<1>5. \A u \in Thread : Holds(event[u], contexts)'
  BY <1>1, <1>2, <1>3 DEF Keeps, TablesInv, Holds
<1>6. ASSUME At(c, "clear")' PROVE \A u \in Thread : event'[u].at # "in"
  <2>1. At(c, "clear")
    BY <1>4, <1>6 DEF At
  <2>2. Advance(t, Idle) \/ Advance(t, Fault)
    BY <2>1, EventEndsBeforeClear
  <2>3. event'[t].at # "in"
    BY <2>2 DEF Advance, SilentInv, QuietEvents, Idle, Fault
  <2> QED
    BY <1>3, <2>1, <2>3 DEF TablesInv
<1> QED
  BY <1>5, <1>6 DEF TablesInv

LEMMA TablesAPI ==
    ASSUME IsFiniteSet(Thread), NEW c \in Thread, Caller = {c}, TablesInv(c),
           ControlInv(c), ReadingInv(c), SilentInv, APIStep(c)
    PROVE  TablesInv(c)'
<1> USE DEF Unhindered, flags, history, tables
<1>1. ASSUME NEW step, NextStep(c, step), step # "wait" PROVE ~At(c, "clear")'
  BY <1>1, NextAt
<1>2. CASE SetHook(c) \/ UnsetHook(c) \/ Stop(c) \/ Pause(c) \/ Enumerate(c)
  <2>1. UNCHANGED <<event, generation, contexts>>
    BY <1>2 DEF SetHook, UnsetHook, Stop, Pause, Enumerate
  <2>2. ~At(c, "clear")'
    BY <1>1, <1>2 DEF SetHook, UnsetHook, Stop, Pause, Enumerate
  <2> QED
    BY <2>1, <2>2, TablesGrow
<1>3. CASE Start(c) \/ Resume(c)
  <2>1. /\ UNCHANGED <<event, generation>>
        /\ contexts' = contexts \/ contexts' = Profiled(c)
    BY <1>3 DEF Start, Resume, AlreadyStarted, StartProfiler
  <2>2. DOMAIN contexts \subseteq DOMAIN contexts'
    BY <2>1 DEF Profiled
  <2>3. ~At(c, "clear")'
    BY <1>1, <1>3 DEF Start, Resume
  <2> QED
    BY <2>1, <2>2, <2>3, TablesGrow
<1>4. CASE WaitEnds(c)
  <2>1. UNCHANGED <<event, generation, contexts>> /\ callbackDepth = 0
    BY <1>4 DEF WaitEnds
  <2>2. InCallbacks = {}
    BY <2>1, FS_Subset, FS_EmptySet DEF callbackDepth, InCallbacks
  <2>3. \A t \in Thread : event[t].at # "in"
    BY <2>2 DEF InCallbacks
  <2> QED
    BY <2>1, <2>3 DEF TablesInv, Holds
<1>5. CASE Clear(c)
  <2>1. NextStep(c, "clear") /\ MayRun(c) /\ event' = event
    BY <1>5 DEF Clear
  <2>2. \A t \in Thread : event[t].at # "in"
    BY <2>1 DEF NextStep, At, TablesInv
  <2>3. \A t \in Thread : event[t].at # "after"
    BY <2>1, NobodyInC DEF NextStep, LockHolder
  <2>4. ~At(c, "clear")'
    BY <1>1, <2>1
  <2> QED
    BY <2>1, <2>2, <2>3, <2>4 DEF TablesInv, Holds
<1>6. CASE Enumerated(c)
  <2>1. /\ UNCHANGED <<generation, contexts>>
        /\ Advance(c, Idle)
    BY <1>6 DEF Enumerated, ReadingInv
  <2>2. event'[c] = Idle /\ \A u \in Thread \ {c} : event'[u] = event[u]
    BY <2>1 DEF Advance, SilentInv, QuietEvents
  <2>3. ~At(c, "clear")'
    BY <1>1, <1>6 DEF Enumerated
  <2>4. Holds(Idle, contexts)
    BY HoldsEnds
  <2> QED
    BY <2>1, <2>2, <2>3, <2>4 DEF TablesInv, Holds
<1> QED
  BY <1>2, <1>3, <1>4, <1>5, <1>6 DEF APIStep

LEMMA TablesStep ==
    ASSUME \A s \in Settings : "id" \notin s.callbacks
                                 /\ ~({"name", "tag"} \subseteq s.callbacks),
           IsFiniteSet(Thread), NEW c \in Thread, Caller = {c}, TablesInv(c),
           ControlInv(c), ReadingInv(c), SilentInv, [Next]_vars
    PROVE  TablesInv(c)'
<1>1. "id" \notin Callbacks /\ ~({"name", "tag"} \subseteq Callbacks)
  BY DEF SilentInv, Callbacks
<1>2. ASSUME NEW t \in Thread, ThreadStarts(t) PROVE FALSE
  BY <1>2 DEF ThreadStarts, SilentInv
<1>3. ASSUME NEW t \in Thread, NEW call \in BOOLEAN,
             EventBegins(t, call) \/ HookBegins(t, call)
      PROVE  TablesInv(c)'
  BY <1>1, <1>3, TablesEvent
<1>4. ASSUME NEW t \in Thread, EventStep(t) PROVE TablesInv(c)'
  BY <1>1, <1>4, TablesEvent
<1>5. ASSUME NEW f \in Calls, CallAPI(c, f) PROVE TablesInv(c)'
  <2>1. UNCHANGED <<event, generation, contexts>>
    BY <1>5 DEF CallAPI, tables
  <2> QED
    BY <1>5, <2>1, CallAt, TablesGrow
<1>6. CASE APIStep(c)
  BY <1>6, TablesAPI
<1>7. CASE UNCHANGED vars
  BY <1>7, TablesGrow DEF vars, tables, At
<1> QED
  BY <1>2, <1>3, <1>4, <1>5, <1>6, <1>7 DEF Next

\* If one thread calls the profiler's functions, all threads exist, and at most
\* one of the callbacks for names and tags is installed and none for ids, then
\* no event and no enumeration uses tables that clear_stats has freed: a thread
\* that was in a callback when clear_stats stopped waiting ends its event before
\* the tables are freed.  (With both callbacks it would call Python once more.)
THEOREM ClearedAfterUse ==
    ASSUME NEW c \in Thread, Caller = {c}, Initial = Thread, IsFiniteSet(Thread),
           \A s \in Settings : "id" \notin s.callbacks
                                 /\ ~({"name", "tag"} \subseteq s.callbacks)
    PROVE  Spec => []TablesOutliveTheirUsers
<1> DEFINE Inv == ControlInv(c) /\ ReadingInv(c) /\ SilentInv /\ TablesInv(c)
<1>1. Init => Inv
  BY ControlInit, ReadingInit, SilentInit, TablesInit
<1>2. Inv /\ [Next]_vars => Inv'
  BY ControlStep, ReadingStep, SilentStep, TablesStep
<1>3. Inv => TablesOutliveTheirUsers
  BY DEF TablesInv, Holds, TablesOutliveTheirUsers
<1> HIDE DEF Inv
<1> QED
  BY <1>1, <1>2, <1>3, PTL DEF Spec
-----------------------------------------------------------------------------
(* Types. *)

Which == {"id", "id_again", "hook_id", "name", "tag"}
Stage ==
    {Idle, Fault}
      \cup [at: {"hooked"}, call: BOOLEAN]
      \cup [at: {"in", "after"}, which: Which, call: BOOLEAN, saved: CtxRef]

ContextTable(table) ==
    /\ DOMAIN table \subseteq Thread \cup {"0"}
    /\ table \in [DOMAIN table -> BOOLEAN]

\* Threads that have not started have no profile function.
ProfileFunctions(p) ==
    /\ p \in [Thread -> {"none", "python", "c"}]
    /\ \A t \in Thread \ alive : p[t] = "none"

\* Names of the steps that are left of a function.
StepLeft == UNION {{s[i] : i \in DOMAIN s} : s \in {Steps[f] : f \in API}}

LEMMA StepsAreLeft == ASSUME NEW f \in API PROVE Steps[f] \in Seq(StepLeft)
<1> DEFINE s == Steps[f]
<1>1. s \in Seq(StepName)
  BY StepsFit
<1>2. \A i \in DOMAIN s : s[i] \in StepLeft
  BY DEF StepLeft
<1> HIDE DEF s
<1>3. Len(s) \in Nat /\ DOMAIN s = 1..Len(s) /\ s = [i \in 1..Len(s) |-> s[i]]
  BY <1>1
<1>4. s \in [1..Len(s) -> StepLeft]
  BY <1>2, <1>3
<1>5. s \in Seq(StepLeft)
  BY <1>3, <1>4
<1> QED
  BY <1>5 DEF s

\* An event in C code keeps to the types: the context it leaves current, the
\* table of contexts, the profile functions and its own stage.
EventTyped(t) ==
    /\ \E e \in Stage : Advance(t, e)
    /\ ContextTable(contexts')
    /\ current' \in CtxRef
    /\ ProfileFunctions(prof')

LEMMA CtxIdTyped == ASSUME TypeOK, NEW t \in Thread
                    PROVE CtxId(t) \in Thread \cup {"0"} /\ Ref(CtxId(t)) \in CtxRef
<1>1. CtxId(t) \in Thread \cup {"0"}
  BY DEF CtxId
<1>2. generation \in Nat
  BY DEF TypeOK
<1> QED
  BY <1>1, <1>2 DEF Ref, CtxRef

LEMMA AsksTyped ==
    ASSUME TypeOK, NEW which \in Which, NEW call \in BOOLEAN
    PROVE  /\ InCallback(which, call) \in Stage
           /\ \A ctx \in CtxRef : [InCallback(which, call) EXCEPT !.saved = ctx] \in Stage
<1>1. current \in CtxRef
  BY DEF TypeOK
<1>2. InCallback(which, call) = [at |-> "in", which |-> which, call |-> call, saved |-> current]
  BY DEF InCallback
<1>3. ASSUME NEW ctx \in CtxRef
      PROVE  [InCallback(which, call) EXCEPT !.saved = ctx]
               = [at |-> "in", which |-> which, call |-> call, saved |-> ctx]
  BY <1>2
<1>4. ASSUME NEW ctx \in CtxRef
      PROVE  [at |-> "in", which |-> which, call |-> call, saved |-> ctx] \in Stage
  BY DEF Stage
<1> QED
  BY <1>1, <1>2, <1>3, <1>4

LEMMA EndsTyped == Idle \in Stage /\ Fault \in Stage
  BY DEF Stage

LEMMA TagAndRecordTyped ==
    ASSUME TypeOK, NEW t \in Thread, NEW ctx \in CtxRef, NEW call \in BOOLEAN,
           TagAndRecord(t, ctx, call)
    PROVE  \E e \in Stage : Advance(t, e)
<1>1. \/ Advance(t, [InCallback("tag", call) EXCEPT !.saved = ctx])
      \/ Advance(t, Idle)
  BY DEF TagAndRecord, Record
<1>2. [InCallback("tag", call) EXCEPT !.saved = ctx] \in Stage
  BY AsksTyped DEF Which
<1> QED
  BY <1>1, <1>2, EndsTyped

LEMMA HaveContextTyped ==
    ASSUME TypeOK, NEW t \in Thread, NEW table, ContextTable(table),
           NEW call \in BOOLEAN, HaveContext(t, table, call)
    PROVE  /\ \E e \in Stage : Advance(t, e)
           /\ ContextTable(contexts') /\ current' \in CtxRef
<1> DEFINE ctx == Ref(CtxId(t))
<1>1. /\ contexts' = table /\ current' = ctx
      /\ \/ Advance(t, Idle)
         \/ Advance(t, [InCallback("name", call) EXCEPT !.saved = ctx])
         \/ TagAndRecord(t, ctx, call)
  BY DEF HaveContext
<1>2. ctx \in CtxRef
  BY CtxIdTyped
<1> HIDE DEF ctx
<1>3. [InCallback("name", call) EXCEPT !.saved = ctx] \in Stage
  BY <1>2, AsksTyped DEF Which
<1> QED
  BY <1>1, <1>2, <1>3, EndsTyped, TagAndRecordTyped

LEMMA ProfileTyped ==
    ASSUME TypeOK, NEW t \in Thread, t \in alive
    PROVE  /\ ProfileFunctions(SetProfile(t))
           /\ ProfileFunctions(SetProfileEverywhere)
           /\ ProfileFunctions(UnsetProfileEverywhere)
           /\ ProfileFunctions(prof)
           /\ ContextTable(contexts) /\ ContextTable(Profiled(t))
<1>1. ProfileFunctions(prof) /\ ContextTable(contexts)
  BY DEF TypeOK, ProfileFunctions, ContextTable
<1>2. ContextTable(Profiled(t))
  <2>1. DOMAIN Profiled(t) = DOMAIN contexts \cup {CtxId(t)}
    BY DEF Profiled
  <2>2. \A c \in DOMAIN Profiled(t) : Profiled(t)[c] \in BOOLEAN
    BY <1>1 DEF Profiled, ContextTable
  <2>3. Profiled(t) \in [DOMAIN Profiled(t) -> BOOLEAN]
    BY <2>2 DEF Profiled
  <2> QED
    BY <1>1, <2>1, <2>3, CtxIdTyped DEF ContextTable
<1>3. ProfileFunctions(SetProfileEverywhere) /\ ProfileFunctions(UnsetProfileEverywhere)
  BY <1>1 DEF ProfileFunctions, SetProfileEverywhere, UnsetProfileEverywhere
<1>4. ProfileFunctions([prof EXCEPT ![t] = "c"])
  BY <1>1 DEF ProfileFunctions
<1> QED
  BY <1>1, <1>2, <1>3, <1>4 DEF SetProfile

LEMMA TablesMissingTyped ==
    ASSUME TypeOK, NEW t \in Thread, t \in alive, TablesMissing(t)
    PROVE  EventTyped(t)
<1>1. Advance(t, Fault) /\ contexts' = contexts /\ current' = current /\ prof' = prof
  BY DEF TablesMissing
<1> QED
  BY <1>1, EndsTyped, ProfileTyped DEF EventTyped, TypeOK

LEMMA ProfileThreadTyped ==
    ASSUME TypeOK, NEW t \in Thread, t \in alive, NEW call \in BOOLEAN,
           ProfileThread(t, call)
    PROVE  EventTyped(t)
<1>1. CASE TablesMissing(t)
  BY <1>1, TablesMissingTyped
<1>2. CASE prof' = SetProfile(t) /\ HaveContext(t, Profiled(t), call)
  BY <1>2, ProfileTyped, HaveContextTyped DEF EventTyped
<1> QED
  BY <1>1, <1>2 DEF ProfileThread

LEMMA Thread2CtxTyped ==
    ASSUME TypeOK, NEW t \in Thread, t \in alive, NEW call \in BOOLEAN,
           Thread2Ctx(t, call)
    PROVE  EventTyped(t)
<1>1. CASE TablesMissing(t)
  BY <1>1, TablesMissingTyped
<1>2. CASE HaveContext(t, contexts, call) /\ UNCHANGED prof
  BY <1>2, ProfileTyped, HaveContextTyped DEF EventTyped
<1>3. CASE Advance(t, InCallback("id_again", call)) /\ UNCHANGED <<contexts, current, prof>>
  <2>1. InCallback("id_again", call) \in Stage
    BY AsksTyped DEF Which
  <2> QED
    BY <1>3, <2>1, ProfileTyped DEF EventTyped, TypeOK
<1>4. CASE ProfileThread(t, call)
  BY <1>4, ProfileThreadTyped
<1> QED
  BY <1>1, <1>2, <1>3, <1>4 DEF Thread2Ctx

\* What the fields of a stage are.
LEMMA StageFields ==
    ASSUME NEW e \in Stage
    PROVE  /\ e.at = "hooked" => e.call \in BOOLEAN
           /\ e.at \in {"in", "after"} =>
                /\ e.call \in BOOLEAN /\ e.saved \in CtxRef
                /\ [e EXCEPT !.at = "after"] \in Stage
<1>1. CASE e \in {Idle, Fault}
  BY <1>1 DEF Idle, Fault
<1>2. CASE e \in [at: {"hooked"}, call: BOOLEAN]
  BY <1>2
<1>3. CASE e \in [at: {"in", "after"}, which: Which, call: BOOLEAN, saved: CtxRef]
  <2>1. e.call \in BOOLEAN /\ e.saved \in CtxRef
    BY <1>3
  <2>2. [e EXCEPT !.at = "after"]
          \in [at: {"in", "after"}, which: Which, call: BOOLEAN, saved: CtxRef]
    BY <1>3
  <2>3. [e EXCEPT !.at = "after"] \in Stage
    BY <2>2 DEF Stage
  <2> QED
    BY <2>1, <2>3
<1> QED
  BY <1>1, <1>2, <1>3 DEF Stage

LEMMA EventIsStage == TypeOK => event \in [Thread -> Stage]
  BY DEF TypeOK, Stage, Which

LEMMA EventTypedKeeps ==
    ASSUME TypeOK, NEW t \in Thread, EventTyped(t), EventUnchanged
    PROVE  TypeOK'
<1>1. event' \in [Thread -> Stage]
  BY EventIsStage DEF EventTyped, Advance
<1>2. UNCHANGED <<settings, running, haveStats, initialized, paused, generation,
                  initialCtx, hook, alive, todo, reading, wanted, starters, made>>
  BY DEF EventUnchanged, flags
<1>3. current' \in CtxRef /\ ContextTable(contexts)' /\ ProfileFunctions(prof)'
  BY <1>2 DEF EventTyped, ContextTable, ProfileFunctions
<1> QED
  BY <1>1, <1>2, <1>3 DEF TypeOK, Stage, Which, ContextTable, ProfileFunctions, CtxRef

LEMMA EventBeginsTyped ==
    ASSUME TypeOK, NEW t \in Thread, NEW call \in BOOLEAN,
           EventBegins(t, call) \/ HookBegins(t, call)
    PROVE  TypeOK'
<1>1. t \in alive /\ EventUnchanged
  BY DEF EventBegins, HookBegins, MayRun
<1>2. CASE Advance(t, InCallback("id", call)) /\ UNCHANGED <<contexts, current, prof>>
  <2>1. InCallback("id", call) \in Stage
    BY AsksTyped DEF Which
  <2> QED
    BY <1>1, <1>2, <2>1, ProfileTyped, EventTypedKeeps DEF EventTyped, TypeOK
<1>3. CASE Thread2Ctx(t, call)
  BY <1>1, <1>3, Thread2CtxTyped, EventTypedKeeps
<1>4. CASE Advance(t, Hooked(call)) /\ UNCHANGED <<contexts, current, prof>>
  <2>1. Hooked(call) \in Stage
    BY DEF Hooked, Stage
  <2> QED
    BY <1>1, <1>4, <2>1, ProfileTyped, EventTypedKeeps DEF EventTyped, TypeOK
<1> QED
  BY <1>2, <1>3, <1>4 DEF EventBegins, HookBegins

LEMMA ProfileEventTyped ==
    ASSUME TypeOK, NEW t \in Thread, ProfileEvent(t)
    PROVE  TypeOK'
<1> DEFINE call == event[t].call
<1>1. t \in alive /\ EventUnchanged /\ event[t].at = "hooked"
  BY DEF ProfileEvent, MayRun
<1>2. call \in BOOLEAN
  BY <1>1, EventIsStage, StageFields
<1>3. \/ /\ Advance(t, InCallback("id", call)) \/ Advance(t, InCallback("hook_id", call))
         /\ UNCHANGED <<contexts, current, prof>>
      \/ Thread2Ctx(t, call)
      \/ ProfileThread(t, call)
  BY DEF ProfileEvent
<1> HIDE DEF call
<1>4. InCallback("id", call) \in Stage /\ InCallback("hook_id", call) \in Stage
  BY <1>2, AsksTyped DEF Which
<1>5. EventTyped(t)
  <2>1. CASE Thread2Ctx(t, call)
    BY <1>1, <1>2, <2>1, Thread2CtxTyped
  <2>2. CASE ProfileThread(t, call)
    BY <1>1, <1>2, <2>2, ProfileThreadTyped
  <2>3. CASE UNCHANGED <<contexts, current, prof>> /\ \E e \in Stage : Advance(t, e)
    BY <1>1, <2>3, ProfileTyped DEF EventTyped, TypeOK
  <2> QED
    BY <1>3, <1>4, <2>1, <2>2, <2>3
<1> QED
  BY <1>1, <1>5, EventTypedKeeps

LEMMA CallbackReturnsTyped ==
    ASSUME TypeOK, NEW t \in Thread, CallbackReturns(t)
    PROVE  TypeOK'
<1> DEFINE e == [event[t] EXCEPT !.at = "after"]
<1>1. /\ t \in alive /\ EventUnchanged /\ event[t].at = "in"
      /\ Advance(t, e) /\ current' = event[t].saved /\ UNCHANGED <<contexts, prof>>
  BY DEF CallbackReturns, MayRun, RestoreContext
<1>2. e \in Stage /\ event[t].saved \in CtxRef
  BY <1>1, EventIsStage, StageFields
<1> HIDE DEF e
<1>3. EventTyped(t)
  BY <1>1, <1>2, ProfileTyped DEF EventTyped
<1> QED
  BY <1>1, <1>3, EventTypedKeeps

LEMMA EventContinuesTyped ==
    ASSUME TypeOK, NEW t \in Thread, EventContinues(t)
    PROVE  TypeOK'
<1> DEFINE call == event[t].call
<1>1. t \in alive /\ EventUnchanged /\ event[t].at = "after"
  BY DEF EventContinues, MayRun
<1>2. call \in BOOLEAN
  BY <1>1, EventIsStage, StageFields
<1>3. \/ Thread2Ctx(t, call)
      \/ ProfileThread(t, call)
      \/ TablesMissing(t)
      \/ /\ prof' = SetProfile(t) /\ contexts' = Profiled(t) /\ current' = current
         /\ Advance(t, InCallback("id", call))
      \/ AfterName(t)
      \/ AfterTag(t)
  BY DEF EventContinues, AfterId, AfterIdAgain, AfterHookId
<1>4. ASSUME AfterName(t) PROVE EventTyped(t)
  <2>1. current \in CtxRef /\ current' = current /\ prof' = prof
    BY <1>4 DEF AfterName, TypeOK
  <2>2. CASE Advance(t, Fault) /\ contexts' = contexts
    BY <1>1, <2>1, <2>2, EndsTyped, ProfileTyped DEF EventTyped
  <2>3. CASE /\ \E got \in BOOLEAN : contexts' = [contexts EXCEPT ![current.id] = got]
             /\ TagAndRecord(t, current, call)
    <3>1. ContextTable(contexts')
      BY <1>1, <2>3, ProfileTyped DEF ContextTable
    <3>2. \E e \in Stage : Advance(t, e)
      BY <1>2, <2>1, <2>3, TagAndRecordTyped
    <3> QED
      BY <1>1, <2>1, <3>1, <3>2, ProfileTyped DEF EventTyped
  <2> QED
    BY <1>4, <2>2, <2>3 DEF AfterName
<1>5. ASSUME AfterTag(t) PROVE EventTyped(t)
  <2>1. /\ Advance(t, Idle) \/ Advance(t, Fault)
        /\ UNCHANGED <<contexts, current, prof>>
    BY <1>5 DEF AfterTag, Record
  <2> QED
    BY <1>1, <2>1, EndsTyped, ProfileTyped DEF EventTyped, TypeOK
<1> HIDE DEF call
<1>6. InCallback("id", call) \in Stage
  BY <1>2, AsksTyped DEF Which
<1>7. EventTyped(t)
  <2>1. CASE Thread2Ctx(t, call)
    BY <1>1, <1>2, <2>1, Thread2CtxTyped
  <2>2. CASE ProfileThread(t, call)
    BY <1>1, <1>2, <2>2, ProfileThreadTyped
  <2>3. CASE TablesMissing(t)
    BY <1>1, <2>3, TablesMissingTyped
  <2>4. CASE /\ prof' = SetProfile(t) /\ contexts' = Profiled(t) /\ current' = current
             /\ Advance(t, InCallback("id", call))
    BY <1>1, <1>6, <2>4, ProfileTyped DEF EventTyped, TypeOK
  <2> QED
    BY <1>3, <1>4, <1>5, <2>1, <2>2, <2>3, <2>4
<1> QED
  BY <1>1, <1>7, EventTypedKeeps

\* Everything that a step of a function of the profiler, or the start of a
\* thread, may change has its type.
LEMMA TypesKept ==
    ASSUME TypeOK, settings' = settings,
           running' \in BOOLEAN, haveStats' \in BOOLEAN, initialized' \in BOOLEAN,
           paused' \in BOOLEAN, hook' \in BOOLEAN, wanted' \in BOOLEAN,
           generation' \in Nat, ContextTable(contexts)',
           current' \in CtxRef, initialCtx' \in CtxRef,
           alive' \subseteq Thread, ProfileFunctions(prof)',
           event' \in [Thread -> Stage], todo' \in [Thread -> Seq(StepLeft)],
           reading' \in [Thread -> Nat], starters' \subseteq Caller,
           made' \in 0..MaxCalls
    PROVE  TypeOK'
  BY DEF TypeOK, Stage, Which, ContextTable, ProfileFunctions, CtxRef, StepLeft

LEMMA TypeParts ==
    ASSUME TypeOK
    PROVE  /\ running \in BOOLEAN /\ haveStats \in BOOLEAN /\ initialized \in BOOLEAN
           /\ paused \in BOOLEAN /\ hook \in BOOLEAN /\ wanted \in BOOLEAN
           /\ generation \in Nat /\ ContextTable(contexts)
           /\ current \in CtxRef /\ initialCtx \in CtxRef
           /\ alive \subseteq Thread /\ ProfileFunctions(prof)
           /\ event \in [Thread -> Stage] /\ todo \in [Thread -> Seq(StepLeft)]
           /\ reading \in [Thread -> Nat] /\ starters \subseteq Caller
           /\ made \in 0..MaxCalls
  BY DEF TypeOK, Stage, Which, ContextTable, ProfileFunctions, StepLeft

LEMMA APIStepTyped ==
    ASSUME TypeOK, NEW t \in Caller, APIStep(t)
    PROVE  TypeOK'
<1> USE DEF Unhindered, flags, history, tables
<1>1. t \in Thread /\ t \in alive /\ Caller \subseteq Thread
  BY SessionAssumption DEF APIStep, SetHook, UnsetHook, Start, Stop, Pause, Resume,
     WaitEnds, Clear, Enumerate, Enumerated, NextStep
<1>2. todo' \in [Thread -> Seq(StepLeft)]
  <2>1. PICK step : NextStep(t, step)
    BY DEF APIStep, SetHook, UnsetHook, Start, Stop, Pause, Resume,
       WaitEnds, Clear, Enumerate, Enumerated
  <2>2. todo[t] \in Seq(StepLeft) /\ todo[t] # <<>>
    BY <1>1, <2>1, TypeParts DEF NextStep
  <2>3. Tail(todo[t]) \in Seq(StepLeft)
    BY <2>2
  <2> QED
    BY <2>1, <2>3, TypeParts DEF NextStep
<1>3. NoCtx \in CtxRef /\ ContextTable([c \in {} |-> FALSE])
  BY DEF NoCtx, CtxRef, ContextTable
<1>4. CASE SetHook(t) \/ UnsetHook(t) \/ WaitEnds(t) \/ Enumerate(t)
  <2>1. UNCHANGED <<settings, running, haveStats, initialized, paused, wanted,
                    generation, contexts, current, initialCtx, alive, prof, event,
                    starters, made>>
    BY <1>4 DEF SetHook, UnsetHook, WaitEnds, Enumerate
  <2>2. hook' \in BOOLEAN
    BY <1>4, TypeParts DEF SetHook, UnsetHook, WaitEnds, Enumerate
  <2>3. reading' \in [Thread -> Nat]
    BY <1>4, TypeParts DEF SetHook, UnsetHook, WaitEnds, Enumerate
  <2>4. ContextTable(contexts)' /\ ProfileFunctions(prof)'
    BY <2>1, TypeParts DEF ContextTable, ProfileFunctions
  <2> QED
    BY <1>2, <2>1, <2>2, <2>3, <2>4, TypeParts, TypesKept
<1>5. ASSUME StartProfiler(t), UNCHANGED <<settings, event, alive, made, hook, reading>>,
             paused' \in BOOLEAN, wanted' \in BOOLEAN, starters' \subseteq Caller
      PROVE  TypeOK'
  <2>1. /\ running' = TRUE /\ haveStats' = TRUE /\ initialized' = TRUE
        /\ generation' = generation /\ current' = current
        /\ prof' \in {prof, SetProfile(t), SetProfileEverywhere}
        /\ contexts' \in {contexts, Profiled(t)}
        /\ initialCtx' \in {initialCtx, Ref(CtxId(t))}
    BY <1>5 DEF StartProfiler, InitProfiler
  <2>2. ContextTable(contexts')
    BY <1>1, <2>1, ProfileTyped
  <2>3. ProfileFunctions(prof')
    BY <1>1, <2>1, ProfileTyped
  <2>4. ContextTable(contexts)' /\ ProfileFunctions(prof)'
    BY <1>5, <2>2, <2>3 DEF ContextTable, ProfileFunctions
  <2>5. initialCtx' \in CtxRef
    BY <1>1, <2>1, CtxIdTyped, TypeParts
  <2> QED
    BY <1>2, <1>5, <2>1, <2>4, <2>5, TypeParts, TypesKept
<1>6. ASSUME AlreadyStarted, UNCHANGED <<settings, event, alive, made, hook, reading>>,
             paused' \in BOOLEAN, wanted' \in BOOLEAN, starters' \subseteq Caller
      PROVE  TypeOK'
  <2>1. UNCHANGED <<running, haveStats, initialized, prof, generation, contexts,
                    current, initialCtx>>
    BY <1>6 DEF AlreadyStarted
  <2>2. ContextTable(contexts)' /\ ProfileFunctions(prof)'
    BY <1>6, <2>1, TypeParts DEF ContextTable, ProfileFunctions
  <2> QED
    BY <1>2, <1>6, <2>1, <2>2, TypeParts, TypesKept
<1>7. CASE Start(t) \/ Resume(t)
  <2>1. /\ UNCHANGED <<settings, event, alive, made, hook, reading>>
        /\ StartProfiler(t) \/ AlreadyStarted
        /\ paused' \in {paused, FALSE} /\ wanted' \in {wanted, TRUE}
        /\ starters' \in {starters, starters \cup {t}}
    BY <1>7 DEF Start, Resume
  <2>2. paused' \in BOOLEAN /\ wanted' \in BOOLEAN /\ starters' \subseteq Caller
    BY <2>1, TypeParts
  <2> QED
    BY <1>5, <1>6, <2>1, <2>2
<1>8. CASE Stop(t) \/ Pause(t)
  <2>1. /\ UNCHANGED <<settings, haveStats, initialized, generation, contexts, current,
                       initialCtx, hook, reading, starters, event, alive, made>>
        /\ running' = FALSE /\ paused' \in {paused, paused \/ running}
        /\ wanted' \in {wanted, FALSE}
        /\ prof' \in {prof, UnsetProfileEverywhere}
    BY <1>8 DEF Stop, Pause, StopProfiler, PausedFlag
  <2>2. ProfileFunctions(prof')
    BY <1>1, <2>1, ProfileTyped
  <2>3. ContextTable(contexts)' /\ ProfileFunctions(prof)'
    BY <2>1, <2>2, TypeParts DEF ContextTable, ProfileFunctions
  <2>4. paused' \in BOOLEAN /\ wanted' \in BOOLEAN
    BY <2>1, TypeParts
  <2> QED
    BY <1>2, <2>1, <2>3, <2>4, TypeParts, TypesKept
<1>9. CASE Clear(t)
  <2>1. /\ UNCHANGED <<settings, running, paused, hook, prof, reading, wanted, starters,
                       event, alive, made>>
        /\ \/ /\ haveStats' = FALSE /\ initialized' = FALSE
              /\ generation' = generation + 1
              /\ contexts' = [c \in {} |-> FALSE]
              /\ current' = NoCtx /\ initialCtx' = NoCtx
           \/ UNCHANGED <<haveStats, initialized, generation, contexts, current, initialCtx>>
    BY <1>9 DEF Clear
  <2>2. /\ haveStats' \in BOOLEAN /\ initialized' \in BOOLEAN
        /\ current' \in CtxRef /\ initialCtx' \in CtxRef
    BY <1>3, <2>1, TypeParts
  <2>5. generation' \in Nat
    <3>1. generation \in Nat /\ generation' \in {generation, generation + 1}
      BY <2>1, TypeParts
    <3> QED
      BY <3>1
  <2>3. ContextTable(contexts')
    BY <1>3, <2>1, TypeParts
  <2>4. ContextTable(contexts)' /\ ProfileFunctions(prof)'
    BY <2>1, <2>3, TypeParts DEF ContextTable, ProfileFunctions
  <2> QED
    BY <1>2, <2>1, <2>2, <2>4, <2>5, TypeParts, TypesKept
<1>10. CASE Enumerated(t)
  <2>1. /\ UNCHANGED <<settings, running, haveStats, initialized, paused, wanted,
                    generation, contexts, current, initialCtx, alive, prof, hook,
                    starters, made>>
        /\ reading' = [reading EXCEPT ![t] = 0]
        /\ Advance(t, Idle) \/ Advance(t, Fault)
    BY <1>10 DEF Enumerated
  <2>2. event' \in [Thread -> Stage]
    BY <2>1, EndsTyped, TypeParts DEF Advance
  <2>3. reading' \in [Thread -> Nat]
    BY <2>1, TypeParts
  <2>4. ContextTable(contexts)' /\ ProfileFunctions(prof)'
    BY <2>1, TypeParts DEF ContextTable, ProfileFunctions
  <2> QED
    BY <1>2, <2>1, <2>2, <2>3, <2>4, TypeParts, TypesKept
<1> QED
  BY <1>4, <1>7, <1>8, <1>9, <1>10 DEF APIStep

LEMMA TypeInit == Init => TypeOK
<1> SUFFICES ASSUME Init PROVE TypeOK
  OBVIOUS
<1>1. NoCtx \in CtxRef
  BY DEF NoCtx, CtxRef
<1>2. event \in [Thread -> Stage]
  BY EndsTyped DEF Init
<1>3. todo \in [Thread -> Seq(StepLeft)]
  BY DEF Init
<1>4. prof \in [Thread -> {"none", "python", "c"}] /\ \A t \in Thread : prof[t] = "none"
  BY DEF Init
<1>5. DOMAIN contexts \subseteq Thread \cup {"0"} /\ contexts \in [DOMAIN contexts -> BOOLEAN]
  BY DEF Init
<1>6. alive \subseteq Thread /\ made \in 0..MaxCalls
  BY SessionAssumption DEF Init
<1> QED
  BY <1>1, <1>2, <1>3, <1>4, <1>5, <1>6 DEF Init, TypeOK, Stage, Which, StepLeft

LEMMA TypeStep == TypeOK /\ [Next]_vars => TypeOK'
<1> SUFFICES ASSUME TypeOK, [Next]_vars PROVE TypeOK'
  OBVIOUS
<1>1. ASSUME NEW t \in Thread, ThreadStarts(t) PROVE TypeOK'
  <2>1. /\ alive' = alive \cup {t}
        /\ prof' = [prof EXCEPT ![t] = IF hook THEN "python" ELSE "none"]
        /\ UNCHANGED <<settings, running, haveStats, initialized, paused, wanted,
                       generation, contexts, current, initialCtx, event, hook, todo,
                       reading, starters, made>>
    BY <1>1 DEF ThreadStarts, flags, tables, history
  <2>2. ProfileFunctions(prof)'
    BY <2>1, TypeParts DEF ProfileFunctions
  <2>3. ContextTable(contexts)' /\ alive' \subseteq Thread
    BY <2>1, TypeParts DEF ContextTable
  <2> QED
    BY <2>1, <2>2, <2>3, TypeParts, TypesKept
<1>2. ASSUME NEW t \in Thread, NEW call \in BOOLEAN,
             EventBegins(t, call) \/ HookBegins(t, call)
      PROVE  TypeOK'
  BY <1>2, EventBeginsTyped
<1>3. ASSUME NEW t \in Thread, EventStep(t) PROVE TypeOK'
  BY <1>3, ProfileEventTyped, CallbackReturnsTyped, EventContinuesTyped DEF EventStep
<1>4. ASSUME NEW t \in Caller, NEW f \in Calls, CallAPI(t, f) PROVE TypeOK'
  <2>1. /\ made < MaxCalls /\ made' = made + 1
        /\ todo' = [todo EXCEPT ![t] = Steps[f]]
        /\ UNCHANGED <<settings, running, haveStats, initialized, paused, wanted,
                       generation, contexts, current, initialCtx, event, hook, alive,
                       prof, reading, starters>>
    BY <1>4 DEF CallAPI, flags, tables
  <2>2. made' \in 0..MaxCalls
    BY <2>1, TypeParts, SessionAssumption
  <2>3. Steps[f] \in Seq(StepLeft)
    BY StepsAreLeft, SessionAssumption
  <2>4. todo' \in [Thread -> Seq(StepLeft)]
    BY <2>1, <2>3, TypeParts
  <2>5. ContextTable(contexts)' /\ ProfileFunctions(prof)'
    BY <2>1, TypeParts DEF ContextTable, ProfileFunctions
  <2> QED
    BY <2>1, <2>2, <2>4, <2>5, TypeParts, TypesKept
<1>5. ASSUME NEW t \in Caller, APIStep(t) PROVE TypeOK'
  BY <1>5, APIStepTyped
<1>6. CASE UNCHANGED vars
  <2>1. UNCHANGED <<settings, running, haveStats, initialized, paused, wanted,
                       generation, contexts, current, initialCtx, event, hook, alive,
                       prof, reading, starters, todo, made>>
    BY <1>6 DEF vars, flags, tables, history
  <2>2. ContextTable(contexts)' /\ ProfileFunctions(prof)'
    BY <2>1, TypeParts DEF ContextTable, ProfileFunctions
  <2> QED
    BY <2>1, <2>2, TypeParts, TypesKept
<1> QED
  BY <1>1, <1>2, <1>3, <1>4, <1>5, <1>6 DEF Next

\* Whatever functions the callers call, and whatever callbacks are installed, the
\* flags, tables and stages keep their types; in particular no thread has a
\* profile function before it has started.
THEOREM SessionTyped == Spec => []TypeOK
  BY TypeInit, TypeStep, PTL DEF Spec
-----------------------------------------------------------------------------
(* Every thread is profiled. *)

\* While the profiler runs, or is paused, or about to be started by c, the hook
\* for new threads is in force; c takes it away when the profiler is stopped.
HookInv(c) ==
    /\ Multi /\ (running \/ paused \/ At(c, "start")) => hook
    /\ At(c, "unhook") => ~running /\ ~paused
    /\ EveryThreadProfiled

LEMMA HookInit == ASSUME NEW c \in Thread, Init PROVE HookInv(c)
  BY DEF Init, HookInv, EveryThreadProfiled, At

\* A profile function is never taken from a thread that lives.
Covers(p) == \A u \in alive : p[u] = "none" => prof[u] = "none"

LEMMA HookFrame ==
    ASSUME NEW c, HookInv(c), Covers(prof'),
           UNCHANGED <<settings, running, paused, todo, alive>>,
           hook' \/ hook' = hook
    PROVE  HookInv(c)'
  BY DEF HookInv, EveryThreadProfiled, Covers, At, Multi

LEMMA ProfileCovers ==
    ASSUME TypeOK, NEW t \in Thread
    PROVE  Covers(prof) /\ Covers(SetProfile(t)) /\ Covers(SetProfileEverywhere)
  BY DEF TypeOK, Covers, SetProfile, SetProfileEverywhere

LEMMA ProfileThreadCovers ==
    ASSUME TypeOK, NEW t \in Thread, NEW call, ProfileThread(t, call)
    PROVE  Covers(prof')
  BY ProfileCovers DEF ProfileThread, TablesMissing

LEMMA Thread2CtxCovers ==
    ASSUME TypeOK, NEW t \in Thread, NEW call, Thread2Ctx(t, call)
    PROVE  Covers(prof')
<1>1. prof' = prof \/ ProfileThread(t, call)
  BY DEF Thread2Ctx, TablesMissing
<1> QED
  BY <1>1, ProfileCovers, ProfileThreadCovers

LEMMA EventCovers ==
    ASSUME TypeOK, NEW t \in Thread, NEW call,
           EventBegins(t, call) \/ HookBegins(t, call) \/ EventStep(t)
    PROVE  Covers(prof') /\ EventUnchanged
<1>1. EventUnchanged
  BY DEF EventBegins, HookBegins, EventStep, ProfileEvent, CallbackReturns,
         EventContinues
<1>2. \/ prof' = prof \/ prof' = SetProfile(t)
      \/ \E k : Thread2Ctx(t, k) \/ ProfileThread(t, k)
  BY DEF EventBegins, HookBegins, EventStep, ProfileEvent, CallbackReturns,
         EventContinues, AfterId, AfterIdAgain, AfterHookId, AfterName, AfterTag,
         TablesMissing
<1> QED
  BY <1>1, <1>2, ProfileCovers, ProfileThreadCovers, Thread2CtxCovers

\* A thread that is started gets the hook.
LEMMA HookThreadStarts ==
    ASSUME NEW c, TypeOK, HookInv(c), NEW t \in Thread, ThreadStarts(t)
    PROVE  HookInv(c)'
<1>1. /\ UNCHANGED <<settings, running, paused, todo, hook>>
      /\ alive' = alive \cup {t}
      /\ prof' = [prof EXCEPT ![t] = IF hook THEN "python" ELSE "none"]
      /\ prof \in [Thread -> {"none", "python", "c"}] /\ alive \subseteq Thread
  BY DEF ThreadStarts, flags, TypeOK
<1>2. Multi' = Multi
  BY <1>1 DEF Multi
<1>3. ASSUME Multi, running PROVE \A u \in alive' : prof'[u] # "none"
  BY <1>1, <1>3 DEF HookInv, EveryThreadProfiled
<1>4. EveryThreadProfiled'
  BY <1>1, <1>2, <1>3 DEF EveryThreadProfiled
<1> QED
  BY <1>1, <1>2, <1>4 DEF HookInv, At

\* The steps of the functions; only start() and _resume make the profiler run, and
\* both find the hook in force.
LEMMA HookAPI ==
    ASSUME NEW c \in Thread, TypeOK, ControlInv(c), HookInv(c), APIStep(c)
    PROVE  HookInv(c)'
<1> USE DEF Unhindered, flags, history
<1>1. settings' = settings /\ alive' = alive /\ Multi' = Multi
  BY DEF APIStep, SetHook, UnsetHook, Start, Stop, Pause, Resume, WaitEnds, Clear,
         Enumerate, Enumerated, Multi
<1>2. ASSUME NEW step, NextStep(c, step), step \notin {"hook", "stop"}
      PROVE  ~At(c, "start")' /\ ~At(c, "unhook")'
  BY <1>2, NextAt
<1>3. CASE SetHook(c)
  <2>1. /\ NextStep(c, "hook") /\ hook' = (hook \/ Multi)
        /\ UNCHANGED <<running, paused, prof>>
    BY <1>3 DEF SetHook
  <2>2. ~At(c, "unhook")'
    BY <2>1, NextAt
  <2> QED
    BY <1>1, <2>1, <2>2 DEF HookInv, EveryThreadProfiled
<1>4. CASE UnsetHook(c)
  <2>1. NextStep(c, "unhook") /\ UNCHANGED <<running, paused>>
    BY <1>4 DEF UnsetHook
  <2>2. ~running /\ ~paused
    BY <2>1 DEF NextStep, At, HookInv
  <2>3. ~At(c, "start")' /\ ~At(c, "unhook")'
    BY <1>2, <2>1
  <2> QED
    BY <2>1, <2>2, <2>3 DEF HookInv, EveryThreadProfiled
<1>5. CASE Start(c)
  <2>1. NextStep(c, "start") /\ hook' = hook /\ paused' = paused
    BY <1>5 DEF Start
  <2>2. Multi => hook
    BY <2>1 DEF NextStep, At, HookInv
  <2>3. ~At(c, "start")' /\ ~At(c, "unhook")'
    BY <1>2, <2>1
  <2>4. EveryThreadProfiled'
    BY <1>1, <1>5 DEF Start, AlreadyStarted, StartProfiler, SetProfileEverywhere,
       HookInv, EveryThreadProfiled, TypeOK
  <2> QED
    BY <1>1, <2>1, <2>2, <2>3, <2>4 DEF HookInv
<1>6. CASE Stop(c)
  <2>1. NextStep(c, "stop") /\ hook' = hook /\ paused' = paused /\ running' = FALSE
    BY <1>6 DEF Stop, StopProfiler
  <2>2. Steady
    BY <2>1, StepFinds
  <2>3. ~At(c, "start")'
    BY <2>1, NextAt
  <2> QED
    BY <2>1, <2>2, <2>3 DEF HookInv, EveryThreadProfiled, Steady
<1>7. CASE Pause(c)
  <2>1. /\ NextStep(c, "pause") /\ hook' = hook
        /\ paused' = (paused \/ running) /\ running' = FALSE
    BY <1>7 DEF Pause, PausedFlag, StopProfiler
  <2>2. ~At(c, "start")' /\ ~At(c, "unhook")'
    BY <1>2, <2>1
  <2> QED
    BY <1>1, <2>1, <2>2 DEF HookInv, EveryThreadProfiled
<1>8. CASE Resume(c)
  <2>1. NextStep(c, "resume") /\ hook' = hook /\ paused' = FALSE
        /\ running' = (running \/ paused)
    BY <1>8 DEF Resume, AlreadyStarted, StartProfiler, TypeOK
  <2>2. ~At(c, "start")' /\ ~At(c, "unhook")'
    BY <1>2, <2>1
  <2>3. EveryThreadProfiled'
    BY <1>1, <1>8 DEF Resume, AlreadyStarted, StartProfiler, SetProfileEverywhere,
       HookInv, EveryThreadProfiled, TypeOK
  <2> QED
    BY <1>1, <2>1, <2>2, <2>3 DEF HookInv
<1>9. CASE WaitEnds(c) \/ Clear(c) \/ Enumerate(c) \/ Enumerated(c)
  <2>1. \E step \in {"wait", "clear", "enumerate", "enumerated"} : NextStep(c, step)
    BY <1>9 DEF WaitEnds, Clear, Enumerate, Enumerated
  <2>2. UNCHANGED <<running, paused, hook, prof>>
    BY <1>9 DEF WaitEnds, Clear, Enumerate, Enumerated
  <2>3. ~At(c, "start")' /\ ~At(c, "unhook")'
    BY <1>2, <2>1
  <2> QED
    BY <1>1, <2>2, <2>3 DEF HookInv, EveryThreadProfiled
<1> QED
  BY <1>3, <1>4, <1>5, <1>6, <1>7, <1>8, <1>9 DEF APIStep

LEMMA HookStep ==
    ASSUME NEW c \in Thread, Caller = {c}, TypeOK, ControlInv(c), HookInv(c),
           [Next]_vars
    PROVE  HookInv(c)'
<1>1. ASSUME NEW t \in Thread, ThreadStarts(t) PROVE HookInv(c)'
  BY <1>1, HookThreadStarts
<1>2. ASSUME NEW t \in Thread, NEW call,
             EventBegins(t, call) \/ HookBegins(t, call) \/ EventStep(t)
      PROVE  HookInv(c)'
  <2>1. Covers(prof') /\ EventUnchanged
    BY <1>2, EventCovers
  <2> QED
    BY <2>1, HookFrame DEF EventUnchanged, flags
<1>3. ASSUME NEW f \in Calls, CallAPI(c, f) PROVE HookInv(c)'
  <2>1. ~At(c, "start")' /\ ~At(c, "unhook")'
    BY <1>3, CallAt
  <2> QED
    BY <1>3, <2>1 DEF CallAPI, flags, HookInv, EveryThreadProfiled, Multi
<1>4. CASE APIStep(c)
  BY <1>4, HookAPI
<1>5. CASE UNCHANGED vars
  BY <1>5, HookFrame, ProfileCovers DEF vars, flags, history
<1> QED
  BY <1>1, <1>2, <1>3, <1>4, <1>5 DEF Next

\* With one thread that calls the profiler's functions and any number of threads
\* that the program starts at any moment, also between the two statements of
\* start() and of stop(), in a pause and during any callback: as long as the
\* profiler runs with profile_threads=True, no living thread is without a profile
\* function.
THEOREM AllThreadsAreProfiled ==
    ASSUME NEW c \in Thread, Caller = {c}
    PROVE  Spec => []EveryThreadProfiled
<1> DEFINE Inv == TypeOK /\ ControlInv(c) /\ HookInv(c)
<1>1. Init => Inv
  BY TypeInit, ControlInit, HookInit
<1>2. Inv /\ [Next]_vars => Inv'
  BY TypeStep, ControlStep, HookStep
<1>3. Inv => EveryThreadProfiled
  BY DEF HookInv
<1> HIDE DEF Inv
<1> QED
  BY <1>1, <1>2, <1>3, PTL DEF Spec

=============================================================================
