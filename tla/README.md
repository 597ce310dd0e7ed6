# A verification project for yappi

yappi is a deterministic profiler for Python programs with many threads,
greenlets or coroutines.  A C extension (`yappi/_yappi.c` and its containers)
is called by the interpreter for every call and return of the profiled
program; a Python module (`yappi/yappi.py`) starts it, stops it and turns its
tables into statistics.  This directory holds TLA+ models of the parts where
the program's own logic is hard to test, TLC configurations that check them on
small instances, and proofs that TLAPS checks for every value of the
constants.

    tlc -config CallStats_sync.cfg MCCallStats.tla     model-check one run
    tlapm CallStatsProofs.tla                          check one module's proofs

Contents: [components](#1-the-system), [plan](#2-plan),
[modules](#3-modules-and-how-they-correspond-to-the-code),
[runs](#4-runs), [fairness](#5-fairness), [proofs](#6-proofs),
[divergences](#7-where-code-and-documentation-disagree),
[what is left out](#8-what-is-not-modelled).

## 1. The system

### Components

| component | source | state | operations |
|---|---|---|---|
| call accounting of a context | `_yappi.c` | call stack `cs`, tags → pits, children of each pit, `rec_levels`, coroutine lists of pits | `_call_enter`, `_call_leave`, `_pitenumstat` |
| profiled program | (the interpreter) | its own stack, the thread's profile function | call, return |
| readers inside the program | `yappi.py` | `paused`, `yapprunning` | `get_func_stats`, `get_thread_stats`, `_pause`, `_resume` |
| session and threads | `_yappi.c`, `yappi.py` | `yapprunning`, `yapphavestats`, `yappinitialized`, `paused`, `_callback_depth`, table `contexts`, `current_ctx`, `initial_ctx`, every thread's profile function, the `threading` hook | `start`, `stop`, `clear_stats`, `_pause`, `_resume`, `_wait_for_callbacks`, enumeration, `_yapp_callback`, `profile_event`, the callbacks for id, name and tag |
| hash table | `hashtab.c` | buckets, `count`, `freecount`, `logsize` | `hadd`, `hfind`, `hfree`, `henum`, `_hgrow` |
| call stack | `callstack.c` | `_items`, `head`, `size` | `spush`, `spop`, `shead`, `_sgrow` |
| free lists | `freelist.c` | `items`, `head`, `size` | `flget`, `flput`, `_flgrow`, `fldestroy` |
| greenlet contexts | `_yappi.c`, `tls.c` | `gl_state` and time stamps of each context, `tl_prev_ctx_key` of each thread | a switch noticed by `_yapp_callback`, `_pause_greenlet_ctx`, `_resume_greenlet_ctx` |
| coroutine wall time | `_yappi.c` | the coroutine list of a pit | `_coro_enter`, `_coro_exit` |
| settings | `_yappi.c`, `yappi.py` | clock type, context backend, callbacks, the level of a decorated function | `set_clock_type`, `set_context_backend`, `set_*_callback`, `profile`, `run` |
| statistics objects | `yappi.py` | `YFuncStats`, `YChildFuncStats`: items, indexes, clock, `_idx_max` | `get`, `append`, `add`, `save`, `clear`, `_add_from_YSTAT`, `convert2pstats` |
| clocks | `timing.c` | clock type | `tickcount`, `tickfactor` |
| thread local storage | `tls.c` | a value per thread | create, delete, set, get |
| memory accounting, debug output | `mem.c`, `debug.h` | | |

### How they interact

The interpreter calls `_yapp_callback` in the thread that makes a call or
returns from one, under the interpreter lock.  The callback finds the thread's
context in the hash table `contexts` (through a Python callback if an id
callback is installed), gives it a name (a Python callback), looks up the tag
of a call (a Python callback) and lets `_call_enter` or `_call_leave` update
that context.  Each of the three Python callbacks lets other threads run in
the middle of the event.  Pits and contexts are chunks of two pools; the call
stack and the tables belong to their context.

`start` sets the profile function of every thread, `stop` unsets it.
`clear_stats` in Python pauses, waits in a busy loop until no callback is in
progress, has the C function of that name free all tables and both pools, and
resumes.  The functions that read statistics pause, walk the tables calling
Python for every record, and resume; the records become a statistics object,
which can be saved and merged with others.  All of this happens while the profiled
program, of which these functions are a part, runs in the same interpreter.

### What is hard

* **The accounting.**  `_call_leave` never looks which function is leaving.  It
  moves time out of the caller's self time, which is negative in the meantime,
  decides by recursion levels who is charged cumulative time, and does this
  for functions and for pairs of caller and callee at once.  Coroutines leave
  without being done; allocations fail half way; profiling begins inside calls.
* **Reading writes.**  `_pitenumstat` stores a call count of 1 over 0 and a
  self time of 0 over a negative one.
* **Pausing at another depth.**  `_pause` and `_resume` are themselves called
  functions of the profiled program, at different depths of its stack.
* **Turns of threads inside an event** (callbacks), inside an enumeration (one
  call of Python per record) and between the steps of the Python functions.
* **Lifetimes.**  `clear_stats` frees everything that an event in a callback
  will use when the callback returns.
* **Switches nobody reports.**  That a thread runs another greenlet is noticed
  at that greenlet's first event; a coroutine is known by the address of a
  frame that will be used again.
* **Identities that change.**  A function has one record per context, each with
  an index; merging gives it one, loading gives it another, and callees name it
  by index.
* **Who starts and who stops.**  The wrapper of a decorated function decides by
  a counter, through recursion and exceptions, whether it clears, starts and
  stops the one profiler there is.
* **Containers that recycle.**  Items of the hash table are never unlinked;
  growing it moves free items too.  `spush` writes half of a slot.

### What makes each component correct

* Call accounting: recursion levels are numbers of activations; the books of
  functions and of pairs balance; cumulative time is counted once; self time
  excludes callees; nothing that `_call_leave` looks up is missing.
* Program and readers: the profiler's stack mirrors the part of the program's
  stack that it has seen; a reader leaves the profiler as it found it.
* Session: no freed table is used; an event is charged to the context of its
  thread; a running profiler leaves no thread out; it runs just if the program asked
  for it; what is enumerated is not added to; waiting ends.
* Greenlets: a call is charged the CPU time of its greenlet only.  Coroutines:
  wall time from first entry to finish, once, suspensions included.
* Statistics objects: what is read, filtered, saved and merged adds up, and an
  index finds the function it was given to.
* Settings: no two clocks in one table; a decorated call cleans up after itself.
* Containers: a partial map, a stack, a pool whose chunks have one owner.

Every hazard we know of, with its line and the properties that would catch it,
is listed under `hazards` in `PROJECT.json`.

## 2. Plan

In order of importance; all of them are done.

1. `CallTimes` (abstract), `CallStats`: accounting of one context.
2. `ProfiledProgram` composes `CallStats` with a program that nests its calls;
   `StatsReaders` composes that with the readers.
3. `Session`: flags, tables, threads and callbacks.
4. `PartialMap`/`HashTab`, `Stack`/`CallStack`, `FreeList`: containers.
5. `GreenletTimes` (abstract), `Greenlets`: pausing and resuming contexts under
   the CPU clock.
6. `CoroutineTimes` (abstract), `Coroutines`: the wall time of coroutines, on
   top of `CallStats`.
7. `StatTotals` (abstract), `Statistics`: reading, saving and merging.
8. `Settings`: clock, backend, `profile` and `run`.

What would come next: callbacks that call the profiler's functions, and passing runs of
`Session` with two calling threads once `_pause` counts.

## 3. Modules and how they correspond to the code

`map` in `PROJECT.json` gives the lines of each definition.

**`CallTimes`** states what the counters of `_pit` and `_pit_children_info`
mean, without time stamps, levels or negative times: each unit of time is
charged as it passes.  **`CallStats`** is `_call_enter` and `_call_leave`: the
variables `stack`, `pits`, `children`, `pitLevel`, `childLevel`, `coroutines`
are the context's `cs`, pits, children, the two kinds of keys of `rec_levels`,
and the coroutine lists.  `CallEnter` is the whole handler when memory
suffices; `CallEnterNoChild` and `CallEnterNoSlot` are its two early exits,
which leave some of the updates done.  `LeaveUnseen`, `LeaveOutermost` and
`LeaveToParent` are `_call_leave` with an empty stack, one call, and more.
`Enumerate` is `_pitenumstat` applied to everything.  Three specifications
differ in when statistics are read: never (`SpecUnread`), while no call is in
progress (`SpecAtRest`), at any moment (`Spec`).  A pit stands for a tag and a
code object or method.  The errors 6 and 7 of `_call_leave` are guards of
`LeaveToParent`: `PairsRecorded`, which is proved, says that they hold whenever
the action's other conditions do.  `calls` and `outermost` are history variables.

**`ProfiledProgram`** feeds `CallStats` with the events an interpreter
produces: properly nested, not reported while the profile function is unset,
a builtin's return reported only if its call was, and possibly returning from
calls that were made before profiling began.  **`StatsReaders`** adds
`get_func_stats` and `get_thread_stats` as Python functions of the program: a
script of calls, returns and the effects of `_pause`, `_resume` and
enumeration, each call and return reported if the profiler is on at that
moment.

**`Session`** has one action per piece of code between two points at which
another thread may run: the steps of the Python functions (`todo`), and the
stretches of `_yapp_callback` between callbacks (`event`).  `LockHolder` keeps
everybody else out while a thread is between two callbacks of one event; only
`WaitEnds`, the busy loop that runs without the lock, looks at
`callbackDepth` then.  A context is identified by its thread; `generation`
counts how often the tables were freed, so that a reference to an older
generation is a dangling pointer and its use leads to `Fault`.  `settings`
(installed callbacks, `profile_threads`, whether the Python version sets the
profile function of all threads at once) is chosen at the beginning.

**`HashTab`** has buckets, recycled items and growth as in `hashtab.c`, for
every hash function.  A bucket is the sequence of its items in the order in
which they were linked to its front, so a walk goes from its end to its
beginning.  `hadd` and `_hgrow` call each other: an item that is moved to the
larger table may make that one grow.  The calls in progress are a stack of
tables (`tables`, the dummies above the table itself) and of places
(`cursor`, the item each `_hgrow` is at); `Move` adds one item to the last
dummy, `NextBucket` goes on to the next bucket, and `GrowthDone` returns to the
`hadd` that needed the growth.  `intact` is false once a growth has given up
half way.  The size stands for `logsize` and doubles; `% realsize` is the mask.
**`PartialMap`** is what its clients rely on.  **`CallStack`** has the array,
its growth and the two ways in which `_call_leave` uses it: pop, and pop, pop,
push.  **`Stack`** is the sequence that `CallStats` uses in its place.
**`FreeList`** has the array of chunks, the head and doubling; who owns which
chunk is a history variable.

**`Greenlets`** has the two time stamps that matter in one sequence: `times` is
`ctx->t0` followed by the entry times of the context's call stack.  `Switch` is
the environment's; `Event` is the head of `_yapp_callback`, which finds or makes
the context of the greenlet that runs and, by `SwitchedFrom`, pauses the one the
thread's previous event came from.  `Call`, `Return` and `Look` (an event that
records nothing) are the three ends of an event.  `Start`, `Read` and
`ClearRunning` end with the return event of the Python function itself, which a
thread that is profiled again delivers at once.  **`GreenletTimes`** has no
stamps: a thread's clock ages the greenlet it was last seen in.

**`Coroutines`** extends `CallStats` with a program: coroutines begun and not
finished (`live`, by frame), and the calls in progress (`body`).  Each of its
actions is an event of the interpreter and `CallEnter` or `CallLeave`, which are
used as they are.  **`CoroutineTimes`** has no records and no levels: a
coroutine that was first entered outside any call of its function ages from
then on.

**`Statistics`** has the object (`items` by full name, `byIndex` for
`_additional_indexing`, clock, `_idx_max`) and files.  `Get` is
`YFuncStats.get`: enumeration through a filter, merging of records by name,
conversion of callees found by index.  `Add` is `_add_from_YSTAT` in its three
passes, in any order of the file's functions; a pickled object is a copy.  Call
counts stand for every field that is summed.  **`StatTotals`** is a sum.

**`Settings`** has the wrapper of `profile` statement by statement (`blocks`
holds each thread's wrappers and where they are), with the function of the
profiler each statement calls as one step; `run()` blocks; and calls of the
profiler between them.  `records` remembers with which clock and backend events
were recorded.

**`MC...`** modules instantiate these for TLC.  `MCContainers` puts the three
containers, which share nothing, into one state machine in which each
behaviour uses one.

**`CallStatsProofs`, `ReadersProofs`, `SessionProofs`, `ContainersProofs`,
`GreenletsProofs`, `CoroutinesProofs`, `StatisticsProofs`, `SettingsProofs`**
hold the proofs.

The operators marked *Mutant of* are broken versions of the definition that
follows them (a dropped guard, a missing restore, a swapped order).  None is
used by a specification; replacing the definition by its mutant must violate
the property it is listed with, which shows that the run can tell.

## 4. Runs

### Runs that pass

* **`CallStats_sync`** (190,000 states).  Three functions, one frame, five
  calls, three units of time, statistics read at rest, no failures.
  `NoDoubleCounting`: recorded cumulative time plus the running outermost
  activation never exceeds the time passed.  `SettledAtRest`: nothing is left to
  normalise.  `ChargesAsPromised`: `CallStats` implements `CallTimes`.
* **`CallStats_oom`** (370,000 states).  Two functions, an ordinary and a
  coroutine frame, wall clock, four calls; pair records and stack slots may be
  refused.  `TypeOK`, `PitLevelsExact`, `PairLevelsCover`, `PairsRecorded`
  (error exits 1, 3, 6, 7 are not taken); `SelfTimesAddUp` and
  `CallCountsAddUp`: what a function is charged equals what its callers' records
  say plus what it did as outermost call.
* **`Readers_func`** (120,000 states).  A function and a builtin of the program
  and five functions of the readers; one call of the program may have begun
  unseen.  `ReadersBalance`: the returns reported after `_resume` undo the
  calls reported before `_pause`, although they are not the returns of those
  calls.  `ProfilingResumes`, `ProgramTypeOK`.
* **`Session_one_caller`** (190,000 states).  Three threads, one of which makes
  up to four calls of `start`, `stop`, `clear_stats`, `get_func_stats`,
  `get_thread_stats`; four settings with at most one callback.
  `TablesOutliveTheirUsers`, `RunsOnTables`, `RunsAsAsked`,
  `OnlyInvokingThread`, `WaitingEnds`.  `EnumerationUndisturbed`: while one thread
  enumerates, the table of contexts is left alone and no event begins; one that
  was in a name or tag callback may still end.
* **`Session_spawn`** (250,000 states).  A thread is started at any moment of
  four calls of `start`, `stop`, `clear_stats` and `get_thread_stats`, all three
  callbacks installed: every path of `_thread2ctx`, `_profile_thread` and
  `profile_event`.  `TypeOK`, `ChargedToOwnContext`; `EveryThreadProfiled`: a thread
  that begins between two statements of `start` or `stop`, in a pause or while
  another is in a callback is not forgotten.
* **`Containers`** (43,000 states).  `TypeOK`, `CountExact`,
  `GrowthNeverGivesUp`, `KeysOnce`, `IsPartialMap` of the table; `StackTypeOK`,
  `IsStack` of the stack; `FreeChunksUnowned`, `DestroyFreesAll` of the pool.

* **`Greenlets`** (460,000 states).  Two greenlets on one thread and one on
  another, two ticks of each clock, a call in progress each; profiling of all
  greenlets or of the one that starts it.  `AllPausedButLast`: a context is
  paused just if it is not the one its thread's last event came from.
  `ChargesOwnTime`: `Greenlets` implements `GreenletTimes`.
* **`Coroutines`** (1,230,000 states).  Two functions and a builtin, two frames,
  four entries, two ticks.  `WallTimesAsPromised`: `Coroutines` implements
  `CoroutineTimes`.
* **`Statistics`** (116,000 states).  Two functions; a session in which one of
  them has records in two contexts, calls itself and is called, a session with
  other indexes, one with another clock; two filters, one file.
  `IndexNamesOneFunction`, `FoundByIndex`, `EveryCalleeHasItsCaller`, `AddsUp`
  (`Statistics` implements `StatTotals`).
* **`Settings`** (16,000 states).  One thread, two decorated functions with
  different clocks, two backends, five blocks in each other.
  `OneClockOneBackend`, `StopsAfterLastCall`, `DecoratedLeavesNothing`.

### Runs that find a violation

`Readers_thread`, `Session_clear_race`: see
[section 7](#7-where-code-and-documentation-disagree).

### Bounds, and why they are enough

* `CallStats`: `_call_leave` looks at the three uppermost entries of the stack.
  Three functions and five calls give direct recursion, mutual recursion, the
  same pair at two depths (a b a b) with a third function below, and a second
  call after everything has returned.  Time only enters through differences; three
  units separate entry of caller, entry of callee and return.  Two pits suffice
  where failures and coroutines are added, because a failure disturbs one pair.
* `StatsReaders`: a reader reports at most five calls (`ReportedCalls`); nine
  calls leave four for the program, before and after it.
* `Session`: three threads are one that calls and two that can be in callbacks
  at the same time, which is what restoring `current_ctx` is about.  Four calls
  give start, clear or read, start again, and stop.  Repetition adds only new
  generations, which are compared for equality alone.
* `Containers`: four keys in a table that starts with two buckets grow it
  twice, and once inside a growth; hash values from 0 to 3 include the cases that
  all keys collide and that none does; two values tell a recycled item from a new
  one.  The stack grows from
  one slot to four, the pool from two chunks to eight.

* `Greenlets`: a switch concerns two greenlets of a thread; the third shows
  that threads do not disturb each other.  One call in progress gives a context
  two stamps that must move together, two ticks give a pause and a call
  different lengths.  Starts, stops, reads and clears are not bounded.
* `Coroutines`: two frames give two coroutines of one function that overlap or
  recurse, or two functions; entering, suspending, entering again, in a
  recursion, takes four entries.  A third tick adds no order of events.
* `Statistics`: an object is filled, saved, filtered, filled again and added to
  without a bound on the number of steps; five indexes and four calls of a
  function let a file be added to an object that has some of its functions, all
  or none.
* `Settings`: two functions in five blocks give a decorated call inside another,
  inside itself, and both around a `run()`.

`CHECK_DEADLOCK FALSE` stands in the configurations whose bounds (`MaxCalls`,
`MaxTime`) end every behaviour; the others have no such end and are checked for
deadlock.  Permutations of pits, and of keys and values, are
symmetries: no definition names one, and every hash function is tried.  So are
permutations of functions, and of frames, in `Coroutines`.

## 5. Fairness

Only `Session` has a liveness property, `WaitingEnds`: the busy loop of
`clear_stats` ends.  `FairSpec` asks for weak fairness of each thread's
`EventStep` (a Python callback that was called returns and the C code after it
goes on: the interpreter gives the lock to every thread that waits for it) and
of each caller's `APIStep` (a function of `yappi.py` that was entered goes on).
Nothing obliges the program to make a call, deliver an event or start a
thread.  That the callbacks end is an assumption about the program; a
`clear_stats` called from inside a callback would wait for itself, and
is outside this model.  The property needs the order of `clear_stats`, pause
before wait: the mutant that waits first never stops waiting, because new
events keep a callback in progress.

## 6. Proofs

The proofs assume only the `ASSUME`s of the modules: sizes are natural numbers,
the initial stack and pool are not empty, asynchronous frames are frames, a
greenlet belongs to one thread, the readers' Python functions are no builtins, the
records of a session have indexes of their own.  A theorem that needs more says so in its own
`ASSUME`, and this section names it.

**`CallStatsProofs`**, for any pits, frames, clock and allocation failures, and
statistics read at any moment:

* `TypeCorrect`: `Spec => []TypeOK`.
* `LevelsCorrect`: `Spec => []PitLevelsExact`, and `PairLevelsCorrect`:
  `Spec => []PairLevelsCover`.
* `ErrorExitsUnreachable`: `Spec => []PairsRecorded`.
* `TimeCountedOnce`: `Spec => []NoDoubleCounting`, if no frame is asynchronous.

`PitLevelsExact` is not inductive alone: `_call_leave` lowers the level of the
pair as well, and the pair's record is found only if it was made on entry.  The
invariant is `LevelInv`, the conjunction of the type invariant and the three
properties.  The argument goes through the set of places of the stack at which
a key occurs (`PushOcc`, `PopOcc`): pushing adds one place to the set of the
function and one to that of the new pair, popping takes the same two away,
and `IncrLevel` and `DecrLevel` say that the levels do what the sets'
cardinalities do.  `PairLevelsCover` is an inequality because the early
exit after a failed `spush` leaves the pair's level raised.

`TimeCountedOnce` rests on it.  The invariant `TimeInv` says of every function and
every pair that its cumulative time and the age of its lowest place on the stack
together fit in the time that has passed (`Timely`).  A call that leaves hands
its age over to the record when the level was 1; by `LevelInv` its place is
then the only one (`OuterIsOnly`), so that the age is not counted again, and
otherwise the lowest place stays (`TimelyPop`).  That there is a lowest place
is part of the invariant, since a minimum of a set of numbers would need
induction.  A raised level of a pair can only lose time.  A coroutine is charged
the time since its first entry and not that of its last place, so asynchronous
frames are excluded.

The books of functions and pairs need sums.  What a sum over a finite set is
(`SumFunctionOnSet` of the community modules, a fold) needs induction over data.  The library's
induction theorems take an operator as a parameter and cannot be used, but
induction can be had in first-order form: of any set of subsets of a finite set
one contains no other (`Smallest`, from the library's fact that the strict
subset ordering of finite sets is well founded).  With it the recursive
function inside the fold is shown to exist and to be unique (`SumsExist`,
`SumsAgree`), and a sum to be independent of the order in which it is taken
(`SumRemove`, `SumChange`, `SumAdd`, `SumExchange`).

With the sums, and still in `CallStatsProofs`:

* `NoTimeLost` and `NoCallLost`: `SpecUnread => []SelfTimesAddUp` and
  `SpecUnread => []CallCountsAddUp`, for any functions, with coroutines and
  failed allocations.  The invariant `SumInv` adds to `LevelInv` that the pairs are
  finitely many, that a callee in a pair has a record, and that a function without
  one has never been outermost.  A return moves the same amount in the record
  of the function and in one pair of it, and takes it back from the caller and
  from one pair of the caller, if there is a caller of the caller; otherwise
  from what the caller did as outermost call.
* `NothingToRepair` and `ChargedAsPromised`: `SpecAtRest => []SettledAtRest` and
  `SpecAtRest => ChargesAsPromised`, if no frame is asynchronous and no
  allocation fails.  In the middle of a call the recorded self time of a
  function may be negative; the invariant `PromiseInv` therefore speaks of it
  together with what the function's places on the stack are owed (`OwedAt`, a
  sum over places): that sum is never negative and, with the stack empty, it is the
  record.  It adds to `TimeInv` this, and that a record without a counted call is
  of a function, or a pair, on the stack.  A call hands the time up to its entry over from what the place
  below it is owed, a return from what the top is owed to the record; each of the
  two leaves the sums of all functions and pairs as they are, and a unit of time
  adds one to the sums of the function on top and of its pair only.

**`ReadersProofs`**, for any functions, builtins and frames and any number of calls,
about a program that reads its function statistics (`FuncReaderSpec`):
`ReadersAreBalanced` (`[]ReadersBalance`), `ReaderResumes` (`[]ProfilingResumes`) and
`ReaderTyped` (`[]ProgramTypeOK`).  The two properties speak of the moments when no
reader runs; the invariant `ReaderInv` says what holds after each of the 17 steps of
`get_func_stats`: which of its calls are in progress and which of them were seen
(`Inside`), how many entries of the profiler's stack are theirs (`Entries`), and
that events are delivered except between the first `_pause` and the first
`_resume` (`Silent`).  Below them are the program's own calls, first those
that the profiler has not seen and then those it has (`OwnCalls`).  The call of the
inner `_pause` is not seen, nor is that of `get`, yet the return of `get` is
reported: it pops the entry of the outer `_pause`, whose return was not
(`Entries` from 12 to 13), and `ReturnTable` has the one place where this is
evened out.  The call of the inner `_resume` is not seen either, but the return of a
builtin is reported only if its call was.  That `get` is a Python function and not
a builtin is therefore an assumption of `StatsReaders`.  `get_thread_stats` has no such
invariant: it leaves an entry behind (section 7).

**`SessionProofs`**, for any threads, callers and settings: `ChargedCorrectly`
(`Spec => []ChargedToOwnContext`).  The invariant `OwnInv` says that a context
saved across a callback for a name or a tag is the thread's own, that at most
one thread is in C code after a callback, and that `current_ctx` is then the
context that this thread had saved.  Every stretch of `_yapp_callback` ends at the
next callback or at the end of the event (`Stretch`), and nobody else sets
`current_ctx` during it; without `_call_funcobjargs` restoring it,
`CallbackReturnsKeeps` fails.

`SessionTyped` (`Spec => []TypeOK`) needs no hypothesis either.  Its invariant is
`TypeOK` itself; the work is in the stages of an event (`EventContinuesTyped`)
and in showing that what remains of a caller's function is a sequence of its
steps.

The next theorems are about who is profiled and when.  What a theorem
needs of callers, threads and callbacks is a hypothesis of it.  Section 7 has
counterexamples for most of these: a second caller, a thread that is started in
the middle of a session, two callbacks, a Python that sets the profile function of
all threads.

* `OneCallerControls` and `OneCallerKeepsTables`, for one calling thread:
  `Spec => []RunsAsAsked` and `Spec => []RunsOnTables`.  The invariant `ControlInv` says how many steps of its function
  the caller has done (`Remains`) and what the flags are then: within the pauses
  of a function (`HeldAfter`) the profiler is stopped and `paused` remembers whether
  it was asked to run (`Held`), outside them `running` says so itself
  (`Steady`).  The second `_pause` and the second `_resume` of `get_func_stats`
  are the reason why `HeldAfter` spans both.
* `AllThreadsAreProfiled`, for one calling thread, and any threads that are started
  at any moment and any callbacks: `Spec => []EveryThreadProfiled`.  `HookInv` says
  that the hook for new threads is in force when the profiler runs, is paused, or is
  about to be started, and that it is taken away only when the profiler neither
  runs nor is paused; that needs the order of the two statements of `start` and of
  `stop` (`NextAt`).  An event sets profile functions and never takes one away
  (`EventCovers`).
* `OnlyInvokerRecorded`, for one calling thread and profile functions that belong to
  threads: `Spec => []OnlyInvokingThread`.  `SoloInv` adds that whoever is profiled
  or in the middle of an event has called `start`, and that a profiler that a
  function has paused was started by the caller.

The last two, for one calling thread, all threads there from the
beginning and no id callback, are about the tables:

* `ReadsUndisturbed`: `Spec => EnumerationUndisturbed`, with callbacks for names
  and tags.  Between the two ends of an enumeration the profiler is paused
  (`HeldAt`); by `SilentInv` no thread is then profiled, and the only stages an event
  can be in are those two callbacks (`Quiet`), after which it makes no context
  (`UnderWayMakesNoContext`).
* `ClearedAfterUse`, if there are finitely many threads and not both of the name and
  the tag callback: `Spec => []TablesOutliveTheirUsers`.  `TablesInv` says that the
  contexts which events have saved exist, and that no thread is in a callback
  once the busy loop has ended.  A thread that is then between its callback and the
  end of its event ends it before the tables are freed, because clearing takes the
  interpreter lock; with a second callback it would not
  (`EventEndsBeforeClear` is the step that fails), which is what
  `Session_clear_race` shows.

**`ContainersProofs`**, for any keys, times and initial size: `StackTypeCorrect`
and `StackRefined` (`StackSpec => IsStack`).  The invariant `StackInv` adds
that there is a slot at all, without which doubling makes no room.  The core is
`LeaveStep`: pop, pop, push leaves the array as it was, since `spush` writes the
key that was there and does not touch the time; so `CallStats` may treat the
operation as one pop.

The same module, for any initial size and any growth: `ChunksHaveOneOwner`
(`FreeChunksUnowned`) and `PoolIsFreedOnce` (`DestroyFreesAll`).  The invariant
`PoolInv` says that the array is a bijection between slots and chunks, and that
those with an owner are exactly the ones above the head; growing is allowed
only when that is all of them, which is why the old chunks can go to the upper
half.

And the hash table, for any keys, values, hash function and initial size (which
is not zero): `TableRefined` (`Spec => IsPartialMap`), `TableNeverGivesUp`
(`[]GrowthNeverGivesUp`), `TableCountExact` (`[]CountExact`), `TableKeysOnce`
(`[]KeysOnce`) and `TableTypeCorrect` (`[]TypeOK`).  What makes growing work is the
order of items: `hfree` leaves the key in the item, so a bucket can hold a free item
with the key of one in use, and `_hgrow` adds both to its dummy, where `hadd` would
refuse the second if the first were not marked free by then.  It is: an item in use
was linked before every other item of its key (`Tidy`), because `hadd` recycles
the free item that was linked first and otherwise links to the front
(`StoredTidy`), and a walk comes to it after the free ones (`NotYetCopied`).
Taking the first free item of the walk instead is the mutant of `Recycled`.  The
invariant `TabInv` says of the tables in progress (`Chain`) that all are tidy and
have every item in the bucket of its key (`Good`); that the last dummy holds the
entries of what has been moved (`Resting`), and that each of the others holds the
item that is being moved as well, in use even if it is free in the table it
comes from (`Waiting`); and that no dummy has more items than have been moved.
The last is why the number of free items, which growing may lower without
counting, stays below the number of items that is counted (`Counted`).  A growth
that ends leaves as many items in use as there were, because items in use are as
many as entries (`LiveAreEntries`).

**`GreenletsProofs`**, for any threads, greenlets and clocks that advance at any
rate: `PausesExact` (`SpecKeepingPauses => []AllPausedButLast`) and `OwnTimeCharged`
(`SpecKeepingPauses => ChargesOwnTime`).  The invariant is the type invariant,
`AllPausedButLast`, that no time stamp is later than the clock, or than the pause
of its context, and that a thread runs, and was last seen in, greenlets of its own.
Then a
resumed context's ages are what they were when it was paused (`clock - (t + clock -
pausedAt)`), so noticing a switch is a `See` of `GreenletTimes`, and every event is
one of its steps.  Without the restriction of `KeepsPause` the first conjunct to
fail is `AllPausedButLast`.

**`CoroutinesProofs`**, for any functions, builtins and frames and the wall clock:
`CoroutinesChargedTheirAge` (`FreshSpec => WallTimesAsPromised`).  `FreshSpec` is the
program in which no coroutine gets the frame of one of its function that left its
record behind; without it the promise is broken, as section 7 says.  The
invariant has two parts.  `ProgramInv` says what calls are possible: a builtin has the
frame of the coroutine under it, and a coroutine that runs is live and runs once, so
that no call is twice in the body (`BodyHoldsOnce`).  `RecordInv` adds to `LevelInv`
that the stack has the functions of the body while profiled, that the first
call of a function has a record no younger than the call, and that the records of
builtins last no longer than their calls.  By `LevelInv` the level 1 that
`_coro_enter` and `_coro_exit` test means that no other call of the function is
in progress (`LevelOne`), so a return removes the innermost call's record and no
other (`ReturnRecords`).  The age is charged only if it is positive, and the
time of the last entry otherwise: the record being no younger, both are then 0.

**`StatisticsProofs`**, for any functions, sessions, filters and files.  The
assumption is that of `Statistics`: the functions are finitely many, a session has a clock, and
no two of its records have the same index, as the profiler counts indexes up.
The objects are made by folds (`append` for each record, each callee, each function
of a file), so the proofs begin with induction over finite sets, as above, and
with `AppendedAllIn`: what one `append` keeps, all of them keep.  `From` says what a
table made of some entries has: their names and indexes, the first index where items were
merged, and the sums of their calls.

`IndexesNameOneFunction`, `FunctionsFoundByIndex` and `CalleesHaveTheirCallers`
(`Spec => []IndexNamesOneFunction`, `Spec => []FoundByIndex`,
`Spec => []EveryCalleeHasItsCaller`) follow from `TablesConsistent`.  Its
invariant `StatInv` says of the object, and of each file, that whatever an index
finds is there and that functions and callees are found by their indexes
(`Consistent`); and of the object that `_idx_max` is at least every index that
finds something (`UpTo`), so that the functions of a file get indexes that
find nothing yet.  Files must be consistent too, since `_add_from_YSTAT` takes
the children of a saved function for functions of the file.

`CountsAddUp` (`Spec => AddsUp`) is the refinement of `StatTotals`.  For `get`, the
callees of all records of a function are appended to one another
(`KidsFromAll`, `CallsToJoined`), and those that an index of g finds are those with
an index of a record of g that passed (`ConvertedCalls`, `FoundInRecords`): no call is
lost between records of a function that were merged, and none is kept whose callee was
filtered out.  For `add`, renumbering changes no count and children merge by name
(`AddedIs`).  `ClockInv` adds that an object without a clock has no functions; this is
why the guard of `add`, which lets such an object through, still never adds up
two clocks.

**`SettingsProofs`**, for any number of threads, decorated functions, clocks and
backends: `OneKindOfStatistics` (`Spec => []OneClockOneBackend`).  The property is
not inductive: the clock can be changed when `haveStats` is false, so the
invariant adds that a running profiler, and one with records, has statistics.
`EffectsKeep` shows this for each function of the profiler, `WrapperKeeps` for
each statement of the wrapper.  It is why `clear_stats` must resume through
`_start`, which sets `yapphavestats` again.

For a program of one thread, `StopsWhenDone` (`Spec => []StopsAfterLastCall`) and
`DecoratedCleansUp` (`Spec => DecoratedLeavesNothing`).  With two threads both fail
(section 7), so the number of threads is a hypothesis.  The invariant `NestInv` says
that the level of a function is the number of its wrappers that are in their
bodies (`Depth`), that all blocks but the innermost are, that a wrapper about
to stop has found level 0, and that one about to report or to clear finds the
profiler stopped.  What entering and leaving a block do to `Depth`, a
cardinality, is in `DepthPush` and `DepthPop`.

Only model-checked: the liveness of `Session` (`WaitingEnds`), which is out of the
prover's reach.

## 7. Where code and documentation disagree

With a run that shows it:

* `Readers_thread`: `get_thread_stats` pauses inside `get()` only
  (`yappi.py:1118`), not in the function that calls it as `get_func_stats`
  does; calls seen before and returns seen after the pause differ in
  number and another function's call is counted wrongly.
* `Session_clear_race`: `_callback_depth` is 0 between the name callback and
  the tag callback of one event; the busy loop may look just then.

Each of these was a counterexample of TLC while the modules were written: the
instance that shows it is named.

* Reading statistics in the middle of a call wipes the negative self time of the
  caller (`_yappi.c:1743`); when it returns, the time of its callees is counted
  as its own, against doc/api.md:280 ("excluding subcalls").  `CallStats` with
  `Spec` instead of `SpecAtRest`.
* `profile_threads=False` profiles every thread on Python 3.12 and later
  (`_yappi.c:1325`), against `yappi.py:1217`.  `Session` with `multi` false and
  `allThreads` true: `OnlyInvokingThread`.
* A thread whose first event is under way when `stop` is called sets its own
  profile function again (`_yappi.c:1385`) and stays profiled, against
  doc/api.md:22 ("Stop the profiler.").  `Session` with a thread that is
  started: at rest, with `wanted` false, some `prof[t]` is `"c"`.
* `_pause` leaves the hook for new threads in force, so one that is started while
  statistics are enumerated adds its context to the table that `henum` walks
  (`_yappi.c:1374`), which may grow, against README.md:26 ("results can be
  obtained from any time and any thread").  `Session` with a thread that is
  started during `get_thread_stats`: `EnumerationUndisturbed`.
* A `stop` between another thread's `_pause` and `_resume` is undone
  (`_yappi.c:2190`), against the same line.  `Session` with two callers:
  `RunsAsAsked`.
* `clear_stats` of one thread and `start` of another: a `start` after the pause
  and before the C function leaves the profiler running without its tables.
  `Session` with two callers: `RunsOnTables`.
* A thread whose first event comes between the C function of `clear_stats` and the
  `_resume` finds no table to look its context up in (`_yappi.c:493`).  `Session` with a
  thread that is started: `TablesOutliveTheirUsers`.
* A `start` of one thread between the two statements of another's `stop`
  (`yappi.py:1286`) loses the hook: the profiler runs and new threads are not
  profiled.  `Session` with two callers and a thread that is started:
  `EveryThreadProfiled`.
* With two reading threads, the `_resume` of one starts the profiler while the
  other still enumerates: there is one flag, not a count.  `Session` with two
  callers: `EnumerationUndisturbed`.
* A paused greenlet that calls `start(profile_greenlets=False)`, or a function
  that resumes such a profiler, forgets its pause (`_yappi.c:1389`): its calls
  are charged the time of other greenlets.  `Greenlets` with `Spec`.
* A coroutine that finishes while nothing is profiled, or inside another call of
  its function, leaves its record behind; if its frame's address is given to a
  coroutine of the same function, that one is charged from the time of the
  first (`_yappi.c:978`), against README.md:37 ("correct wall/cpu time").
  `Coroutines` with `CoSpec`.
* Two threads in one decorated function share its level without a lock
  (`yappi.py:346`): one stops and clears the profiler under the other's call,
  although the comment at 355 says that nobody is in the middle of a call then.
  `Settings` with two threads: `StopsAfterLastCall`, `DecoratedLeavesNothing`.
* A child's index is corrected when a file is loaded, but the table by index of
  the children it is in is not (`yappi.py:907`): `children[stat]` and
  `children[index]` miss it.
* `stats[index]`, with the index of a record that was merged into another one of its
  function, finds the object of that record (`yappi.py:730`), whose counts are its
  own and not the sum.  `FoundByIndex` is about the function that is found, since
  `byIndex` has names.

Read in the code while modelling:

* A call in progress when statistics are read gets a call count of 1
  (`_yappi.c:1745`) and is counted again when it returns.
* `_stop` leaves the calls in progress on their stacks with their entry times:
  a call that returns after the next `start` is charged for the time between.
* A decorated call inside another one, with the same clock, clears and stops the
  outer one's profile; when the outer one is to print, `get_thread_stats()[0]` is
  None and reading its `ttot` raises AttributeError (`yappi.py:366`).  With
  another clock the inner `set_clock_type` is refused, because `clear_stats` has
  resumed the profiler: it raises YappiError and the function is not called.
* `set_context_backend` installs the callbacks of the new backend before the
  extension refuses it (`yappi.py:1405`).
* An exception of a filter callback leaves the object half filled, with children
  that are still tuples.

## 8. What is not modelled

* Of the statistics objects: sorting, `strip_dirs`, `pop`, `YThreadStats`
  (which has no indexes), callgrind files (an export of the same tables).
* Of the settings: the callbacks that come with a backend, and thread switches
  inside a function of the profiler (they are the subject of `Session`).
* Greenlets under the wall clock, where nothing is paused; greenlets that move
  between threads, which the greenlet library forbids; greenlets that share an
  id through a callback of the program's own.
* Failures of allocation other than of pair records and stack slots: in
  `hashtab.c` and `freelist.c` they leave structures whose next use is
  undefined.
* Callbacks that fail or call the profiler; setting callbacks, or calling `start` with
  another `profile_threads`, in the middle of a session; `sched_cnt`, names and times
  of contexts.  `EnumerationUndisturbed` is about the table of contexts: the pits
  and pairs that an event which was in a callback adds to its own context are in
  `CallStats`, where nobody reads meanwhile.
* Values of a hash table that are changed in place, which `PartialMap` has no step
  for: most clients keep pointers there and change what these point to.  Only
  `rec_levels` counts in the items (`_yappi.c:838`, 857), which `CallStats` has as
  functions.
* The operating system's clocks, `tickfactor`, and clocks that step backwards.
* Printing, sorting, filtering, export formats and the command line: formatting and
  file output without state of their own.
* `mem.c` and `debug.h` are compiled in for debugging only; failures of the
  functions of `tls.c`.
