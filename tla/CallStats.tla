------------------------------ MODULE CallStats ------------------------------
(***************************************************************************)
(* The call accounting of one profiled context (yappi/_yappi.c): what the  *)
(* handlers _call_enter and _call_leave do to the context's call stack,    *)
(* its table of profile items ("pits"), the caller/callee records hanging  *)
(* off them, the recursion levels and the list of suspended coroutines.    *)
(*                                                                         *)
(* The handlers are modelled against ANY stream of call and return events: *)
(* _call_leave never looks which function is leaving, and the profiler is  *)
(* switched on and off in the middle of calls.  ProfiledProgram gives the  *)
(* events an interpreter really produces.                                  *)
(*                                                                         *)
(* A pit stands for one (tag, code object or method) pair of the context:  *)
(* _get_pits_tbl, _ccode2pit and _code2pit are keyed lookups that create a *)
(* zeroed record on the first event.  A record's index is unique until     *)
(* clear_stats, so comparing indexes is comparing pits.                    *)
(***************************************************************************)
EXTENDS Integers, Sequences, FiniteSets, Functions

CONSTANTS
    Pit,          \* profile items an event may name
    Frame,        \* addresses of Python frame objects
    AsyncFrame,   \* those whose code is a coroutine or asynchronous generator
    WallClock,    \* get_timing_clock_type() = WALL_CLOCK
    MayFail,      \* allocations that may fail: subset of {"child", "slot"}
    MaxCalls,     \* bound: call events delivered
    MaxTime       \* bound: clock ticks

ASSUME ConstantsAssumption ==
    /\ AsyncFrame \subseteq Frame
    /\ WallClock \in BOOLEAN
    /\ MayFail \subseteq {"child", "slot"}
    /\ MaxCalls \in Nat
    /\ MaxTime \in Nat

VARIABLES
    stack,       \* ctx->cs, bottom first: which pit, entered when
    pits,        \* the pits created so far and their counters
    children,    \* <<caller, callee>> -> counters of that pair
    pitLevel,    \* ctx->rec_levels at pit keys
    childLevel,  \* ctx->rec_levels at caller/callee record keys
    coroutines,  \* <<pit, frame>> -> when that coroutine was first entered
    now,         \* tickcount()
    lastSeen,    \* ctx->last_seen
    calls,       \* history: call events delivered so far
    outermost    \* history: what calls that left an empty stack added up to

vars == <<stack, pits, children, pitLevel, childLevel, coroutines, now,
          lastSeen, calls, outermost>>

Pair == Pit \X Pit
Counter == [callcount: Nat, nonrec: Nat, tsub: Int, ttotal: Int]
Zero == [callcount |-> 0, nonrec |-> 0, tsub |-> 0, ttotal |-> 0]

Top(s) == s[Len(s)]
Pop(s) == SubSeq(s, 1, Len(s) - 1)

\* hfind ... hadd: the table with a record for k, made by the first lookup.
WithKey(table, k, new) ==
    IF k \in DOMAIN table THEN table
    ELSE [x \in DOMAIN table \cup {k} |-> IF x = k THEN new ELSE table[x]]

Without(table, k) == [x \in DOMAIN table \ {k} |-> table[x]]

-----------------------------------------------------------------------------
\* Recursion levels.

\* get_rec_level: an absent key is reported as error 1 and read as -1.
Level(levels, k) == IF k \in DOMAIN levels THEN levels[k] ELSE -1

\* Mutant of Incr: a second activation does not raise the level.
IncrOnce(levels, k) == WithKey(levels, k, 1)

\* incr_rec_level
Incr(levels, k) == [WithKey(levels, k, 0) EXCEPT ![k] = @ + 1]

\* decr_rec_level: the entry is freed when it was already 0 before.
Decr(levels, k) ==
    IF k \notin DOMAIN levels THEN levels
    ELSE IF levels[k] = 0 THEN Without(levels, k)
    ELSE [levels EXCEPT ![k] = @ - 1]

-----------------------------------------------------------------------------
\* Coroutines on a pit.

\* Mutants of CoroEnter: a coroutine that was suspended is taken for a new one;
\* IS_ASYNC is not tested.
CoroEnterAnew(p, f, level) ==
    IF WallClock /\ f \in AsyncFrame /\ level = 1
    THEN WithKey(Without(coroutines, <<p, f>>), <<p, f>>, now)
    ELSE coroutines
CoroEnterAnyFrame(p, f, level) ==
    IF WallClock /\ level = 1 THEN WithKey(coroutines, <<p, f>>, now)
    ELSE coroutines

\* _coro_enter: level is the pit's recursion level after this entry.
CoroEnter(p, f, level) ==
    IF WallClock /\ f \in AsyncFrame /\ level = 1
    THEN WithKey(coroutines, <<p, f>>, now)
    ELSE coroutines

\* _coro_exit finds the coroutine's record, removes it and returns its age.
CoroExits(p, f) ==
    /\ WallClock
    /\ f \in AsyncFrame
    /\ Level(pitLevel, p) = 1
    /\ <<p, f>> \in DOMAIN coroutines

Init ==
    /\ stack = <<>>
    /\ pits = [p \in {} |-> Zero]
    /\ children = [e \in {} |-> Zero]
    /\ pitLevel = [p \in {} |-> 0]
    /\ childLevel = [e \in {} |-> 0]
    /\ coroutines = [c \in {} |-> 0]
    /\ now = 0
    /\ lastSeen = 0
    /\ calls = 0
    /\ outermost = [p \in Pit |-> [callcount |-> 0, nonrec |-> 0, tsub |-> 0]]

Tick ==
    /\ now < MaxTime
    /\ now' = now + 1
    /\ UNCHANGED <<stack, pits, children, pitLevel, childLevel, coroutines,
                   lastSeen, calls, outermost>>

-----------------------------------------------------------------------------
\* _call_enter

\* Mutant of ChildrenOnEntry: a function that calls itself is no child.
ChildrenButItself(p) ==
    IF stack = <<>> \/ Top(stack).pit = p THEN children
    ELSE WithKey(children, <<Top(stack).pit, p>>, Zero)

\* The record of the pair (function on top, p), when there is a function on top.
ChildrenOnEntry(p) ==
    IF stack = <<>> THEN children
    ELSE WithKey(children, <<Top(stack).pit, p>>, Zero)

\* Mutant of ChildLevelOnEntry: only a new record raises the pair's level.
ChildLevelOfNewRecord(p) ==
    IF stack = <<>> THEN childLevel
    ELSE WithKey(childLevel, <<Top(stack).pit, p>>, 1)

ChildLevelOnEntry(p) ==
    IF stack = <<>> THEN childLevel
    ELSE Incr(childLevel, <<Top(stack).pit, p>>)

\* A call event for p, running in frame f.
CallEnter(p, f) ==
    /\ calls < MaxCalls
    /\ calls' = calls + 1
    /\ pits' = WithKey(pits, p, Zero)
    /\ children' = ChildrenOnEntry(p)
    /\ childLevel' = ChildLevelOnEntry(p)
    /\ stack' = Append(stack, [pit |-> p, t0 |-> now])
    /\ lastSeen' = now
    /\ pitLevel' = Incr(pitLevel, p)
    /\ coroutines' = CoroEnter(p, f, Level(pitLevel', p))
    /\ UNCHANGED <<now, outermost>>

\* _add_child_info returns NULL: log 12 and give up, the pit stays.
CallEnterNoChild(p) ==
    /\ "child" \in MayFail
    /\ calls < MaxCalls
    /\ stack # <<>>
    /\ <<Top(stack).pit, p>> \notin DOMAIN children
    /\ calls' = calls + 1
    /\ pits' = WithKey(pits, p, Zero)
    /\ UNCHANGED <<stack, children, pitLevel, childLevel, coroutines, now,
                   lastSeen, outermost>>

\* spush cannot grow the stack: log 5 and give up, but the pair's recursion
\* level has already been raised.
CallEnterNoSlot(p) ==
    /\ "slot" \in MayFail
    /\ calls < MaxCalls
    /\ stack # <<>>
    /\ calls' = calls + 1
    /\ pits' = WithKey(pits, p, Zero)
    /\ children' = ChildrenOnEntry(p)
    /\ childLevel' = ChildLevelOnEntry(p)
    /\ UNCHANGED <<stack, pitLevel, coroutines, now, lastSeen, outermost>>

-----------------------------------------------------------------------------
\* _call_leave.  cp is the function on top of the stack, pp the one under it
\* and ppp the one under that.

\* The time charged to the leaving function.
Elapsed(f, suspended) ==
    LET cp == Top(stack).pit
    IN  IF f \in AsyncFrame /\ suspended /\ WallClock THEN 0
        ELSE IF /\ ~suspended
                /\ CoroExits(cp, f)
                /\ now - coroutines[<<cp, f>>] > 0
             THEN now - coroutines[<<cp, f>>]
        ELSE now - Top(stack).t0

CoroutinesOnLeave(f, suspended) ==
    IF ~suspended /\ CoroExits(Top(stack).pit, f)
    THEN Without(coroutines, <<Top(stack).pit, f>>)
    ELSE coroutines

One(cond) == IF cond THEN 1 ELSE 0

\* A return event while the stack is empty: the frame was entered unseen.
LeaveUnseen(f, suspended) ==
    /\ stack = <<>>
    /\ UNCHANGED vars

\* The last function of the stack leaves.
LeaveOutermost(f, suspended) ==
    /\ Len(stack) = 1
    /\ suspended => f \in AsyncFrame
    /\ LET cp   == Top(stack).pit
           e    == Elapsed(f, suspended)
           done == One(~suspended)
       IN  /\ pits' = [pits EXCEPT ![cp] =
                         [callcount |-> @.callcount + done,
                          nonrec    |-> @.nonrec + done,
                          tsub      |-> @.tsub + e,
                          ttotal    |-> @.ttotal + e]]
           /\ pitLevel' = Decr(pitLevel, cp)
           /\ outermost' = [outermost EXCEPT ![cp] =
                              [callcount |-> @.callcount + done,
                               nonrec    |-> @.nonrec + done,
                               tsub      |-> @.tsub + e]]
    /\ coroutines' = CoroutinesOnLeave(f, suspended)
    /\ stack' = <<>>
    /\ lastSeen' = now
    /\ UNCHANGED <<children, childLevel, now, calls>>

\* Mutants of PitsOnLeave: an inner recursive call adds to the cumulative time;
\* the caller keeps the time of its callee when it called itself.
PitsNested(cp, pp, e, done, outer) ==
    [p \in DOMAIN pits |->
        [pits[p] EXCEPT !.callcount = @ + One(p = cp /\ done),
                        !.nonrec = @ + One(p = cp /\ done /\ outer),
                        !.tsub = @ + (IF p = cp THEN e ELSE 0)
                                   - (IF p = pp THEN e ELSE 0),
                        !.ttotal = @ + (IF p = cp THEN e ELSE 0)]]
PitsOuterOnly(cp, pp, e, done, outer) ==
    [p \in DOMAIN pits |->
        [pits[p] EXCEPT !.callcount = @ + One(p = cp /\ done),
                        !.nonrec = @ + One(p = cp /\ done /\ outer),
                        !.tsub = @ + (IF p = cp /\ outer THEN e ELSE 0)
                                   - (IF p = pp THEN e ELSE 0),
                        !.ttotal = @ + (IF p = cp /\ outer THEN e ELSE 0)]]

\* What the leaving function cp and its caller pp are charged: cp gets its time
\* e, pp gives it away.  done: cp returned for good; outer: no other call of cp
\* is in progress.
PitsOnLeave(cp, pp, e, done, outer) ==
    [p \in DOMAIN pits |->
        [callcount |-> pits[p].callcount + One(p = cp /\ done),
         nonrec    |-> pits[p].nonrec + One(p = cp /\ done /\ outer),
         tsub      |-> pits[p].tsub + (IF p = cp THEN e ELSE 0)
                                    - (IF p = pp THEN e ELSE 0),
         ttotal    |-> pits[p].ttotal + (IF p = cp /\ outer THEN e ELSE 0)]]

\* Mutants of ChildrenOnLeave: the caller's own pair keeps the time; the pair's
\* level, not the function's, decides what a non-recursive call is.
ChildrenKeepCallee(pci, hasPpci, ppci, e, done, outer, outerPair) ==
    [c \in DOMAIN children |-> IF c # pci THEN children[c] ELSE
        [children[c] EXCEPT !.callcount = @ + One(done),
                            !.nonrec = @ + One(done /\ outer),
                            !.tsub = @ + e,
                            !.ttotal = @ + (IF outerPair THEN e ELSE 0)]]
ChildrenPairLevel(pci, hasPpci, ppci, e, done, outer, outerPair) ==
    [c \in DOMAIN children |->
        [children[c] EXCEPT
            !.callcount = @ + One(c = pci /\ done),
            !.nonrec = @ + One(c = pci /\ done /\ outerPair),
            !.tsub = @ + (IF c = pci THEN e ELSE 0)
                       - (IF c = ppci /\ hasPpci THEN e ELSE 0),
            !.ttotal = @ + (IF c = pci /\ outerPair THEN e ELSE 0)]]

\* The same of their pair pci; the pair ppci of pp and its own caller, when
\* there is one, gives the time away.
ChildrenOnLeave(pci, hasPpci, ppci, e, done, outer, outerPair) ==
    [c \in DOMAIN children |->
        [callcount |-> children[c].callcount + One(c = pci /\ done),
         nonrec    |-> children[c].nonrec + One(c = pci /\ done /\ outer),
         tsub      |-> children[c].tsub + (IF c = pci THEN e ELSE 0)
                         - (IF c = ppci /\ hasPpci THEN e ELSE 0),
         ttotal    |-> children[c].ttotal
                         + (IF c = pci /\ outerPair THEN e ELSE 0)]]

\* Mutants of StackOnLeave: the caller's time starts anew; the caller is lost.
StackRestarted ==
    [Pop(stack) EXCEPT ![Len(stack) - 1] = [@ EXCEPT !.t0 = now]]
StackWithoutCaller == Pop(Pop(stack))

\* cp and pp are popped and pp is pushed back.  spush writes the key of the
\* slot and not its time, so pp keeps the time of its entry.
StackOnLeave == Pop(stack)

\* A function leaves to the one under it.  Errors 6 and 7 of the code are the
\* negations of the two guards on DOMAIN children; PairsRecorded says that
\* neither guard is ever false.
LeaveToParent(f, suspended) ==
    /\ Len(stack) > 1
    /\ suspended => f \in AsyncFrame
    /\ LET n    == Len(stack)
           cp   == stack[n].pit
           pp   == stack[n-1].pit
           pci  == <<pp, cp>>
           hasPpci == n > 2
           ppci == IF hasPpci THEN <<stack[n-2].pit, pp>> ELSE pci
           e    == Elapsed(f, suspended)
           done == ~suspended
           outer == Level(pitLevel, cp) = 1
           outerPair == Level(childLevel, pci) = 1
       IN  /\ pci \in DOMAIN children
           /\ ppci \in DOMAIN children
           /\ pits' = PitsOnLeave(cp, pp, e, done, outer)
           /\ children' = ChildrenOnLeave(pci, hasPpci, ppci, e, done, outer,
                                          outerPair)
           /\ childLevel' = Decr(childLevel, pci)
           /\ pitLevel' = Decr(pitLevel, cp)
           /\ outermost' = IF hasPpci THEN outermost
                           ELSE [outermost EXCEPT ![pp].tsub = @ - e]
    /\ coroutines' = CoroutinesOnLeave(f, suspended)
    /\ stack' = StackOnLeave
    /\ lastSeen' = now
    /\ UNCHANGED <<now, calls>>

CallLeave(f, suspended) ==
    \/ LeaveUnseen(f, suspended)
    \/ LeaveOutermost(f, suspended)
    \/ LeaveToParent(f, suspended)

-----------------------------------------------------------------------------
\* _pitenumstat: reading the statistics rewrites them.
Normalised(c) ==
    [c EXCEPT !.callcount = IF @ = 0 THEN 1 ELSE @,
              !.tsub = IF @ < 0 THEN 0 ELSE @]

Enumerate ==
    /\ pits' = [p \in DOMAIN pits |-> Normalised(pits[p])]
    /\ children' = [c \in DOMAIN children |-> Normalised(children[c])]
    /\ UNCHANGED <<stack, pitLevel, childLevel, coroutines, now, lastSeen,
                   calls, outermost>>

EnumerateAtRest == stack = <<>> /\ Enumerate

-----------------------------------------------------------------------------
Event ==
    \/ \E p \in Pit, f \in Frame : CallEnter(p, f)
    \/ \E p \in Pit : CallEnterNoChild(p) \/ CallEnterNoSlot(p)
    \/ \E f \in Frame, suspended \in BOOLEAN : CallLeave(f, suspended)

\* Statistics are not read before the end.
NextUnread == Event \/ Tick

\* Statistics are read between profiled regions only.
NextAtRest == Event \/ Tick \/ EnumerateAtRest

\* Statistics are read at any moment.
Next == Event \/ Tick \/ Enumerate

SpecUnread == Init /\ [][NextUnread]_vars
SpecAtRest == Init /\ [][NextAtRest]_vars
Spec == Init /\ [][Next]_vars

-----------------------------------------------------------------------------
\* The variables hold what their C types hold.
TypeOK ==
    /\ stack \in Seq([pit: Pit, t0: Nat])
    /\ DOMAIN pits \subseteq Pit
    /\ pits \in [DOMAIN pits -> Counter]
    /\ DOMAIN children \subseteq Pair
    /\ children \in [DOMAIN children -> Counter]
    /\ DOMAIN pitLevel \subseteq Pit
    /\ pitLevel \in [DOMAIN pitLevel -> Nat]
    /\ DOMAIN childLevel \subseteq Pair
    /\ childLevel \in [DOMAIN childLevel -> Nat]
    /\ DOMAIN coroutines \subseteq Pit \X AsyncFrame
    /\ coroutines \in [DOMAIN coroutines -> Nat]
    /\ now \in Nat
    /\ lastSeen \in Nat
    /\ calls \in Nat
    /\ outermost \in [Pit -> [callcount: Nat, nonrec: Nat, tsub: Int]]

\* The places of the stack where p, or the pair c, is being called.
Activations(p) == {i \in 1..Len(stack) : stack[i].pit = p}
PairActivations(c) ==
    {i \in 2..Len(stack) : stack[i-1].pit = c[1] /\ stack[i].pit = c[2]}

\* The recursion level of a function is the number of times it is on the
\* stack, however the events came: "the outermost call leaves" is then what
\* the test for level 1 in _call_leave decides.
PitLevelsExact ==
    \A p \in Pit :
        /\ p \in DOMAIN pitLevel => pitLevel[p] = Cardinality(Activations(p))
        /\ p \notin DOMAIN pitLevel => Activations(p) = {}

\* The recursion level of a caller/callee pair never falls below the number of
\* times the pair is on the stack; it is above it only after a failed spush.
PairLevelsCover ==
    \A c \in Pair :
        /\ c \in DOMAIN childLevel =>
             /\ childLevel[c] >= Cardinality(PairActivations(c))
             /\ "slot" \notin MayFail =>
                  childLevel[c] = Cardinality(PairActivations(c))
        /\ c \notin DOMAIN childLevel => PairActivations(c) = {}

\* Every pit on the stack has its record and its level, and every two
\* neighbours of the stack have their caller/callee record and its level, so
\* _call_leave never takes the paths that log errors 1, 3, 6 and 7.
PairsRecorded ==
    /\ \A i \in 1..Len(stack) :
         stack[i].pit \in DOMAIN pits \cap DOMAIN pitLevel
    /\ \A i \in 2..Len(stack) :
         <<stack[i-1].pit, stack[i].pit>> \in DOMAIN children \cap DOMAIN childLevel

\* The callers of p that have a record of calling it, and what their records
\* say in one of their fields.
Incoming(p) == {c \in DOMAIN children : c[2] = p}
ByCallers(field, p) ==
    SumFunctionOnSet([c \in DOMAIN children |-> children[c][field]], Incoming(p))

\* A function's self time is what its callers' records say of it plus what it
\* did as the outermost function of the stack: moving a callee's time out of
\* its caller, and out of its caller's pair, loses and invents nothing, under
\* any recursion and after failed allocations.
SelfTimesAddUp ==
    \A p \in DOMAIN pits :
        pits[p].tsub = outermost[p].tsub + ByCallers("tsub", p)

\* The same of the two call counts: the calls of a function are the calls its
\* callers made, and exactly one caller is credited for a non-recursive call.
CallCountsAddUp ==
    \A p \in DOMAIN pits :
        /\ pits[p].callcount = outermost[p].callcount + ByCallers("callcount", p)
        /\ pits[p].nonrec = outermost[p].nonrec + ByCallers("nonrec", p)

\* The outermost activation of p, or of the pair c, began at this time.
LowestOf(is) == CHOOSE i \in is : \A j \in is : i <= j
Running(is) == IF is = {} THEN 0 ELSE now - stack[LowestOf(is)].t0

\* The cumulative time of a function, or of a pair, never exceeds the time that
\* has passed, however deep the recursion: nested activations count once.
NoDoubleCounting ==
    /\ \A p \in DOMAIN pits :
         /\ 0 <= pits[p].ttotal
         /\ pits[p].ttotal + Running(Activations(p)) <= now
    /\ \A c \in DOMAIN children :
         /\ 0 <= children[c].ttotal
         /\ children[c].ttotal + Running(PairActivations(c)) <= now

\* The statistics promised by CallTimes are the recorded ones plus what the
\* activations on the stack have not been charged for yet: a function is owed
\* the time between its entry and the entry of the function above it.
Owed(i) == (IF i = Len(stack) THEN now ELSE stack[i+1].t0) - stack[i].t0
OwedTo(is) == SumFunctionOnSet([i \in 1..Len(stack) |-> Owed(i)], is)
Recorded(table, k) == IF k \in DOMAIN table THEN table[k] ELSE Zero

Promised == INSTANCE CallTimes WITH
    Fn        <- Pit,
    running   <- [i \in 1..Len(stack) |-> stack[i].pit],
    self      <- [p \in Pit |->
                    Recorded(pits, p).tsub + OwedTo(Activations(p))],
    total     <- [p \in Pit |->
                    Recorded(pits, p).ttotal + Running(Activations(p))],
    ncall     <- [p \in Pit |-> Recorded(pits, p).callcount],
    nactual   <- [p \in Pit |-> Recorded(pits, p).nonrec],
    pairSelf  <- [c \in Pair |->
                    Recorded(children, c).tsub + OwedTo(PairActivations(c))],
    pairTotal <- [c \in Pair |->
                    Recorded(children, c).ttotal + Running(PairActivations(c))]

\* For ordinary functions the accounting of _call_enter and _call_leave charges
\* every unit of time, and counts every call, as CallTimes says.
ChargesAsPromised == Promised!Spec

\* Once every call has returned nothing is left for _pitenumstat to normalise:
\* no self time is negative and every recorded function has been called.
SettledAtRest ==
    stack = <<>> =>
        /\ \A p \in DOMAIN pits : Normalised(pits[p]) = pits[p]
        /\ \A c \in DOMAIN children : Normalised(children[c]) = children[c]
=============================================================================
