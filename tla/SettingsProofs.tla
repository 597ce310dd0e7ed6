---------------------------- MODULE SettingsProofs ----------------------------
(***************************************************************************)
(* Proofs about Settings: for any number of threads that call the profiler *)
(* and its decorator, that the tables hold one kind of statistics; for one *)
(* thread, that the decorator stops the profiler after the last call of    *)
(* its function, and leaves nothing behind.                                *)
(***************************************************************************)
EXTENDS Settings, FiniteSetTheorems, SequenceTheorems, TLAPS

\* Statistics that exist, or are being recorded, keep settings from changing.
StatsKnown ==
    /\ running => haveStats
    /\ records # {} => haveStats

SettingsInv == OneClockOneBackend /\ StatsKnown

\* Every function of the profiler keeps the invariant, whoever calls it.
LEMMA EffectsKeep ==
    ASSUME SettingsInv,
           \/ Record
           \/ StartEffect
           \/ StopEffect
           \/ ClearEffect
           \/ \E c : ~ClockRefused(c) /\ ClockEffect(c)
           \/ \E b : ~BackendRefused(b) /\ BackendEffect(b)
           \/ UNCHANGED profiler
    PROVE  SettingsInv'
<1>1. CASE Record
      BY <1>1 DEF SettingsInv, OneClockOneBackend, StatsKnown, Record
<1>2. CASE StartEffect
      BY <1>2 DEF SettingsInv, OneClockOneBackend, StatsKnown, StartEffect
<1>3. CASE StopEffect
      BY <1>3 DEF SettingsInv, OneClockOneBackend, StatsKnown, StopEffect
<1>4. CASE ClearEffect
      BY <1>4 DEF SettingsInv, OneClockOneBackend, StatsKnown, ClearEffect
<1>5. CASE \E c : ~ClockRefused(c) /\ ClockEffect(c)
      BY <1>5 DEF SettingsInv, OneClockOneBackend, StatsKnown, ClockRefused,
                  ClockEffect
<1>6. CASE \E b : ~BackendRefused(b) /\ BackendEffect(b)
      BY <1>6 DEF SettingsInv, OneClockOneBackend, StatsKnown, BackendRefused,
                  BackendEffect
<1>7. CASE UNCHANGED profiler
      BY <1>7 DEF SettingsInv, OneClockOneBackend, StatsKnown, profiler
<1> QED BY <1>1, <1>2, <1>3, <1>4, <1>5, <1>6, <1>7

\* A step of a wrapper is a function of the profiler, or leaves it alone.
LEMMA WrapperKeeps ==
    ASSUME SettingsInv, NEW t, Wrapper(t)
    PROVE  SettingsInv'
<1>1. CASE WrapperClears(t)
      BY <1>1, EffectsKeep DEF WrapperClears
<1>2. CASE WrapperSetsClock(t)
      BY <1>2, EffectsKeep DEF WrapperSetsClock
<1>3. CASE WrapperStarts(t)
      BY <1>3, EffectsKeep DEF WrapperStarts
<1>4. CASE WrapperCounts(t)
      BY <1>4, EffectsKeep DEF WrapperCounts
<1>5. CASE WrapperUncounts(t)
      BY <1>5, EffectsKeep DEF WrapperUncounts
<1>6. CASE WrapperStops(t)
      BY <1>6, EffectsKeep DEF WrapperStops
<1>7. CASE WrapperReports(t)
      BY <1>7, EffectsKeep DEF WrapperReports
<1>8. CASE WrapperEnds(t)
      BY <1>8, EffectsKeep DEF WrapperEnds
<1> QED BY <1>1, <1>2, <1>3, <1>4, <1>5, <1>6, <1>7, <1>8 DEF Wrapper

LEMMA SettingsInit == Init => SettingsInv
BY DEF Init, SettingsInv, OneClockOneBackend, StatsKnown

LEMMA SettingsNext == SettingsInv /\ [Next]_vars => SettingsInv'
<1> SUFFICES ASSUME SettingsInv, [Next]_vars
             PROVE  SettingsInv'
    OBVIOUS
<1>1. CASE Events
      BY <1>1, EffectsKeep DEF Events
<1>2. ASSUME NEW t \in Thread,
             \/ \E f \in Decorated : Enter(t, f)
             \/ RunBegins(t)
             \/ RunEnds(t)
             \/ Calls(t)
      PROVE  SettingsInv'
  <2>1. CASE \E f \in Decorated : Enter(t, f)
        BY <2>1, EffectsKeep DEF Enter
  <2>2. CASE RunBegins(t)
        BY <2>2, EffectsKeep DEF RunBegins
  <2>3. CASE RunEnds(t)
        BY <2>3, EffectsKeep DEF RunEnds
  <2>4. CASE Calls(t)
        BY <2>4, EffectsKeep DEF Calls
  <2> QED BY <1>2, <2>1, <2>2, <2>3, <2>4
<1>3. CASE UNCHANGED vars
      BY <1>3, EffectsKeep DEF vars
<1> QED BY <1>1, <1>2, <1>3, WrapperKeeps DEF Next

\* In whatever order threads start, stop and clear the profiler, run decorated
\* functions and change its clock and backend, its tables never mix what two
\* clocks measured or what was told apart by two backends.
THEOREM OneKindOfStatistics == Spec => []OneClockOneBackend
<1>1. SettingsInv => OneClockOneBackend
      BY DEF SettingsInv
<1> QED BY <1>1, SettingsInit, SettingsNext, PTL DEF Spec

-----------------------------------------------------------------------------
(* Blocks, and how deep a function is in them. *)

\* Where a wrapper can be, and what a block is.
Place == {"clear", "clock", "start", "count", "body", "stop", "report", "final_clear"}
BlockKind == [fn: Decorated, at: Place] \cup {RunBlock}

\* The blocks of a thread in which function f is being executed.
Bodies(b, f) == {i \in 1..Len(b) : b[i] = Block(f, "body")}
Depth(b, f) == Cardinality(Bodies(b, f))

LEMMA DepthNat ==
    ASSUME NEW b, Len(b) \in Nat, NEW f
    PROVE  /\ IsFiniteSet(Bodies(b, f)) /\ Depth(b, f) \in Nat
           /\ Depth(b, f) = 0 => Bodies(b, f) = {}
<1>1. IsFiniteSet(1..Len(b))
  BY FS_Interval
<1>2. IsFiniteSet(Bodies(b, f))
  BY <1>1, FS_Subset DEF Bodies
<1> QED
  BY <1>2, FS_CardinalityType, FS_EmptySet DEF Depth

LEMMA DepthPush ==
    ASSUME NEW S, NEW b \in Seq(S), NEW x, NEW f
    PROVE  Depth(Append(b, x), f)
             = IF x = Block(f, "body") THEN Depth(b, f) + 1 ELSE Depth(b, f)
<1>1. /\ Len(b) \in Nat /\ Len(Append(b, x)) = Len(b) + 1
      /\ Append(b, x)[Len(b) + 1] = x
      /\ \A i \in 1..Len(b) : Append(b, x)[i] = b[i]
  BY AppendProperties
<1>2. CASE x = Block(f, "body")
  <2>1. Bodies(Append(b, x), f) = Bodies(b, f) \cup {Len(b) + 1}
    BY <1>1, <1>2 DEF Bodies
  <2>2. Len(b) + 1 \notin Bodies(b, f)
    BY <1>1 DEF Bodies
  <2> QED
    BY <1>1, <1>2, <2>1, <2>2, DepthNat, FS_AddElement DEF Depth
<1>3. CASE x # Block(f, "body")
  <2>1. Bodies(Append(b, x), f) = Bodies(b, f)
    BY <1>1, <1>3 DEF Bodies
  <2> QED
    BY <1>3, <2>1 DEF Depth
<1> QED
  BY <1>2, <1>3

LEMMA Fronts ==
    ASSUME NEW S, NEW b \in Seq(S), b # <<>>
    PROVE  /\ Front(b) \in Seq(S) /\ Last(b) \in S /\ Len(b) \in Nat \ {0}
           /\ Last(b) = b[Len(b)]
           /\ Len(Front(b)) = Len(b) - 1
           /\ \A i \in 1..(Len(b) - 1) : Front(b)[i] = b[i]
<1>1. Len(b) \in Nat \ {0} /\ Front(b) = SubSeq(b, 1, Len(b) - 1)
  BY EmptySeq, LenProperties DEF Front
<1>2. Last(b) = b[Len(b)] /\ b[Len(b)] \in S
  BY <1>1 DEF Last
<1> DEFINE n == Len(b) - 1
<1>3. n \in Nat /\ \A i \in 1..n : b[i] \in S
  BY <1>1, ElementOfSeq
<1>4. Front(b) = SubSeq(b, 1, n)
  BY <1>1
<1> HIDE DEF n
<1>5. /\ SubSeq(b, 1, n) \in Seq(S)
      /\ Len(SubSeq(b, 1, n)) = n
      /\ \A i \in 1..n : SubSeq(b, 1, n)[i] = b[i]
  BY <1>3, SubSeqProperties
<1> QED
  BY <1>1, <1>2, <1>4, <1>5 DEF n

\* The last block is on top of the others.
LEMMA FrontAndLast ==
    ASSUME NEW S, NEW b \in Seq(S), b # <<>>
    PROVE  b = Append(Front(b), Last(b))
<1> DEFINE r == Front(b)  x == Last(b)  n == Len(b) - 1
<1>1. /\ r \in Seq(S) /\ x \in S /\ n \in Nat /\ Len(b) = n + 1 /\ x = b[n + 1]
      /\ Len(r) = n /\ \A i \in 1..n : r[i] = b[i]
  BY Fronts
<1> HIDE DEF r, x, n
<1>2. /\ Append(r, x) \in Seq(S) /\ Len(Append(r, x)) = n + 1
      /\ Append(r, x)[n + 1] = x
      /\ \A i \in 1..n : Append(r, x)[i] = r[i]
  BY <1>1, AppendProperties
<1>3. \A i \in 1..(n + 1) : Append(r, x)[i] = b[i]
  <2>1. \A i \in 1..(n + 1) : i \in 1..n \/ i = n + 1
    BY <1>1
  <2> QED
    BY <1>1, <1>2, <2>1
<1>4. b = Append(r, x)
  BY <1>1, <1>2, <1>3, SeqEqual
<1> QED
  BY <1>4 DEF r, x

LEMMA DepthPop ==
    ASSUME NEW S, NEW b \in Seq(S), b # <<>>, NEW f
    PROVE  Depth(b, f)
             = IF Last(b) = Block(f, "body") THEN Depth(Front(b), f) + 1
               ELSE Depth(Front(b), f)
<1> DEFINE r == Front(b)  x == Last(b)
<1>1. r \in Seq(S) /\ b = Append(r, x)
  BY Fronts, FrontAndLast
<1> HIDE DEF r, x
<1>2. Depth(Append(r, x), f)
        = IF x = Block(f, "body") THEN Depth(r, f) + 1 ELSE Depth(r, f)
  BY <1>1, DepthPush
<1> QED
  BY <1>1, <1>2 DEF r, x

-----------------------------------------------------------------------------
(* The wrappers of the only thread. *)

Shape(c) ==
    /\ blocks \in [Thread -> Seq(BlockKind)]
    /\ level \in [Decorated -> Nat]
    /\ \A i \in 1..(Len(blocks[c]) - 1) : blocks[c][i].at = "body"
    /\ \A f \in Decorated : level[f] = Depth(blocks[c], f)

\* The level of a function counts its bodies in progress; a wrapper that goes on to
\* stop the profiler has found it to be 0, and nothing starts the profiler again
\* before that wrapper ends.
NestInv(c) ==
    /\ Shape(c)
    /\ At(c, "stop") => level[Current(c)] = 0
    /\ At(c, "report") \/ At(c, "final_clear") => ~running

LEMMA Kinds ==
    ASSUME NEW x \in BlockKind, x # RunBlock
    PROVE  x.fn \in Decorated /\ x.at \in Place /\ x = Block(x.fn, x.at)
  BY DEF BlockKind, Block

LEMMA BlocksDiffer ==
    /\ \A f \in Decorated, at \in Place : Block(f, at) \in BlockKind
                                            /\ Block(f, at) # RunBlock
    /\ RunBlock \in BlockKind
    /\ \A f, g, at1, at2 : Block(f, at1) = Block(g, at2) <=> f = g /\ at1 = at2
    /\ \A f, at : Block(f, at).at = at /\ Block(f, at).fn = f
<1>1. ASSUME NEW f, NEW at PROVE Block(f, at).at = at /\ Block(f, at).fn = f
  BY DEF Block
<1>2. ASSUME NEW f, NEW g, NEW at1, NEW at2
      PROVE  Block(f, at1) = Block(g, at2) <=> f = g /\ at1 = at2
  <2>1. /\ Block(f, at1).fn = f /\ Block(f, at1).at = at1
        /\ Block(g, at2).fn = g /\ Block(g, at2).at = at2
    BY <1>1
  <2> QED
    BY <2>1
<1>3. ASSUME NEW f \in Decorated, NEW at \in Place
      PROVE  Block(f, at) \in BlockKind /\ Block(f, at) # RunBlock
  <2>1. Block(f, at) \in BlockKind
    BY DEF Block, BlockKind
  <2> QED
    BY <1>2, <2>1, SettingsAssumption DEF RunBlock
<1>4. RunBlock \in BlockKind
  BY DEF BlockKind
<1> QED
  BY <1>1, <1>2, <1>3, <1>4

\* The top of the thread's blocks.
LEMMA TopBlock ==
    ASSUME NEW c \in Thread, Shape(c), blocks[c] # <<>>
    PROVE  /\ blocks[c] \in Seq(BlockKind) /\ Last(blocks[c]) \in BlockKind
           /\ Last(blocks[c]) # RunBlock =>
                /\ Current(c) \in Decorated
                /\ Last(blocks[c]) = Block(Current(c), Last(blocks[c]).at)
<1>1. blocks[c] \in Seq(BlockKind)
  BY DEF Shape
<1>2. Last(blocks[c]) \in BlockKind
  BY <1>1, Fronts
<1> QED
  BY <1>1, <1>2, Kinds DEF Current

\* Block x is put on top of the blocks b of thread c, which execute their bodies,
\* and is counted if it executes its own.
PutOn(c, b, x) ==
    /\ \A i \in 1..Len(b) : b[i].at = "body"
    /\ blocks' = [blocks EXCEPT ![c] = Append(b, x)]
    /\ level' \in [Decorated -> Nat]
    /\ \A f \in Decorated :
         level'[f] = IF x = Block(f, "body") THEN Depth(b, f) + 1 ELSE Depth(b, f)

LEMMA ShapePush ==
    ASSUME NEW c \in Thread, Shape(c), NEW b \in Seq(BlockKind), NEW x \in BlockKind,
           PutOn(c, b, x)
    PROVE  /\ Shape(c)' /\ blocks'[c] # <<>> /\ Last(blocks'[c]) = x
           /\ Current(c)' = x.fn
<1>1. /\ Append(b, x) \in Seq(BlockKind) /\ Len(Append(b, x)) = Len(b) + 1
      /\ Len(b) \in Nat
      /\ \A i \in 1..Len(b) : Append(b, x)[i] = b[i]
      /\ Append(b, x)[Len(b) + 1] = x
  BY AppendProperties
<1>2. blocks' \in [Thread -> Seq(BlockKind)] /\ blocks'[c] = Append(b, x)
  BY <1>1 DEF Shape, PutOn
<1>3. \A i \in 1..(Len(blocks'[c]) - 1) : blocks'[c][i].at = "body"
  BY <1>1, <1>2 DEF PutOn
<1>4. \A f \in Decorated : level'[f] = Depth(blocks'[c], f)
  <2>1. ASSUME NEW f \in Decorated
        PROVE  Depth(Append(b, x), f)
                 = IF x = Block(f, "body") THEN Depth(b, f) + 1 ELSE Depth(b, f)
    BY DepthPush
  <2> QED
    BY <1>2, <2>1 DEF PutOn
<1>5. Shape(c)'
  BY <1>2, <1>3, <1>4 DEF Shape, PutOn
<1>6. blocks'[c] # <<>> /\ Last(blocks'[c]) = x
  BY <1>1, <1>2, EmptySeq DEF Last
<1> QED
  BY <1>5, <1>6 DEF Current

\* What is below the top.
LEMMA Below ==
    ASSUME NEW c \in Thread, Shape(c), blocks[c] # <<>>
    PROVE  /\ Front(blocks[c]) \in Seq(BlockKind)
           /\ \A i \in 1..Len(Front(blocks[c])) : Front(blocks[c])[i].at = "body"
           /\ \A f \in Decorated :
                level[f] = IF Last(blocks[c]) = Block(f, "body")
                           THEN Depth(Front(blocks[c]), f) + 1
                           ELSE Depth(Front(blocks[c]), f)
<1>1. blocks[c] \in Seq(BlockKind)
  BY DEF Shape
<1>2. /\ Front(blocks[c]) \in Seq(BlockKind)
      /\ Len(Front(blocks[c])) = Len(blocks[c]) - 1
      /\ \A i \in 1..(Len(blocks[c]) - 1) : Front(blocks[c])[i] = blocks[c][i]
  BY <1>1, Fronts
<1>3. \A f \in Decorated :
        Depth(blocks[c], f) = IF Last(blocks[c]) = Block(f, "body")
                              THEN Depth(Front(blocks[c]), f) + 1
                              ELSE Depth(Front(blocks[c]), f)
  BY <1>1, DepthPop
<1> QED
  BY <1>2, <1>3 DEF Shape

\* The blocks of a thread that runs code of the program.
LEMMA FreeBelow ==
    ASSUME NEW c \in Thread, Shape(c), Free(c)
    PROVE  \A i \in 1..Len(blocks[c]) : blocks[c][i].at = "body"
<1>1. CASE blocks[c] = <<>>
  BY <1>1
<1>2. CASE blocks[c] # <<>>
  <2>1. Len(blocks[c]) \in Nat /\ blocks[c][Len(blocks[c])].at = "body"
    BY <1>2, Fronts DEF Shape, Free
  <2> QED
    BY <2>1 DEF Shape
<1> QED
  BY <1>1, <1>2

\* A wrapper goes on to a place that is not its body, and counts nothing.
LEMMA GoingKeeps ==
    ASSUME NEW c \in Thread, NestInv(c), NEW from \in Place \ {"body"}, At(c, from),
           NEW at \in Place \ {"body", "stop"}, Going(c, at), level' = level,
           at \in {"report", "final_clear"} => ~running'
    PROVE  NestInv(c)'
<1>1. /\ Shape(c) /\ blocks[c] # <<>> /\ Last(blocks[c]) # RunBlock
      /\ Last(blocks[c]).at = from
  BY DEF NestInv, At
<1>2. Current(c) \in Decorated /\ Last(blocks[c]) = Block(Current(c), from)
  BY <1>1, TopBlock
<1> DEFINE b == Front(blocks[c])  x == Block(Current(c), at)
<1>3. /\ b \in Seq(BlockKind) /\ \A i \in 1..Len(b) : b[i].at = "body"
      /\ \A f \in Decorated : level[f] = Depth(b, f)
  BY <1>1, <1>2, Below, BlocksDiffer
<1>4. /\ x \in BlockKind /\ x.at = at /\ \A f : x # Block(f, "body")
      /\ blocks' = [blocks EXCEPT ![c] = Append(b, x)]
  BY <1>2, BlocksDiffer DEF Going
<1>5. level' \in [Decorated -> Nat]
  BY <1>1 DEF Shape
<1> HIDE DEF b, x
<1>6. PutOn(c, b, x)
  BY <1>3, <1>4, <1>5 DEF PutOn
<1>7. Shape(c)' /\ Last(blocks'[c]) = x
  BY <1>1, <1>3, <1>4, <1>6, ShapePush
<1> QED
  BY <1>4, <1>7 DEF NestInv, At, Last

\* A wrapper leaves without counting.
LEMMA LeavingKeeps ==
    ASSUME NEW c \in Thread, Shape(c), blocks[c] # <<>>, Leaving(c),
           level' \in [Decorated -> Nat],
           \A f \in Decorated : level'[f] = Depth(Front(blocks[c]), f)
    PROVE  NestInv(c)' /\ blocks'[c] = Front(blocks[c])
<1> DEFINE b == Front(blocks[c])
<1>1. /\ b \in Seq(BlockKind) /\ \A i \in 1..Len(b) : b[i].at = "body"
      /\ Len(b) \in Nat
  BY Below
<1>2. blocks' \in [Thread -> Seq(BlockKind)] /\ blocks'[c] = b
  BY <1>1 DEF Leaving, Shape
<1>3. \A f \in Decorated : level'[f] = Depth(b, f)
  OBVIOUS
<1> HIDE DEF b
<1>4. Shape(c)'
  BY <1>1, <1>2, <1>3 DEF Shape
<1>5. b # <<>> => Last(b).at = "body"
  BY <1>1, EmptySeq DEF Last
<1> QED
  BY <1>2, <1>4, <1>5 DEF NestInv, At, b

\* A block is put on top by a thread that runs code of the program.
LEMMA PushKeeps ==
    ASSUME NEW c \in Thread, NestInv(c), Free(c), level' = level, NEW x \in BlockKind,
           blocks' = [blocks EXCEPT ![c] = Append(blocks[c], x)],
           \A f \in Decorated : x # Block(f, "body"),
           x.at \notin {"stop", "report", "final_clear"}
    PROVE  NestInv(c)'
<1> DEFINE b == blocks[c]
<1>1. b \in Seq(BlockKind) /\ \A f \in Decorated : level'[f] = Depth(b, f)
  BY DEF NestInv, Shape
<1>2. \A i \in 1..Len(b) : b[i].at = "body"
  BY FreeBelow DEF NestInv
<1>3. Shape(c) /\ level' \in [Decorated -> Nat]
  BY DEF NestInv, Shape
<1>4. blocks' = [blocks EXCEPT ![c] = Append(b, x)]
  OBVIOUS
<1>5. PutOn(c, b, x)
  BY <1>1, <1>2, <1>3, <1>4 DEF PutOn
<1> HIDE DEF b
<1>6. Shape(c)' /\ Last(blocks'[c]) = x
  BY <1>1, <1>3, <1>5, ShapePush
<1> QED
  BY <1>6 DEF NestInv, At, Last

\* What a block of a decorated function is, and what is below it.
LEMMA AtPlace ==
    ASSUME NEW c \in Thread, Shape(c), NEW from \in Place, At(c, from)
    PROVE  /\ blocks[c] # <<>> /\ Last(blocks[c]) # RunBlock
           /\ Current(c) \in Decorated
           /\ Last(blocks[c]) = Block(Current(c), from)
           /\ Front(blocks[c]) \in Seq(BlockKind)
           /\ \A i \in 1..Len(Front(blocks[c])) : Front(blocks[c])[i].at = "body"
           /\ \A f \in Decorated :
                level[f] = IF f = Current(c) /\ from = "body"
                           THEN Depth(Front(blocks[c]), f) + 1
                           ELSE Depth(Front(blocks[c]), f)
<1>1. /\ blocks[c] # <<>> /\ Last(blocks[c]) # RunBlock
      /\ Current(c) \in Decorated /\ Last(blocks[c]) = Block(Current(c), from)
  BY TopBlock DEF At
<1>2. \A f : Block(Current(c), from) = Block(f, "body") <=> f = Current(c) /\ from = "body"
  BY BlocksDiffer
<1> QED
  BY <1>1, <1>2, Below

LEMMA CountsKeeps ==
    ASSUME NEW c \in Thread, NestInv(c), WrapperCounts(c)
    PROVE  NestInv(c)'
<1> DEFINE b == Front(blocks[c])  g == Current(c)  x == Block(g, "body")
<1>1. Shape(c) /\ At(c, "count") /\ "count" \in Place
  BY DEF NestInv, WrapperCounts, Place
<1>2. /\ g \in Decorated /\ b \in Seq(BlockKind)
      /\ \A i \in 1..Len(b) : b[i].at = "body"
      /\ \A f \in Decorated : level[f] = Depth(b, f)
  BY <1>1, AtPlace
<1>3. /\ blocks' = [blocks EXCEPT ![c] = Append(b, x)]
      /\ level' = [level EXCEPT ![g] = level[g] + 1]
      /\ level \in [Decorated -> Nat]
  BY <1>1 DEF WrapperCounts, Going, Shape
<1>4. /\ x \in BlockKind /\ x.at = "body"
      /\ \A f : x = Block(f, "body") <=> f = g
  BY <1>2, BlocksDiffer DEF Place
<1> HIDE DEF b, g, x
<1>5. level' \in [Decorated -> Nat]
  BY <1>2, <1>3
<1>6. \A f \in Decorated :
         level'[f] = IF x = Block(f, "body") THEN Depth(b, f) + 1 ELSE Depth(b, f)
  BY <1>2, <1>3, <1>4
<1>7. PutOn(c, b, x)
  BY <1>2, <1>3, <1>5, <1>6 DEF PutOn
<1>8. Shape(c)' /\ Last(blocks'[c]) = x
  BY <1>1, <1>2, <1>4, <1>7, ShapePush
<1> QED
  BY <1>4, <1>8 DEF NestInv, At, Last

\* The call is over: the level is the number of bodies that are left.
LEMMA Uncounted ==
    ASSUME NEW c \in Thread, NestInv(c), WrapperUncounts(c)
    PROVE  /\ Current(c) \in Decorated
           /\ level' \in [Decorated -> Nat]
           /\ \A f \in Decorated : level'[f] = Depth(Front(blocks[c]), f)
<1> DEFINE b == Front(blocks[c])  g == Current(c)
<1>1. Shape(c) /\ At(c, "body") /\ "body" \in Place
  BY DEF NestInv, WrapperUncounts, Place
<1>2. /\ g \in Decorated /\ b \in Seq(BlockKind)
      /\ \A f \in Decorated : level[f] = IF f = g THEN Depth(b, f) + 1 ELSE Depth(b, f)
  BY <1>1, AtPlace
<1>3. level' = [level EXCEPT ![g] = level[g] - 1] /\ level \in [Decorated -> Nat]
  BY <1>1 DEF WrapperUncounts, Shape
<1> HIDE DEF b, g
<1>4. \A f \in Decorated : Depth(b, f) \in Nat
  BY <1>2, LenProperties, DepthNat
<1>5. \A f \in Decorated : level'[f] = Depth(b, f)
  BY <1>2, <1>3, <1>4
<1>6. level' \in [Decorated -> Nat]
  BY <1>3, <1>4, <1>5
<1> QED
  BY <1>2, <1>5, <1>6 DEF b, g

LEMMA UncountsKeeps ==
    ASSUME NEW c \in Thread, NestInv(c), WrapperUncounts(c)
    PROVE  NestInv(c)'
<1> DEFINE b == Front(blocks[c])  g == Current(c)  x == Block(g, "stop")
<1>1. Shape(c) /\ At(c, "body") /\ "body" \in Place
  BY DEF NestInv, WrapperUncounts, Place
<1>2. /\ g \in Decorated /\ level' \in [Decorated -> Nat]
      /\ \A f \in Decorated : level'[f] = Depth(b, f)
  BY Uncounted
<1>3. CASE Leaving(c)
  BY <1>1, <1>2, <1>3, LeavingKeeps DEF At
<1>4. CASE Going(c, "stop") /\ level'[g] = 0
  <2>1. b \in Seq(BlockKind) /\ \A i \in 1..Len(b) : b[i].at = "body"
    BY <1>1, AtPlace
  <2>2. blocks' = [blocks EXCEPT ![c] = Append(b, x)]
    BY <1>4 DEF Going
  <2>3. x \in BlockKind /\ x.at = "stop" /\ x.fn = g /\ \A f : x # Block(f, "body")
    BY <1>2, BlocksDiffer DEF Place
  <2> HIDE DEF b, g, x
  <2>4. PutOn(c, b, x)
    BY <1>2, <2>1, <2>2, <2>3 DEF PutOn
  <2>5. Shape(c)' /\ Last(blocks'[c]) = x
    BY <1>1, <2>1, <2>3, <2>4, ShapePush
  <2>6. Current(c)' = g
    BY <2>3, <2>5 DEF Current, Last
  <2> QED
    BY <1>4, <2>3, <2>5, <2>6 DEF NestInv, At, Last
<1> QED
  BY <1>3, <1>4 DEF WrapperUncounts

LEMMA NestFrame ==
    ASSUME NEW c \in Thread, NestInv(c), UNCHANGED <<level, blocks>>,
           running' => running \/ Free(c)
    PROVE  NestInv(c)'
<1>1. Shape(c)' /\ (At(c, "stop")' => level'[Current(c)'] = 0)
  BY DEF NestInv, Shape, At, Current
<1>2. ASSUME At(c, "report")' \/ At(c, "final_clear")' PROVE ~running'
  BY <1>2 DEF NestInv, At, Free
<1> QED
  BY <1>1, <1>2 DEF NestInv

LEMMA WrapperNests ==
    ASSUME NEW c \in Thread, NestInv(c), Wrapper(c)
    PROVE  NestInv(c)'
<1> USE DEF Place
<1>1. CASE WrapperClears(c)
  BY <1>1, GoingKeeps DEF WrapperClears
<1>2. CASE WrapperSetsClock(c)
  <2>1. At(c, "clock") /\ level' = level /\ (Leaving(c) \/ Going(c, "start"))
    BY <1>2 DEF WrapperSetsClock
  <2>2. CASE Leaving(c)
    <3>1. /\ blocks[c] # <<>> /\ \A f \in Decorated : level[f] = Depth(Front(blocks[c]), f)
      BY <2>1, AtPlace DEF NestInv
    <3> QED
      BY <2>1, <2>2, <3>1, LeavingKeeps DEF NestInv, Shape
  <2>3. CASE Going(c, "start")
    BY <2>1, <2>3, GoingKeeps
  <2> QED
    BY <2>1, <2>2, <2>3
<1>3. CASE WrapperStarts(c)
  BY <1>3, GoingKeeps DEF WrapperStarts
<1>4. CASE WrapperCounts(c)
  BY <1>4, CountsKeeps
<1>5. CASE WrapperUncounts(c)
  BY <1>5, UncountsKeeps
<1>6. CASE WrapperStops(c)
  BY <1>6, GoingKeeps DEF WrapperStops, StopEffect
<1>7. CASE WrapperReports(c)
  BY <1>7, GoingKeeps DEF WrapperReports, NestInv, profiler
<1>8. CASE WrapperEnds(c)
  <2>1. At(c, "final_clear") /\ level' = level /\ Leaving(c)
    BY <1>8 DEF WrapperEnds
  <2>2. /\ blocks[c] # <<>> /\ \A f \in Decorated : level[f] = Depth(Front(blocks[c]), f)
    BY <2>1, AtPlace DEF NestInv
  <2> QED
    BY <2>1, <2>2, LeavingKeeps DEF NestInv, Shape
<1> QED
  BY <1>1, <1>2, <1>3, <1>4, <1>5, <1>6, <1>7, <1>8 DEF Wrapper

LEMMA NestInit == ASSUME NEW c \in Thread, Init PROVE NestInv(c)
<1>1. blocks \in [Thread -> Seq(BlockKind)] /\ blocks[c] = <<>>
  BY DEF Init
<1>2. ASSUME NEW f \in Decorated PROVE level[f] = Depth(blocks[c], f)
  <2>1. Bodies(blocks[c], f) = {}
    BY <1>1 DEF Bodies
  <2> QED
    BY <2>1, FS_EmptySet DEF Depth, Init
<1>3. level \in [Decorated -> Nat]
  BY DEF Init
<1>4. \A i \in 1..(Len(blocks[c]) - 1) : blocks[c][i].at = "body"
  BY <1>1
<1> QED
  BY <1>1, <1>2, <1>3, <1>4 DEF NestInv, Shape, At

LEMMA NestStep ==
    ASSUME NEW c, Thread = {c}, NestInv(c), [Next]_vars
    PROVE  NestInv(c)'
<1>1. c \in Thread
  OBVIOUS
<1>2. CASE Events
  BY <1>1, <1>2, NestFrame DEF Events, Record
<1>3. ASSUME NEW f \in Decorated, Enter(c, f) PROVE NestInv(c)'
  <2> DEFINE x == Block(f, IF level[f] = 0 THEN "clear" ELSE "count")
  <2>1. Free(c) /\ blocks' = [blocks EXCEPT ![c] = Append(blocks[c], x)] /\ level' = level
    BY <1>3 DEF Enter
  <2>2. /\ x \in BlockKind /\ x.at \in {"clear", "count"}
        /\ \A g \in Decorated : x # Block(g, "body")
    BY BlocksDiffer DEF Place
  <2> HIDE DEF x
  <2> QED
    BY <1>1, <2>1, <2>2, PushKeeps
<1>4. CASE Wrapper(c)
  BY <1>1, <1>4, WrapperNests
<1>5. CASE RunBegins(c)
  <2>1. /\ Free(c) /\ blocks' = [blocks EXCEPT ![c] = Append(blocks[c], RunBlock)]
        /\ level' = level
    BY <1>5 DEF RunBegins
  <2>2. /\ RunBlock \in BlockKind /\ RunBlock.at = "body"
        /\ \A g \in Decorated : RunBlock # Block(g, "body")
    BY BlocksDiffer DEF Place, RunBlock
  <2> QED
    BY <1>1, <2>1, <2>2, PushKeeps
<1>6. CASE RunEnds(c)
  <2>1. /\ Shape(c) /\ blocks[c] # <<>> /\ Last(blocks[c]) = RunBlock
        /\ Leaving(c) /\ level' = level
    BY <1>6 DEF RunEnds, NestInv
  <2>2. \A f \in Decorated : level[f] = Depth(Front(blocks[c]), f)
    BY <1>1, <2>1, Below, BlocksDiffer DEF Place
  <2> QED
    BY <1>1, <2>1, <2>2, LeavingKeeps DEF Shape
<1>7. CASE Calls(c)
  BY <1>1, <1>7, NestFrame DEF Calls
<1>8. CASE UNCHANGED vars
  BY <1>1, <1>8, NestFrame DEF vars, profiler
<1> QED
  BY <1>2, <1>3, <1>4, <1>5, <1>6, <1>7, <1>8 DEF Next

\* In a program of one thread a wrapper stops the profiler only when no call of its
\* function is in progress, however calls nest, raise exceptions, and are mixed with
\* run() blocks and plain sessions.
THEOREM StopsWhenDone ==
    ASSUME NEW c, Thread = {c}
    PROVE  Spec => []StopsAfterLastCall
<1>1. Init => NestInv(c)
  BY NestInit
<1>2. NestInv(c) /\ [Next]_vars => NestInv(c)'
  BY NestStep
<1>3. ASSUME NestInv(c) PROVE StopsAfterLastCall
  <2>1. SUFFICES ASSUME At(c, "stop"), NEW i \in DOMAIN blocks[c],
                        blocks[c][i] = Block(Current(c), "body")
                 PROVE  FALSE
    BY DEF StopsAfterLastCall
  <2>2. Shape(c) /\ level[Current(c)] = 0 /\ blocks[c] \in Seq(BlockKind)
    BY <1>3, <2>1 DEF NestInv, Shape
  <2>3. Current(c) \in Decorated
    BY <2>1, <2>2, AtPlace DEF Place
  <2>4. Depth(blocks[c], Current(c)) = 0
    BY <2>2, <2>3 DEF Shape
  <2>5. Bodies(blocks[c], Current(c)) = {}
    BY <2>2, <2>4, LenProperties, DepthNat
  <2> QED
    BY <2>1, <2>2, <2>5, LenProperties DEF Bodies
<1> QED
  BY <1>1, <1>2, <1>3, PTL DEF Spec

\* The last of the blocks of the only thread ends.
LEMMA LastBlockEnds ==
    ASSUME NEW c, Thread = {c}, NestInv(c), [Next]_vars,
           Len(blocks[c]) = 1, Last(blocks[c]) # RunBlock, ~At(c, "clock"),
           blocks'[c] = <<>>
    PROVE  ~running' /\ ~haveStats' /\ records' = {}
<1>1. c \in Thread /\ Shape(c) /\ blocks \in [Thread -> Seq(BlockKind)]
  BY DEF NestInv, Shape
<1>2. \A b, x : Append(b, x) # <<>>
  OBVIOUS
<1>3. blocks'[c] # blocks[c]
  OBVIOUS
<1>4. ASSUME NEW at, Going(c, at) PROVE FALSE
  BY <1>1, <1>4 DEF Going
<1>5. ~Events /\ ~Calls(c) /\ ~UNCHANGED vars
  BY <1>3 DEF Events, Calls, vars
<1>6. ~RunEnds(c) /\ ~RunBegins(c) /\ \A f \in Decorated : ~Enter(c, f)
  BY <1>1 DEF RunEnds, RunBegins, Enter
<1>7. ~WrapperUncounts(c)
  <2>1. SUFFICES ASSUME WrapperUncounts(c), level'[Current(c)] # 0 PROVE FALSE
    BY <1>4 DEF WrapperUncounts
  <2>2. level'[Current(c)] = Depth(Front(blocks[c]), Current(c))
    BY <1>1, <2>1, Uncounted
  <2>3. Len(Front(blocks[c])) = 0
    <3>1. blocks[c] \in Seq(BlockKind) /\ blocks[c] # <<>>
      BY <1>1
    <3> QED
      BY <3>1, Fronts
  <2>4. Bodies(Front(blocks[c]), Current(c)) = {}
    BY <2>3 DEF Bodies
  <2> QED
    BY <2>1, <2>2, <2>4, FS_EmptySet DEF Depth
<1>8. WrapperEnds(c)
  <2>1. Wrapper(c)
    BY <1>5, <1>6 DEF Next
  <2> QED
    BY <1>4, <1>7, <2>1 DEF Wrapper, WrapperClears, WrapperSetsClock, WrapperStarts,
       WrapperCounts, WrapperStops, WrapperReports
<1> QED
  BY <1>8 DEF WrapperEnds, ClearEffect, NestInv

\* In a program of one thread the outermost decorated call leaves the profiler stopped
\* and its tables empty, whatever the calls inside it did, unless set_clock_type
\* refused its clock.
THEOREM DecoratedCleansUp ==
    ASSUME NEW c, Thread = {c}
    PROVE  Spec => DecoratedLeavesNothing
<1>1. Init => NestInv(c)
  BY NestInit
<1>2. NestInv(c) /\ [Next]_vars => NestInv(c)'
  BY NestStep
<1>3. ASSUME NestInv(c), [Next]_vars
      PROVE  \A t \in Thread :
               /\ Len(blocks[t]) = 1 /\ Last(blocks[t]) # RunBlock /\ ~At(t, "clock")
               /\ \A u \in Thread : blocks'[u] = <<>>
               => ~running' /\ ~haveStats' /\ records' = {}
  BY <1>3, LastBlockEnds
<1> QED
  BY <1>1, <1>2, <1>3, PTL DEF Spec, DecoratedLeavesNothing
=============================================================================
