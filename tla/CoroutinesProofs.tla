--------------------------- MODULE CoroutinesProofs ---------------------------
(***************************************************************************)
(* Coroutines implements CoroutineTimes.                                   *)
(*                                                                         *)
(* The invariant says how the three things the profiler keeps about a      *)
(* coroutine hang together: the stack has the functions of the calls in    *)
(* progress; the first call of a function has a record, no younger than    *)
(* the call itself, so that its age is what _call_leave charges; and the   *)
(* records of builtins last as long as their calls.  A return event then   *)
(* takes away the record of the innermost call, and no other.              *)
(***************************************************************************)
EXTENDS Coroutines, CallStatsProofs

-----------------------------------------------------------------------------
(* The invariant. *)

CoEntry == [pit: Pit, frame: Frame]

\* A builtin is called by the coroutine under it, with its frame; a coroutine that
\* runs is live, and runs once.
ProgramInv ==
    /\ body \in Seq(CoEntry)
    /\ on \in BOOLEAN
    /\ DOMAIN live \subseteq Frame
    /\ \A f \in DOMAIN live : live[f] \in Pit \ Builtin
    /\ \A i \in 1..Len(body) :
         IF body[i].pit \in Builtin
         THEN /\ i > 1
              /\ body[i-1].pit \notin Builtin
              /\ body[i-1].frame = body[i].frame
         ELSE body[i].frame \in DOMAIN live /\ live[body[i].frame] = body[i].pit
    /\ \A i, j \in 1..Len(body) :
         /\ body[i].pit \notin Builtin /\ body[j].pit \notin Builtin
         /\ body[i].frame = body[j].frame
         => i = j

\* No call below place i of the body is of the same function.
IsFirst(i) == \A j \in 1..(i-1) : body[j].pit # body[i].pit
Key(c) == <<c.pit, c.frame>>

\* The stack is the body, while profiled; a first call has a record that is no
\* younger than the call; and the records of builtins are of such calls only.
RecordInv ==
    /\ LevelInv
    /\ on => Len(stack) = Len(body)
               /\ \A i \in 1..Len(body) : stack[i].pit = body[i].pit
    /\ ~on => stack = <<>>
    /\ \A i \in 1..Len(stack) : stack[i].t0 <= now
    /\ \A k \in DOMAIN coroutines : coroutines[k] <= now
    /\ on => \A i \in 1..Len(body) : IsFirst(i) =>
                /\ Key(body[i]) \in DOMAIN coroutines
                /\ coroutines[Key(body[i])] <= stack[i].t0
    /\ \A k \in DOMAIN coroutines : k[1] \in Builtin =>
         on /\ \E i \in 1..Len(body) : IsFirst(i) /\ Key(body[i]) = k
-----------------------------------------------------------------------------
(* What the handlers do to the records. *)

\* A level of 1 means just that the function on top is nowhere else on the stack.
LEMMA LevelOne ==
    ASSUME LevelInv, stack # <<>>
    PROVE  Level(pitLevel, Top(stack).pit) = 1
             <=> Occ(stack, Top(stack).pit) = {Len(stack)}
<1> DEFINE p == Top(stack).pit  n == Len(stack)
<1>1. stack \in Seq(Entry) /\ n \in 1..n /\ p \in Pit /\ p = stack[n].pit
  BY TopEntry DEF LevelInv, TypeOK, Entry, Top
<1>2. n \in Occ(stack, p)
  BY <1>1 DEF Occ
<1>3. p \in DOMAIN pitLevel
  BY <1>1 DEF LevelInv, PairsRecorded
<1>4. Level(pitLevel, p) = Cardinality(Occ(stack, p))
  BY <1>1, <1>3, ActivationsAreOcc DEF LevelInv, PitLevelsExact, Level
<1>5. IsFiniteSet(Occ(stack, p))
  BY <1>1, OccFinite
<1> HIDE DEF n, p
<1>6. ASSUME Cardinality(Occ(stack, p)) = 1 PROVE Occ(stack, p) = {n}
  BY <1>2, <1>5, <1>6, OnlyOne
<1>7. ASSUME Occ(stack, p) = {n} PROVE Cardinality(Occ(stack, p)) = 1
  BY <1>7, FS_Singleton
<1> QED
  BY <1>4, <1>6, <1>7 DEF n, p

\* A new record says nothing yet.
LEMMA NewlyRecorded ==
    ASSUME NEW table, NEW k, NEW x
    PROVE  Recorded(WithKey(table, k, Zero), x) = Recorded(table, x)
<1>1. CASE k \in DOMAIN table
  BY <1>1 DEF WithKey
<1>2. CASE k \notin DOMAIN table
  <2>1. /\ DOMAIN WithKey(table, k, Zero) = DOMAIN table \cup {k}
        /\ \A y \in DOMAIN table \cup {k} :
             WithKey(table, k, Zero)[y] = IF y = k THEN Zero ELSE table[y]
    BY <1>2 DEF WithKey
  <2> HIDE DEF Zero
  <2> QED
    BY <1>2, <2>1 DEF Recorded
<1> QED
  BY <1>1, <1>2

\* A call event makes a record of the coroutine when no call of its function is in
\* progress.
LEMMA EnterEffect ==
    ASSUME LevelInv, NEW p \in Pit, NEW f \in Frame, CallEnter(p, f)
    PROVE  /\ stack' = Append(stack, [pit |-> p, t0 |-> now])
           /\ now' = now
           /\ coroutines' = IF Occ(stack, p) = {}
                            THEN WithKey(coroutines, <<p, f>>, now) ELSE coroutines
           /\ \A q \in Pit : Recorded(pits', q) = Recorded(pits, q)
<1> DEFINE x == [pit |-> p, t0 |-> now]
<1>1. /\ stack' = Append(stack, x) /\ now' = now
      /\ pits' = WithKey(pits, p, Zero)
      /\ coroutines' = CoroEnter(p, f, Level(pitLevel', p))
  BY DEF CallEnter
<1>2. stack \in Seq(Entry) /\ x \in Entry /\ x.pit = p
  BY DEF LevelInv, TypeOK, Entry
<1>3. LevelInv'
  BY LevelStep DEF Next, Event
<1> HIDE DEF x
<1>5. Occ(stack', p) = Occ(stack, p) \cup {Len(stack) + 1}
      /\ Len(stack) + 1 \notin Occ(stack, p)
  BY <1>1, <1>2, PushOcc
<1>6. Level(pitLevel', p) = Cardinality(Occ(stack', p))
  <2>1. p \in DOMAIN pitLevel'
    BY DEF CallEnter, Incr, WithKey
  <2>2. pitLevel'[p] = Cardinality(Activations(p)')
    BY <1>3, <2>1 DEF LevelInv, PitLevelsExact
  <2> QED
    BY <2>1, <2>2, ActivationsAreOcc DEF Level
<1>7. Level(pitLevel', p) = 1 <=> Occ(stack, p) = {}
  <2>1. IsFiniteSet(Occ(stack, p)) /\ Cardinality(Occ(stack, p)) \in Nat
    BY <1>2, OccFinite
  <2>2. Cardinality(Occ(stack', p)) = Cardinality(Occ(stack, p)) + 1
    BY <1>5, <2>1, OneMorePlace
  <2>3. Cardinality(Occ(stack, p)) = 0 <=> Occ(stack, p) = {}
    BY <2>1, FS_EmptySet
  <2> QED
    BY <1>6, <2>1, <2>2, <2>3
<1>8. \A q : Recorded(pits', q) = Recorded(pits, q)
  BY <1>1, NewlyRecorded
<1> QED
  BY <1>1, <1>7, <1>8, CoroutinesAssumption DEF CoroEnter, x

\* The function on top of the stack is nowhere else on it.
Alone == Occ(stack, Top(stack).pit) = {Len(stack)}

\* A return event charges the time, and takes the record of the coroutine away, when
\* no other call of its function is in progress.
LEMMA LeaveEffect ==
    ASSUME LevelInv, NEW f \in Frame, NEW suspended \in BOOLEAN, stack # <<>>,
           CallLeave(f, suspended)
    PROVE  /\ stack' = Pop(stack)
           /\ now' = now
           /\ coroutines' = IF ~suspended /\ Alone
                                /\ <<Top(stack).pit, f>> \in DOMAIN coroutines
                            THEN Without(coroutines, <<Top(stack).pit, f>>)
                            ELSE coroutines
           /\ \A q \in Pit :
                /\ Recorded(pits', q).ttotal = Recorded(pits, q).ttotal
                     + (IF q = Top(stack).pit /\ Alone THEN Elapsed(f, suspended) ELSE 0)
                /\ Recorded(pits', q).callcount = Recorded(pits, q).callcount
                     + (IF q = Top(stack).pit /\ ~suspended THEN 1 ELSE 0)
<1> DEFINE cp == Top(stack).pit  e == Elapsed(f, suspended)
<1>1. stack \in Seq(Entry) /\ Len(stack) \in Nat \ {0} /\ cp \in Pit
  <2>1. stack \in Seq(Entry)
    BY DEF LevelInv, TypeOK, Entry
  <2>2. cp \in Pit
    BY <2>1, TopEntry
  <2> QED
    BY <2>1, <2>2, PopStack
<1>2. cp \in DOMAIN pits
  <2>1. Len(stack) \in 1..Len(stack) /\ cp = stack[Len(stack)].pit
    BY <1>1 DEF Top
  <2> QED
    BY <2>1 DEF LevelInv, PairsRecorded
<1>3. \A q \in DOMAIN pits : pits[q].ttotal \in Int /\ pits[q].callcount \in Int
  <2>1. pits \in [DOMAIN pits -> Counter]
    BY DEF LevelInv, TypeOK
  <2>2. \A r \in Counter : r.ttotal \in Int /\ r.callcount \in Int
    BY DEF Counter
  <2> QED
    BY <2>1, <2>2
<1>4. Zero.ttotal = 0 /\ Zero.callcount = 0
  BY DEF Zero
<1>5. Level(pitLevel, cp) = 1 <=> Alone
  BY LevelOne DEF Alone
<1>6. CoroutinesOnLeave(f, suspended)
        = IF ~suspended /\ Alone /\ <<cp, f>> \in DOMAIN coroutines
          THEN Without(coroutines, <<cp, f>>) ELSE coroutines
  BY <1>5, CoroutinesAssumption DEF CoroutinesOnLeave, CoroExits
<1>7. CASE LeaveOutermost(f, suspended)
  <2>1. /\ Len(stack) = 1 /\ stack' = <<>> /\ now' = now
        /\ coroutines' = CoroutinesOnLeave(f, suspended)
        /\ pits' = [pits EXCEPT ![cp] =
                         [callcount |-> @.callcount + One(~suspended),
                          nonrec    |-> @.nonrec + One(~suspended),
                          tsub      |-> @.tsub + e,
                          ttotal    |-> @.ttotal + e]]
    BY <1>7 DEF LeaveOutermost
  <2>2. Pop(stack) = <<>>
    BY <1>1, <2>1, PopStack, EmptySeq
  <2>3. Alone
    BY <1>1, <2>1 DEF Alone, Occ, Top
  <2> HIDE DEF cp, e
  <2>4. /\ DOMAIN pits' = DOMAIN pits
        /\ \A q \in DOMAIN pits : q # cp => pits'[q] = pits[q]
        /\ pits'[cp].callcount = pits[cp].callcount + One(~suspended)
        /\ pits'[cp].ttotal = pits[cp].ttotal + e
    BY <1>2, <2>1
  <2>5. ASSUME NEW q \in Pit
        PROVE  /\ Recorded(pits', q).ttotal = Recorded(pits, q).ttotal
                    + (IF q = cp /\ Alone THEN e ELSE 0)
               /\ Recorded(pits', q).callcount = Recorded(pits, q).callcount
                    + (IF q = cp /\ ~suspended THEN 1 ELSE 0)
    BY <1>2, <1>3, <1>4, <2>3, <2>4 DEF Recorded, One
  <2> QED
    BY <1>6, <2>1, <2>2, <2>5 DEF cp, e
<1>8. CASE LeaveToParent(f, suspended)
  <2> DEFINE pp == stack[Len(stack)-1].pit
  <2>1. /\ stack' = Pop(stack) /\ now' = now
        /\ coroutines' = CoroutinesOnLeave(f, suspended)
        /\ pits' = PitsOnLeave(cp, pp, e, ~suspended, Level(pitLevel, cp) = 1)
    BY <1>8 DEF LeaveToParent, StackOnLeave, Top
  <2> HIDE DEF cp, e, pp
  <2>2. /\ DOMAIN pits' = DOMAIN pits
        /\ \A q \in DOMAIN pits :
             /\ pits'[q].callcount = pits[q].callcount + One(q = cp /\ ~suspended)
             /\ pits'[q].ttotal = pits[q].ttotal
                  + (IF q = cp /\ Level(pitLevel, cp) = 1 THEN e ELSE 0)
    BY <2>1 DEF PitsOnLeave
  <2>3. ASSUME NEW q \in Pit
        PROVE  /\ Recorded(pits', q).ttotal = Recorded(pits, q).ttotal
                    + (IF q = cp /\ Alone THEN e ELSE 0)
               /\ Recorded(pits', q).callcount = Recorded(pits, q).callcount
                    + (IF q = cp /\ ~suspended THEN 1 ELSE 0)
    BY <1>2, <1>3, <1>4, <1>5, <2>2 DEF Recorded, One
  <2> QED
    BY <1>6, <2>1, <2>3 DEF cp, e
<1> QED
  BY <1>7, <1>8 DEF CallLeave, LeaveUnseen

-----------------------------------------------------------------------------
(* The body. *)

\* The innermost call and those around it.
LEMMA BodyTop ==
    ASSUME ProgramInv, body # <<>>
    PROVE  /\ Len(body) \in Nat \ {0} /\ Top(body) = body[Len(body)]
           /\ Top(body) \in CoEntry
           /\ Pop(body) \in Seq(CoEntry) /\ Len(Pop(body)) = Len(body) - 1
           /\ \A i \in 1..(Len(body) - 1) : Pop(body)[i] = body[i]
<1>1. body \in Seq(CoEntry) /\ Len(body) \in Nat \ {0}
  BY EmptySeq, LenProperties DEF ProgramInv
<1>2. Top(body) = body[Len(body)] /\ Top(body) \in CoEntry
  BY <1>1, ElementOfSeq DEF Top
<1> DEFINE n == Len(body) - 1
<1>3. n \in Nat /\ \A i \in 1..n : body[i] \in CoEntry
  BY <1>1, ElementOfSeq
<1>4. Pop(body) = SubSeq(body, 1, n)
  BY <1>1 DEF Pop
<1> HIDE DEF n
<1>5. /\ SubSeq(body, 1, n) \in Seq(CoEntry)
      /\ Len(SubSeq(body, 1, n)) = n
      /\ \A i \in 1..n : SubSeq(body, 1, n)[i] = body[i]
  BY <1>3, SubSeqProperties
<1> QED
  BY <1>1, <1>2, <1>4, <1>5 DEF n

\* The calls in progress have a function and a frame.
LEMMA BodyEntries ==
    ASSUME ProgramInv
    PROVE  /\ Len(body) \in Nat
           /\ \A i \in 1..Len(body) : /\ body[i] \in CoEntry
                                      /\ body[i].pit \in Pit /\ body[i].frame \in Frame
<1>1. Len(body) \in Nat /\ \A i \in 1..Len(body) : body[i] \in CoEntry
  BY LenProperties, ElementOfSeq DEF ProgramInv
<1> QED
  BY <1>1 DEF CoEntry

\* A call is its function and its frame, and so is its key.
LEMMA EntriesDiffer ==
    ASSUME NEW c \in CoEntry, NEW d \in CoEntry
    PROVE  /\ Key(c) = Key(d) <=> c = d
           /\ c.pit = d.pit /\ c.frame = d.frame <=> c = d
  BY DEF CoEntry, Key

\* The body holds a call once.
LEMMA BodyHoldsOnce ==
    ASSUME ProgramInv, NEW i \in 1..Len(body), NEW j \in 1..Len(body), body[i] = body[j]
    PROVE  i = j
<1>1. Len(body) \in Nat
  BY BodyEntries
<1>2. CASE body[i].pit \notin Builtin
  BY <1>2 DEF ProgramInv
<1>3. CASE body[i].pit \in Builtin
  <2>1. /\ i > 1 /\ j > 1 /\ body[i-1].pit \notin Builtin /\ body[j-1].pit \notin Builtin
        /\ body[i-1].frame = body[j-1].frame
    BY <1>3 DEF ProgramInv
  <2>2. i - 1 \in 1..Len(body) /\ j - 1 \in 1..Len(body)
    BY <1>1, <2>1
  <2>3. i - 1 = j - 1
    BY <2>1, <2>2 DEF ProgramInv
  <2> QED
    BY <1>1, <2>3
<1> QED
  BY <1>2, <1>3

\* A call that may be made: of a coroutine that does not run, or of a builtin by
\* the coroutine that runs.
MayCall(c, lives) ==
    IF c.pit \in Builtin
    THEN /\ body # <<>>
         /\ ~InBuiltin
         /\ c.frame = Top(body).frame
    ELSE /\ c.frame \in DOMAIN lives /\ lives[c.frame] = c.pit
         /\ \A i \in 1..Len(body) : body[i].pit \notin Builtin => body[i].frame # c.frame

\* Such a call keeps the program as it should be.
LEMMA BodyPush ==
    ASSUME ProgramInv, NEW c \in CoEntry, body' = Append(body, c), on' = on,
           MayCall(c, live'),
           DOMAIN live \subseteq DOMAIN live', DOMAIN live' \subseteq Frame,
           \A f \in DOMAIN live : live'[f] = live[f],
           \A f \in DOMAIN live' : live'[f] \in Pit \ Builtin
    PROVE  ProgramInv'
<1> DEFINE n == Len(body)
<1>1. n \in Nat /\ body \in Seq(CoEntry) /\ \A i \in 1..n : body[i] \in CoEntry
  BY BodyEntries DEF ProgramInv
<1>2. /\ body' \in Seq(CoEntry) /\ Len(body') = n + 1
      /\ \A i \in 1..n : body'[i] = body[i]
      /\ body'[n+1] = c
  BY <1>1, AppendProperties
<1>3. \A i \in 1..(n+1) : i \in 1..n \/ i = n + 1
  BY <1>1
<1>4. /\ body # <<>> => n >= 1 /\ Top(body) = body[n]
      /\ InBuiltin <=> body # <<>> /\ Top(body).pit \in Builtin
  BY <1>1, EmptySeq DEF Top, InBuiltin
<1>5. ASSUME NEW i \in 1..(n+1)
      PROVE  IF body'[i].pit \in Builtin
             THEN /\ i > 1
                  /\ body'[i-1].pit \notin Builtin
                  /\ body'[i-1].frame = body'[i].frame
             ELSE body'[i].frame \in DOMAIN live' /\ live'[body'[i].frame] = body'[i].pit
  <2>1. CASE i \in 1..n
    <3>1. body'[i] = body[i] /\ (i > 1 => body'[i-1] = body[i-1])
      BY <1>1, <1>2, <2>1
    <3> QED
      BY <2>1, <3>1 DEF ProgramInv
  <2>2. CASE i = n + 1 /\ c.pit \in Builtin
    <3>1. n >= 1 /\ body[n].pit \notin Builtin /\ c.frame = body[n].frame
      BY <1>4, <2>2 DEF MayCall
    <3>2. i > 1 /\ body'[i-1] = body[n] /\ body'[i] = c
      BY <1>1, <1>2, <2>2, <3>1
    <3> QED
      BY <2>2, <3>1, <3>2
  <2>3. CASE i = n + 1 /\ c.pit \notin Builtin
    BY <1>2, <2>3 DEF MayCall
  <2> QED
    BY <1>3, <2>1, <2>2, <2>3
<1>6. ASSUME NEW i \in 1..(n+1), NEW j \in 1..(n+1),
             body'[i].pit \notin Builtin, body'[j].pit \notin Builtin,
             body'[i].frame = body'[j].frame
      PROVE  i = j
  <2>1. CASE i \in 1..n /\ j \in 1..n
    BY <1>2, <1>6, <2>1 DEF ProgramInv
  <2>2. CASE i = n + 1 /\ j \in 1..n
    BY <1>2, <1>6, <2>2 DEF MayCall
  <2>3. CASE i \in 1..n /\ j = n + 1
    BY <1>2, <1>6, <2>3 DEF MayCall
  <2> QED
    BY <1>3, <2>1, <2>2, <2>3
<1>7. on' \in BOOLEAN
  BY DEF ProgramInv
<1> HIDE DEF n
<1> QED
  BY <1>2, <1>5, <1>6, <1>7 DEF ProgramInv

\* A coroutine, or the last call of one, is over.
LEMMA BodyPop ==
    ASSUME ProgramInv, body # <<>>, body' = Pop(body), on' = on,
           live' = live \/ (~InBuiltin /\ live' = Without(live, Top(body).frame))
    PROVE  ProgramInv'
<1> DEFINE n == Len(body)
<1>1. /\ n \in Nat \ {0} /\ Top(body) = body[n]
      /\ body' \in Seq(CoEntry) /\ Len(body') = n - 1
      /\ \A i \in 1..(n-1) : body'[i] = body[i]
  BY BodyTop
<1>2. /\ DOMAIN live' \subseteq DOMAIN live
      /\ \A f \in DOMAIN live' : live'[f] = live[f]
      /\ \A f \in DOMAIN live \ DOMAIN live' :
           f = Top(body).frame /\ Top(body).pit \notin Builtin
  BY DEF Without, InBuiltin
<1>3. ASSUME NEW i \in 1..(n-1)
      PROVE  IF body'[i].pit \in Builtin
             THEN /\ i > 1
                  /\ body'[i-1].pit \notin Builtin
                  /\ body'[i-1].frame = body'[i].frame
             ELSE body'[i].frame \in DOMAIN live' /\ live'[body'[i].frame] = body'[i].pit
  <2>1. i \in 1..n /\ n \in 1..n /\ i # n /\ body'[i] = body[i]
        /\ (i > 1 => body'[i-1] = body[i-1])
    BY <1>1
  <2>2. body[i].pit \notin Builtin /\ body[n].pit \notin Builtin
          => body[i].frame # body[n].frame
    BY <2>1 DEF ProgramInv
  <2> QED
    BY <1>1, <1>2, <2>1, <2>2 DEF ProgramInv
<1>4. ASSUME NEW i \in 1..(n-1), NEW j \in 1..(n-1),
             body'[i].pit \notin Builtin, body'[j].pit \notin Builtin,
             body'[i].frame = body'[j].frame
      PROVE  i = j
  <2>1. i \in 1..n /\ j \in 1..n
    BY <1>1
  <2> QED
    BY <1>1, <1>4, <2>1 DEF ProgramInv
<1>5. on' \in BOOLEAN /\ DOMAIN live' \subseteq Frame
      /\ \A f \in DOMAIN live' : live'[f] \in Pit \ Builtin
  BY <1>2 DEF ProgramInv
<1> HIDE DEF n
<1> QED
  BY <1>1, <1>3, <1>4, <1>5 DEF ProgramInv

\* start(), stop() and the clock change no call.
LEMMA BodyRests ==
    ASSUME ProgramInv, body' = body, live' = live, on' \in BOOLEAN
    PROVE  ProgramInv'
  BY DEF ProgramInv

-----------------------------------------------------------------------------
(* The records. *)

CoInv == ProgramInv /\ RecordInv

\* While profiled, the stack has the functions of the body.
LEMMA StackIsBody ==
    ASSUME CoInv, on
    PROVE  /\ stack \in Seq(Entry) /\ Len(stack) = Len(body) /\ Len(body) \in Nat
           /\ stack = <<>> <=> body = <<>>
           /\ \A i \in 1..Len(body) : stack[i].pit = body[i].pit
           /\ \A p : Occ(stack, p) = {} <=> \A i \in 1..Len(body) : body[i].pit # p
           /\ body # <<>> =>
                /\ Top(stack).pit = Top(body).pit
                /\ Alone <=> IsFirst(Len(body))
<1>1. /\ stack \in Seq(Entry) /\ Len(stack) = Len(body) /\ Len(body) \in Nat
      /\ \A i \in 1..Len(body) : stack[i].pit = body[i].pit
  BY BodyEntries DEF CoInv, RecordInv, LevelInv, TypeOK, Entry
<1>2. stack = <<>> <=> body = <<>>
  BY <1>1, EmptySeq DEF CoInv, ProgramInv
<1>3. \A p : Occ(stack, p) = {} <=> \A i \in 1..Len(body) : body[i].pit # p
  BY <1>1 DEF Occ
<1>4. ASSUME body # <<>>
      PROVE  Top(stack).pit = Top(body).pit /\ (Alone <=> IsFirst(Len(body)))
  <2> DEFINE n == Len(body)
  <2>1. n \in Nat \ {0}
    BY <1>4, BodyTop DEF CoInv
  <2>2. n \in 1..n /\ Top(stack) = stack[n] /\ Top(body) = body[n] /\ Len(stack) = n
    BY <1>1, <2>1 DEF Top
  <2> HIDE DEF n
  <2>3. Top(stack).pit = Top(body).pit /\ Top(body).pit = body[n].pit
    BY <1>1, <2>2 DEF n
  <2>4. Occ(stack, Top(stack).pit) = {i \in 1..n : body[i].pit = body[n].pit}
    BY <1>1, <2>2, <2>3 DEF Occ, n
  <2>5. Alone <=> {i \in 1..n : body[i].pit = body[n].pit} = {n}
    BY <2>2, <2>4 DEF Alone
  <2>6. IsFirst(n) <=> \A j \in 1..(n-1) : body[j].pit # body[n].pit
    BY DEF IsFirst
  <2>7. \A j : j \in 1..n <=> j \in 1..(n-1) \/ j = n
    BY <2>1
  <2>8. n \notin 1..(n-1)
    BY <2>1
  <2>9. ({i \in 1..n : body[i].pit = body[n].pit} = {n})
          <=> \A j \in 1..(n-1) : body[j].pit # body[n].pit
    BY <2>7, <2>8
  <2> QED
    BY <2>3, <2>5, <2>6, <2>9 DEF n
<1> QED
  BY <1>1, <1>2, <1>3, <1>4

\* A call of c, while profiled.
CallOf(c) == on /\ CallEnter(c.pit, c.frame) /\ body' = Append(body, c) /\ on' = on

\* It makes a record if it is the first call of its function, and keeps the others.
LEMMA CallRecords ==
    ASSUME CoInv, NEW c \in CoEntry, CallOf(c)
    PROVE  /\ RecordInv'
           /\ now' = now
           /\ coroutines' = IF \E i \in 1..Len(body) : body[i].pit = c.pit
                            THEN coroutines
                            ELSE WithKey(coroutines, Key(c), now)
           /\ \A q \in Pit : Recorded(pits', q) = Recorded(pits, q)
<1>0. PICK n \in Nat : n = Len(body)
  BY BodyEntries DEF CoInv
<1> DEFINE p == c.pit  f == c.frame  x == [pit |-> p, t0 |-> now]
           first == Occ(stack, p) = {}
<1>1. p \in Pit /\ f \in Frame /\ Key(c) = <<p, f>> /\ CallEnter(p, f) /\ LevelInv
  BY DEF CallOf, CoEntry, Key, CoInv, RecordInv
<1> HIDE DEF p, f
<1>2. /\ stack' = Append(stack, x) /\ now' = now
      /\ coroutines' = IF first THEN WithKey(coroutines, <<p, f>>, now) ELSE coroutines
      /\ \A q \in Pit : Recorded(pits', q) = Recorded(pits, q)
  BY <1>1, EnterEffect
<1>3. LevelInv'
  BY <1>1, LevelStep DEF Next, Event
<1>4. /\ stack \in Seq(Entry) /\ Len(stack) = n /\ n \in Nat
      /\ \A i \in 1..n : stack[i].pit = body[i].pit
      /\ first <=> \A i \in 1..n : body[i].pit # p
  BY <1>0, StackIsBody DEF CallOf
<1>5. x \in Entry /\ x.pit = p /\ x.t0 = now /\ now \in Nat
  BY <1>1 DEF Entry, LevelInv, TypeOK
<1> HIDE DEF x
<1>6. /\ Len(stack') = n + 1 /\ stack'[n+1] = x
      /\ \A i \in 1..n : stack'[i] = stack[i]
  BY <1>2, <1>4, <1>5, AppendProperties
<1>7. /\ Len(body') = n + 1 /\ body'[n+1] = c
      /\ \A i \in 1..n : body'[i] = body[i]
  BY <1>0, AppendProperties DEF CoInv, ProgramInv, CallOf
<1> HIDE DEF first
<1>8. on /\ on'
  BY DEF CallOf
<1>9. \A i \in 1..(n+1) : i \in 1..n \/ i = n + 1
  BY <1>4
<1>10. \A i \in 1..n : IsFirst(i)' <=> IsFirst(i)
  <2>1. \A i \in 1..n : \A j \in 1..(i-1) : j \in 1..n
    BY <1>4
  <2> QED
    BY <1>7, <2>1 DEF IsFirst
<1>11. IsFirst(n+1)' <=> first
  <2>1. (n + 1) - 1 = n
    BY <1>4
  <2> QED
    BY <1>4, <1>7, <2>1 DEF IsFirst, p
<1>12. /\ DOMAIN coroutines \subseteq DOMAIN coroutines'
       /\ \A k \in DOMAIN coroutines : coroutines'[k] = coroutines[k]
       /\ \A k \in DOMAIN coroutines' \ DOMAIN coroutines :
            k = Key(c) /\ first /\ coroutines'[k] = now
       /\ first => Key(c) \in DOMAIN coroutines'
  BY <1>1, <1>2 DEF WithKey
<1>13. /\ \A i \in 1..n : stack[i].t0 <= now
       /\ \A k \in DOMAIN coroutines : coroutines[k] <= now
       /\ \A i \in 1..n : IsFirst(i) =>
            Key(body[i]) \in DOMAIN coroutines /\ coroutines[Key(body[i])] <= stack[i].t0
       /\ \A k \in DOMAIN coroutines : k[1] \in Builtin =>
            \E i \in 1..n : IsFirst(i) /\ Key(body[i]) = k
  BY <1>0, <1>4, <1>8 DEF CoInv, RecordInv
<1>14. \A k \in DOMAIN coroutines' : coroutines'[k] <= now'
  <2> SUFFICES ASSUME NEW k \in DOMAIN coroutines' PROVE coroutines'[k] <= now
    BY <1>2
  <2>1. CASE k \in DOMAIN coroutines
    BY <1>12, <1>13, <2>1
  <2>2. CASE k \notin DOMAIN coroutines
    BY <1>5, <1>12, <2>2
  <2> QED
    BY <2>1, <2>2
<1>15. \A i \in 1..(n+1) : stack'[i].t0 <= now' /\ stack'[i].pit = body'[i].pit
  <2>1. \A i \in 1..n : stack'[i].t0 <= now' /\ stack'[i].pit = body'[i].pit
    BY <1>2, <1>4, <1>6, <1>7, <1>13
  <2>2. stack'[n+1].t0 <= now' /\ stack'[n+1].pit = body'[n+1].pit
    BY <1>2, <1>5, <1>6, <1>7 DEF p
  <2> QED
    BY <1>9, <2>1, <2>2
<1>16. ASSUME NEW i \in 1..(n+1), IsFirst(i)'
       PROVE  /\ Key(body'[i]) \in DOMAIN coroutines'
              /\ coroutines'[Key(body'[i])] <= stack'[i].t0
  <2>1. CASE i \in 1..n
    BY <1>6, <1>7, <1>10, <1>12, <1>13, <1>16, <2>1
  <2>2. CASE i = n + 1
    <3>1. first /\ body'[i] = c /\ stack'[i].t0 = now
      BY <1>5, <1>6, <1>7, <1>11, <1>16, <2>2
    <3> QED
      BY <1>2, <1>12, <1>14, <3>1
  <2> QED
    BY <1>9, <2>1, <2>2
<1>17. ASSUME NEW k \in DOMAIN coroutines', k[1] \in Builtin
       PROVE  \E i \in 1..(n+1) : IsFirst(i)' /\ Key(body'[i]) = k
  <2>1. CASE k \in DOMAIN coroutines
    <3>1. PICK i \in 1..n : IsFirst(i) /\ Key(body[i]) = k
      BY <1>13, <1>17, <2>1
    <3>2. i \in 1..(n+1) /\ IsFirst(i)' /\ Key(body'[i]) = k
      BY <1>4, <1>7, <1>10, <3>1
    <3> QED
      BY <3>2
  <2>2. CASE k \notin DOMAIN coroutines
    <3>1. n + 1 \in 1..(n+1) /\ IsFirst(n+1)' /\ Key(body'[n+1]) = k
      BY <1>4, <1>7, <1>11, <1>12, <2>2
    <3> QED
      BY <3>1
  <2> QED
    BY <2>1, <2>2
<1>18. RecordInv'
  BY <1>3, <1>6, <1>7, <1>8, <1>14, <1>15, <1>16, <1>17 DEF RecordInv
<1> QED
  BY <1>0, <1>1, <1>2, <1>4, <1>18 DEF p

\* The return of the innermost call, while profiled.
ReturnOf(suspended) ==
    /\ on /\ on' = on
    /\ body # <<>> /\ body' = Pop(body)
    /\ suspended => ~InBuiltin
    /\ CallLeave(Top(body).frame, suspended)

\* The record that goes is the one of the innermost call, which is there; and what
\* is charged then is its age.
LEMMA ReturnRecords ==
    ASSUME CoInv, NEW suspended \in BOOLEAN, ReturnOf(suspended)
    PROVE  /\ RecordInv'
           /\ now' = now
           /\ IsFirst(Len(body)) => Key(Top(body)) \in DOMAIN coroutines
           /\ coroutines' = IF ~suspended /\ IsFirst(Len(body))
                            THEN Without(coroutines, Key(Top(body))) ELSE coroutines
           /\ \A q \in Pit :
                /\ Recorded(pits', q).ttotal = Recorded(pits, q).ttotal
                     + (IF q = Top(body).pit /\ ~suspended /\ IsFirst(Len(body))
                        THEN now - coroutines[Key(Top(body))] ELSE 0)
                /\ Recorded(pits', q).callcount = Recorded(pits, q).callcount
                     + (IF q = Top(body).pit /\ ~suspended THEN 1 ELSE 0)
<1>0. PICK n \in Nat \ {0} : n = Len(body)
  BY BodyTop DEF CoInv, ReturnOf
<1>1. PICK c \in CoEntry : c = Top(body) /\ c = body[n]
  BY <1>0, BodyTop DEF CoInv, ReturnOf
<1>2. PICK f \in Frame, p \in Pit : f = c.frame /\ p = c.pit /\ Key(c) = <<p, f>>
  BY <1>1 DEF CoEntry, Key
<1>3. /\ stack \in Seq(Entry) /\ Len(stack) = n /\ stack # <<>>
      /\ \A i \in 1..n : stack[i].pit = body[i].pit
      /\ Top(stack).pit = p
      /\ Alone <=> IsFirst(n)
  BY <1>0, <1>1, <1>2, StackIsBody DEF ReturnOf
<1>4. CallLeave(f, suspended) /\ LevelInv /\ on /\ on'
  BY <1>1, <1>2 DEF ReturnOf, CoInv, RecordInv
<1>5. /\ stack' = Pop(stack) /\ now' = now
      /\ coroutines' = IF ~suspended /\ Alone /\ <<p, f>> \in DOMAIN coroutines
                       THEN Without(coroutines, <<p, f>>) ELSE coroutines
      /\ \A q \in Pit :
           /\ Recorded(pits', q).ttotal = Recorded(pits, q).ttotal
                + (IF q = p /\ Alone THEN Elapsed(f, suspended) ELSE 0)
           /\ Recorded(pits', q).callcount = Recorded(pits, q).callcount
                + (IF q = p /\ ~suspended THEN 1 ELSE 0)
  BY <1>3, <1>4, LeaveEffect
<1>6. LevelInv'
  BY <1>4, LevelStep DEF Next, Event
<1>7. n \in 1..n /\ \A i \in 1..(n-1) : i \in 1..n /\ i # n
  BY <1>0
<1>8. /\ Len(stack') = n - 1 /\ Len(body') = n - 1
      /\ \A i \in 1..(n-1) : stack'[i] = stack[i] /\ body'[i] = body[i]
  BY <1>0, <1>3, <1>5, PopStack, BodyTop DEF CoInv, ReturnOf
<1>9. /\ \A i \in 1..n : stack[i].t0 <= now
      /\ \A k \in DOMAIN coroutines : coroutines[k] <= now
      /\ \A i \in 1..n : IsFirst(i) =>
           Key(body[i]) \in DOMAIN coroutines /\ coroutines[Key(body[i])] <= stack[i].t0
      /\ \A k \in DOMAIN coroutines : k[1] \in Builtin =>
           \E i \in 1..n : IsFirst(i) /\ Key(body[i]) = k
  BY <1>0, <1>3, <1>4 DEF CoInv, RecordInv
<1>10. \A i \in 1..(n-1) : IsFirst(i)' <=> IsFirst(i)
  <2>1. \A i \in 1..(n-1) : \A j \in 1..(i-1) : j \in 1..(n-1)
    BY <1>0
  <2> QED
    BY <1>8, <2>1 DEF IsFirst
<1>11. IsFirst(n) => <<p, f>> \in DOMAIN coroutines
                     /\ coroutines[<<p, f>>] <= stack[n].t0
  BY <1>1, <1>2, <1>7, <1>9
<1>12. coroutines' = IF ~suspended /\ IsFirst(n)
                     THEN Without(coroutines, <<p, f>>) ELSE coroutines
  BY <1>3, <1>5, <1>11
<1>13. ASSUME NEW i \in 1..(n-1) PROVE Key(body[i]) # <<p, f>>
  <2>1. body[i] \in CoEntry /\ i \in 1..n /\ i # n
    BY <1>0, <1>7, BodyEntries DEF CoInv
  <2>2. body[i] # body[n]
    BY <1>0, <1>7, <2>1, BodyHoldsOnce DEF CoInv
  <2> QED
    BY <1>1, <1>2, <2>1, <2>2, EntriesDiffer
<1>14. /\ DOMAIN coroutines' \subseteq DOMAIN coroutines
       /\ \A k \in DOMAIN coroutines' : coroutines'[k] = coroutines[k]
       /\ \A k \in DOMAIN coroutines : k # <<p, f>> => k \in DOMAIN coroutines'
  BY <1>12 DEF Without
<1>15. ASSUME NEW i \in 1..(n-1), IsFirst(i)'
       PROVE  /\ Key(body'[i]) \in DOMAIN coroutines'
              /\ coroutines'[Key(body'[i])] <= stack'[i].t0
  <2>1. /\ IsFirst(i) /\ i \in 1..n
        /\ body'[i] = body[i] /\ stack'[i] = stack[i]
    BY <1>7, <1>8, <1>10, <1>15
  <2> QED
    BY <1>9, <1>13, <1>14, <2>1
<1>16. ASSUME NEW k \in DOMAIN coroutines', k[1] \in Builtin
       PROVE  \E i \in 1..(n-1) : IsFirst(i)' /\ Key(body'[i]) = k
  <2>1. PICK i \in 1..n : IsFirst(i) /\ Key(body[i]) = k
    BY <1>9, <1>14, <1>16
  <2>2. CASE i = n
    <3>1. k = <<p, f>> /\ p \in Builtin
      BY <1>1, <1>2, <1>16, <2>1, <2>2
    <3>2. InBuiltin
      BY <1>1, <1>2, <3>1 DEF InBuiltin, ReturnOf
    <3>3. ~suspended
      BY <3>2 DEF ReturnOf
    <3>4. k \notin DOMAIN coroutines'
      BY <1>12, <2>1, <2>2, <3>1, <3>3 DEF Without
    <3> QED
      BY <1>16, <3>4
  <2>3. CASE i # n
    <3>1. i \in 1..(n-1)
      BY <1>0, <2>3
    <3> QED
      BY <1>8, <1>10, <2>1, <3>1
  <2> QED
    BY <2>2, <2>3
<1>17. /\ \A i \in 1..(n-1) : stack'[i].t0 <= now' /\ stack'[i].pit = body'[i].pit
       /\ \A k \in DOMAIN coroutines' : coroutines'[k] <= now'
  BY <1>3, <1>5, <1>7, <1>8, <1>9, <1>14
<1>18. RecordInv'
  BY <1>4, <1>6, <1>8, <1>15, <1>16, <1>17 DEF RecordInv
<1>19. Elapsed(f, suspended) =
         IF suspended THEN 0
         ELSE IF <<p, f>> \in DOMAIN coroutines /\ Alone
                 /\ now - coroutines[<<p, f>>] > 0
              THEN now - coroutines[<<p, f>>]
         ELSE now - Top(stack).t0
  <2>1. CoroExits(p, f) <=> Alone /\ <<p, f>> \in DOMAIN coroutines
    BY <1>3, <1>4, LevelOne, CoroutinesAssumption DEF CoroExits, Alone
  <2> QED
    BY <1>3, <2>1, CoroutinesAssumption DEF Elapsed
<1>20. ASSUME IsFirst(n)
       PROVE  Elapsed(f, suspended) = IF suspended THEN 0 ELSE now - coroutines[<<p, f>>]
  <2>1. <<p, f>> \in DOMAIN coroutines /\ Alone
    BY <1>3, <1>11, <1>20
  <2>2. /\ coroutines[<<p, f>>] \in Nat /\ now \in Nat /\ Top(stack).t0 \in Nat
    BY <1>3, <1>4, <2>1, TopEntry DEF LevelInv, TypeOK
  <2>3. Top(stack) = stack[n]
    BY <1>3 DEF Top
  <2>4. coroutines[<<p, f>>] <= Top(stack).t0 /\ Top(stack).t0 <= now
    BY <1>7, <1>9, <1>11, <1>20, <2>3
  <2>5. now - coroutines[<<p, f>>] > 0 \/ now - Top(stack).t0 = now - coroutines[<<p, f>>]
    BY <2>2, <2>4
  <2> QED
    BY <1>19, <2>1, <2>5
<1>21. ASSUME NEW q \in Pit
       PROVE  /\ Recorded(pits', q).ttotal = Recorded(pits, q).ttotal
                   + (IF q = p /\ ~suspended /\ IsFirst(n)
                      THEN now - coroutines[<<p, f>>] ELSE 0)
              /\ Recorded(pits', q).callcount = Recorded(pits, q).callcount
                   + (IF q = p /\ ~suspended THEN 1 ELSE 0)
  BY <1>3, <1>5, <1>20
<1> QED
  BY <1>0, <1>1, <1>2, <1>5, <1>11, <1>12, <1>18, <1>21

\* Nothing is recorded while the profile function is not set, nor by setting it
\* between two calls.
LEMMA RecordsKept ==
    ASSUME CoInv, UNCHANGED vars, on' \in BOOLEAN,
           \/ ~on /\ ~on'
           \/ body = <<>> /\ body' = <<>>
           \/ UNCHANGED <<body, on>>
    PROVE  RecordInv'
<1>1. LevelInv'
  BY LevelStep DEF CoInv, RecordInv
<1>2. stack' = stack /\ coroutines' = coroutines /\ now' = now
  BY DEF vars
<1>3. CASE ~on /\ ~on'
  <2>1. stack' = <<>> /\ Len(stack') = 0 /\ \A k \in DOMAIN coroutines' : k[1] \notin Builtin
    BY <1>2, <1>3, EmptySeq DEF CoInv, RecordInv
  <2>2. \A k \in DOMAIN coroutines' : coroutines'[k] <= now'
    BY <1>2 DEF CoInv, RecordInv
  <2> QED
    BY <1>1, <1>3, <2>1, <2>2 DEF RecordInv
<1>4. CASE body = <<>> /\ body' = <<>>
  <2>1. Len(body) = 0 /\ Len(body') = 0
    BY <1>4, EmptySeq
  <2>2. stack' = <<>> /\ Len(stack') = 0
    <3>1. CASE on
      BY <1>2, <1>4, <3>1, EmptySeq, StackIsBody
    <3>2. CASE ~on
      BY <1>2, <3>2, EmptySeq DEF CoInv, RecordInv
    <3> QED
      BY <3>1, <3>2
  <2>3. \A k \in DOMAIN coroutines' : k[1] \notin Builtin
    BY <1>2, <2>1 DEF CoInv, RecordInv
  <2>4. \A k \in DOMAIN coroutines' : coroutines'[k] <= now'
    BY <1>2 DEF CoInv, RecordInv
  <2> QED
    BY <1>1, <2>1, <2>2, <2>3, <2>4 DEF RecordInv
<1>5. CASE UNCHANGED <<body, on>>
  <2>1. \A i : IsFirst(i)' <=> IsFirst(i)
    BY <1>5 DEF IsFirst
  <2> QED
    BY <1>1, <1>2, <1>5, <2>1 DEF CoInv, RecordInv
<1> QED
  BY <1>3, <1>4, <1>5

\* The clock makes every record older and changes none.
LEMMA RecordsAge ==
    ASSUME CoInv, Passes
    PROVE  /\ RecordInv'
           /\ now \in Nat /\ now' = now + 1
           /\ \A k \in DOMAIN coroutines : coroutines[k] \in Nat
           /\ UNCHANGED <<pits, coroutines, live, body, on>>
<1>1. LevelInv'
  BY LevelStep DEF CoInv, RecordInv, Passes, Next
<1>2. UNCHANGED <<stack, pits, coroutines, live, body, on>> /\ now' = now + 1
  BY DEF Passes, Tick
<1>3. /\ now \in Nat /\ stack \in Seq(Entry)
      /\ \A k \in DOMAIN coroutines : coroutines[k] \in Nat
  BY DEF CoInv, RecordInv, LevelInv, TypeOK, Entry
<1>4. Len(stack) \in Nat /\ \A i \in 1..Len(stack) : stack[i].t0 \in Nat
  <2>1. \A i \in 1..Len(stack) : stack[i] \in Entry
    BY <1>3, ElementOfSeq
  <2> QED
    BY <1>3, <2>1, LenProperties DEF Entry
<1>5. /\ \A i \in 1..Len(stack) : stack[i].t0 <= now + 1
      /\ \A k \in DOMAIN coroutines : coroutines[k] <= now + 1
  BY <1>3, <1>4 DEF CoInv, RecordInv
<1>6. \A i : IsFirst(i)' <=> IsFirst(i)
  BY <1>2 DEF IsFirst
<1>7. RecordInv'
  BY <1>1, <1>2, <1>5, <1>6 DEF CoInv, RecordInv
<1> QED
  BY <1>2, <1>3, <1>7

\* clear_stats() between two calls leaves no record.
LEMMA RecordsCleared ==
    ASSUME CoInv, Clear
    PROVE  RecordInv'
<1>1. /\ stack' = <<>> /\ body' = <<>> /\ Len(stack') = 0 /\ Len(body') = 0
      /\ DOMAIN coroutines' = {}
  BY EmptySeq DEF Clear
<1>2. LevelInv'
  <2>1. TypeOK'
    <3>1. stack' \in Seq(Entry)
      BY <1>1, EmptySeq
    <3>2. now' \in Nat /\ lastSeen' \in Nat /\ calls' \in Nat
      BY DEF Clear, CoInv, RecordInv, LevelInv, TypeOK
    <3> QED
      BY <3>1, <3>2 DEF Clear, TypeOK, Entry
  <2>2. \A p : Activations(p)' = {} /\ PairActivations(p)' = {}
    BY <1>1 DEF Activations, PairActivations
  <2>3. /\ DOMAIN pitLevel' = {} /\ DOMAIN childLevel' = {}
    BY DEF Clear
  <2>4. PitLevelsExact' /\ PairLevelsCover'
    BY <2>2, <2>3 DEF PitLevelsExact, PairLevelsCover
  <2>5. PairsRecorded'
    BY <1>1 DEF PairsRecorded
  <2> QED
    BY <2>1, <2>4, <2>5 DEF LevelInv
<1> QED
  BY <1>1, <1>2 DEF RecordInv

-----------------------------------------------------------------------------
(* What CoroutineTimes sees of a state. *)

Shown == IF on THEN body ELSE <<>>
Age == [c \in Remembered |-> now - coroutines[Key(c)]]
Totals == [p \in Pit |-> Recorded(pits, p).ttotal]
Counts == [p \in Pit |-> Recorded(pits, p).callcount]
Seen == <<Shown, Age, Totals, Counts>>

\* These are the values that CoroutineTimes has for its variables.
LEMMA SeenIsMapped ==
    /\ Times!vars = Seen
    /\ Times!vars' = Seen'
  BY DEF Times!vars, Seen, Shown, Age, Totals, Counts, Key

\* The coroutines that have an age.
LEMMA RememberedIs ==
    /\ Remembered = {d \in CoEntry : Key(d) \in DOMAIN coroutines /\ IsLive(d)}
    /\ Remembered' = {d \in CoEntry : Key(d) \in DOMAIN coroutines' /\ IsLive(d)'}
  BY DEF Remembered, CoEntry, Key

\* A call of c begins a coroutine or goes on with one.
Begins(c) ==
    \/ live' = live
    \/ c.pit \notin Builtin /\ c.frame \notin DOMAIN live
         /\ live' = WithKey(live, c.frame, c.pit)

\* A call makes its coroutine live, and no other.
LEMMA LiveAfterCall ==
    ASSUME CoInv, NEW c \in CoEntry, Begins(c), body' = Append(body, c)
    PROVE  \A d \in CoEntry : IsLive(d)' <=> IsLive(d) \/ d = c
<1>0. PICK n \in Nat : n = Len(body)
  BY BodyEntries DEF CoInv
<1>1. /\ Len(body') = n + 1 /\ body'[n+1] = c
      /\ \A i \in 1..n : body'[i] = body[i]
  BY <1>0, AppendProperties DEF CoInv, ProgramInv
<1> SUFFICES ASSUME NEW d \in CoEntry PROVE IsLive(d)' <=> IsLive(d) \/ d = c
  OBVIOUS
<1> DEFINE lives == d.frame \in DOMAIN live /\ live[d.frame] = d.pit
           runs == \E i \in 1..n : body[i] = d
<1>2. IsLive(d) <=> lives \/ runs
  BY <1>0 DEF IsLive
<1>3. IsLive(d)' <=> (d.frame \in DOMAIN live' /\ live'[d.frame] = d.pit)
                      \/ \E i \in 1..(n+1) : body'[i] = d
  BY <1>1 DEF IsLive
<1>4. (\E i \in 1..(n+1) : body'[i] = d) <=> runs \/ d = c
  <2>1. \A i : i \in 1..(n+1) <=> i \in 1..n \/ i = n + 1
    BY <1>0
  <2> QED
    BY <1>1, <2>1
<1>5. d.frame \in DOMAIN live' /\ live'[d.frame] = d.pit => lives \/ d = c
  BY EntriesDiffer DEF Begins, WithKey
<1>6. lives => d.frame \in DOMAIN live' /\ live'[d.frame] = d.pit
  BY DEF Begins, WithKey
<1> HIDE DEF lives, runs
<1> QED
  BY <1>2, <1>3, <1>4, <1>5, <1>6

\* A suspended coroutine stays live; one that has finished does not.
LEMMA LiveAfterReturn ==
    ASSUME CoInv, body # <<>>, body' = Pop(body)
    PROVE  /\ live' = live /\ ~InBuiltin
                => \A d \in CoEntry : IsLive(d)' <=> IsLive(d)
           /\ live' = (IF InBuiltin THEN live ELSE Without(live, Top(body).frame))
                => \A d \in CoEntry : IsLive(d)' <=> IsLive(d) /\ d # Top(body)
<1>0. PICK n \in Nat \ {0} : n = Len(body)
  BY BodyTop DEF CoInv
<1>1. PICK c \in CoEntry : c = Top(body) /\ c = body[n]
  BY <1>0, BodyTop DEF CoInv
<1>2. /\ Len(body') = n - 1
      /\ \A i \in 1..(n-1) : body'[i] = body[i]
  BY <1>0, BodyTop DEF CoInv
<1>3. InBuiltin <=> c.pit \in Builtin
  BY <1>1 DEF InBuiltin
<1>4. n \in 1..n /\ \A i : i \in 1..n <=> i \in 1..(n-1) \/ i = n
  BY <1>0
<1>5. n \notin 1..(n-1)
  BY <1>0
<1>6. \A i \in 1..(n-1) : body[i] # c
  <2> SUFFICES ASSUME NEW i \in 1..(n-1), body[i] = c PROVE FALSE
    OBVIOUS
  <2>1. i \in 1..Len(body) /\ n \in 1..Len(body) /\ body[i] = body[n]
    BY <1>0, <1>1, <1>4
  <2>2. i = n
    BY <2>1, BodyHoldsOnce DEF CoInv
  <2> QED
    BY <1>5, <2>2
<1>7. \A d : (\E i \in 1..Len(body') : body'[i] = d)
               <=> (\E i \in 1..Len(body) : body[i] = d) /\ d # c
  BY <1>0, <1>1, <1>2, <1>4, <1>6
<1>8. c.pit \notin Builtin => c.frame \in DOMAIN live /\ live[c.frame] = c.pit
  BY <1>0, <1>1, <1>4 DEF CoInv, ProgramInv
<1>9. \A f \in DOMAIN live : live[f] \notin Builtin
  BY DEF CoInv, ProgramInv
<1>10. ASSUME live' = live, ~InBuiltin, NEW d \in CoEntry
       PROVE  IsLive(d)' <=> IsLive(d)
  BY <1>3, <1>7, <1>8, <1>10 DEF IsLive
<1>11. ASSUME live' = (IF InBuiltin THEN live ELSE Without(live, Top(body).frame)),
              NEW d \in CoEntry
       PROVE  IsLive(d)' <=> IsLive(d) /\ d # Top(body)
  <2>1. /\ d = c => d.frame = c.frame /\ d.pit = c.pit
        /\ d.pit = c.pit /\ d.frame = c.frame => d = c
    BY EntriesDiffer
  <2>2. (d.frame \in DOMAIN live' /\ live'[d.frame] = d.pit)
          <=> (d.frame \in DOMAIN live /\ live[d.frame] = d.pit) /\ d # c
    <3>1. CASE InBuiltin
      BY <1>3, <1>9, <1>11, <2>1, <3>1
    <3>2. CASE ~InBuiltin
      BY <1>1, <1>3, <1>8, <1>11, <2>1, <3>2 DEF Without
    <3> QED
      BY <3>1, <3>2
  <2> QED
    BY <1>1, <1>7, <2>2 DEF IsLive
<1> QED
  BY <1>10, <1>11

\* What is recorded of a function is a number, whether there is a record or not.
LEMMA RecordedTyped ==
    ASSUME CoInv
    PROVE  \A q : Recorded(pits, q).ttotal \in Int /\ Recorded(pits, q).callcount \in Int
  BY DEF CoInv, RecordInv, LevelInv, TypeOK, Counter, Recorded, Zero

-----------------------------------------------------------------------------
(* Every step is a step of CoroutineTimes, or none. *)

Promises == [Times!Next]_Times!vars

\* A call that finds a record of its coroutine goes on with it.
FindsItsOwn(c) == Key(c) \in DOMAIN coroutines => IsLive(c)

\* A call, while profiled, is an entry.
LEMMA CallTimed ==
    ASSUME CoInv, NEW c \in CoEntry, CallOf(c), Begins(c), FindsItsOwn(c)
    PROVE  Promises
<1> DEFINE first == \A i \in 1..Len(body) : body[i].pit # c.pit
<1>1. /\ now' = now
      /\ coroutines' = IF first THEN WithKey(coroutines, Key(c), now) ELSE coroutines
      /\ \A q \in Pit : Recorded(pits', q) = Recorded(pits, q)
  BY CallRecords
<1>2. now \in Nat
  BY DEF CoInv, RecordInv, LevelInv, TypeOK
<1>3. on /\ on' /\ body' = Append(body, c)
  BY DEF CallOf
<1>4. \A d \in CoEntry : IsLive(d)' <=> IsLive(d) \/ d = c
  BY <1>3, LiveAfterCall
<1>5. \A d \in CoEntry : Key(d) = Key(c) <=> d = c
  BY EntriesDiffer
<1>6. Shown = body /\ Shown' = Append(Shown, c)
  BY <1>3 DEF Shown
<1>7. Totals' = Totals /\ Counts' = Counts
  BY <1>1 DEF Totals, Counts
<1>8. c \in Remembered <=> Key(c) \in DOMAIN coroutines
  BY RememberedIs DEF FindsItsOwn
<1>9. ASSUME c \in Remembered \/ ~first
      PROVE  Age' = Age
  <2>1. coroutines' = coroutines
    BY <1>1, <1>8, <1>9 DEF WithKey
  <2>2. Remembered' = Remembered
    BY <1>4, <2>1, RememberedIs DEF FindsItsOwn
  <2> QED
    BY <1>1, <2>1, <2>2 DEF Age
<1>10. ASSUME ~(c \in Remembered \/ ~first)
       PROVE  Age' = [d \in Remembered \cup {c} |-> IF d = c THEN 0 ELSE Age[d]]
  <2>1. /\ DOMAIN coroutines' = DOMAIN coroutines \cup {Key(c)}
        /\ \A k \in DOMAIN coroutines : coroutines'[k] = coroutines[k]
        /\ coroutines'[Key(c)] = now
    BY <1>1, <1>8, <1>10 DEF WithKey
  <2>2. Remembered' = Remembered \cup {c}
    BY <1>4, <1>5, <2>1, RememberedIs
  <2>3. \A d \in Remembered : Key(d) \in DOMAIN coroutines
    BY RememberedIs
  <2> QED
    BY <1>1, <1>2, <1>10, <2>1, <2>2, <2>3 DEF Age
<1>11. Age' = IF c \in Remembered \/ ~first THEN Age
              ELSE [d \in Remembered \cup {c} |-> IF d = c THEN 0 ELSE Age[d]]
  BY <1>9, <1>10
<1>12. Times!Enter(c)
  <2>1. Times!Aged(c) <=> c \in Remembered
    BY DEF Times!Aged
  <2>2. Times!InProgress(c.pit, Shown) <=> ~first
    BY <1>6 DEF Times!InProgress
  <2> HIDE DEF first
  <2> QED
    BY <1>6, <1>7, <1>11, <2>1, <2>2
       DEF Times!Enter, Shown, Age, Totals, Counts, Key
<1>13. c \in Times!Call
  BY DEF Times!Call, CoEntry
<1> QED
  BY <1>12, <1>13 DEF Promises, Times!Next

\* Suspending is not charged and not counted.
LEMMA SuspensionTimed ==
    ASSUME CoInv, ReturnOf(TRUE), live' = live
    PROVE  Promises
<1>1. /\ on /\ on' /\ body # <<>> /\ body' = Pop(body) /\ ~InBuiltin
  BY DEF ReturnOf
<1>2. /\ now' = now /\ coroutines' = coroutines
      /\ \A q \in Pit : /\ Recorded(pits', q).ttotal = Recorded(pits, q).ttotal + 0
                        /\ Recorded(pits', q).callcount = Recorded(pits, q).callcount + 0
  BY ReturnRecords
<1>3. \A d \in CoEntry : IsLive(d)' <=> IsLive(d)
  BY <1>1, LiveAfterReturn
<1>4. Age' = Age
  <2>1. Remembered' = Remembered
    BY <1>2, <1>3, RememberedIs
  <2> QED
    BY <1>2, <2>1 DEF Age
<1>5. Totals' = Totals /\ Counts' = Counts
  BY <1>2, RecordedTyped DEF Totals, Counts
<1>6. Shown = body /\ Shown' = Pop(body)
  BY <1>1 DEF Shown
<1>7. Times!Suspend
  BY <1>1, <1>4, <1>5, <1>6
     DEF Times!Suspend, Times!Others, Shown, Age, Totals, Counts, Key, Pop
<1> QED
  BY <1>7 DEF Promises, Times!Next

\* Finishing is charged the age of the coroutine, unless its function goes on.
LEMMA FinishTimed ==
    ASSUME CoInv, ReturnOf(FALSE),
           live' = IF InBuiltin THEN live ELSE Without(live, Top(body).frame)
    PROVE  Promises
<1> DEFINE c == Top(body)  k == Key(c)  alone == IsFirst(Len(body))
<1>1. /\ on /\ on' /\ body # <<>> /\ body' = Pop(body) /\ c \in CoEntry /\ c.pit \in Pit
  BY BodyTop DEF ReturnOf, CoInv, CoEntry
<1>2. /\ now' = now
      /\ alone => k \in DOMAIN coroutines
      /\ coroutines' = IF alone THEN Without(coroutines, k) ELSE coroutines
      /\ \A q \in Pit :
           /\ Recorded(pits', q).ttotal = Recorded(pits, q).ttotal
                + (IF q = c.pit /\ alone THEN now - coroutines[k] ELSE 0)
           /\ Recorded(pits', q).callcount = Recorded(pits, q).callcount
                + (IF q = c.pit THEN 1 ELSE 0)
  BY ReturnRecords
<1>3. \A d \in CoEntry : IsLive(d)' <=> IsLive(d) /\ d # c
  BY <1>1, LiveAfterReturn
<1>4. \A d \in CoEntry : Key(d) = k <=> d = c
  BY <1>1, EntriesDiffer
<1>5. Shown = body /\ Shown' = Pop(body)
  BY <1>1 DEF Shown
<1>6. /\ Len(body) \in Nat \ {0} /\ c = body[Len(body)]
      /\ Len(Pop(body)) = Len(body) - 1
      /\ \A i \in 1..(Len(body) - 1) : Pop(body)[i] = body[i]
  BY <1>1, BodyTop DEF CoInv
<1>7. Times!InProgress(c.pit, Pop(body)) <=> ~alone
  BY <1>6 DEF Times!InProgress, IsFirst
<1>8. alone => c \in Remembered
  <2>1. IsLive(c)
    BY <1>6 DEF IsLive
  <2> QED
    BY <1>1, <1>2, <2>1, RememberedIs
<1> HIDE DEF c, k, alone
<1>9. Age' = [d \in Remembered \ {c} |-> Age[d]]
  <2>1. /\ \A d \in CoEntry : d # c =>
             (Key(d) \in DOMAIN coroutines' <=> Key(d) \in DOMAIN coroutines)
        /\ \A d \in CoEntry : d # c /\ Key(d) \in DOMAIN coroutines
             => coroutines'[Key(d)] = coroutines[Key(d)]
    BY <1>2, <1>4 DEF Without
  <2>2. Remembered' = Remembered \ {c}
    BY <1>3, <2>1, RememberedIs
  <2>3. \A d \in Remembered \ {c} : coroutines'[Key(d)] = coroutines[Key(d)]
    BY <2>1, RememberedIs
  <2> QED
    BY <1>2, <2>2, <2>3 DEF Age
<1>10. Counts' = [Counts EXCEPT ![c.pit] = @ + 1]
  BY <1>1, <1>2, RecordedTyped DEF Counts
<1>11. Totals' = IF ~alone THEN Totals ELSE [Totals EXCEPT ![c.pit] = @ + Age[c]]
  <2>1. alone => Age[c] = now - coroutines[k]
    BY <1>8 DEF Age, k
  <2>2. CASE alone
    <3>1. Totals[c.pit] = Recorded(pits, c.pit).ttotal
      BY <1>1 DEF Totals
    <3>2. \A q \in Pit : Totals'[q] = IF q = c.pit THEN Totals[c.pit] + Age[c] ELSE Totals[q]
      BY <1>2, <2>1, <2>2, <3>1, RecordedTyped DEF Totals
    <3> QED
      BY <1>1, <2>2, <3>2 DEF Totals
  <2>3. CASE ~alone
    BY <1>2, <2>3, RecordedTyped DEF Totals
  <2> QED
    BY <2>2, <2>3
<1>12. Times!Finish
  <2>1. Times!Innermost = c /\ Times!Others = Pop(body)
    BY <1>1, <1>6 DEF Times!Innermost, Times!Others, Pop
  <2>2. Times!InProgress(Times!Innermost.pit, Times!Others) <=> ~alone
    BY <1>7, <2>1
  <2>3. Times!Forgotten(Times!Innermost) = [d \in Remembered \ {c} |-> Age[d]]
    BY <2>1 DEF Times!Forgotten, Age, Key
  <2> QED
    BY <1>1, <1>5, <1>9, <1>10, <1>11, <2>1, <2>2, <2>3
       DEF Times!Finish, Shown, Age, Totals, Counts, Key
<1> QED
  BY <1>12 DEF Promises, Times!Next

\* A coroutine is entered while nothing is profiled.
LEMMA CallUnseen ==
    ASSUME CoInv, NEW c \in CoEntry, ~on, on' = on, UNCHANGED vars,
           body' = Append(body, c), Begins(c), FindsItsOwn(c)
    PROVE  Promises
<1>1. /\ now' = now /\ coroutines' = coroutines /\ pits' = pits
  BY DEF vars
<1>2. \A d \in CoEntry : IsLive(d)' <=> IsLive(d) \/ d = c
  BY LiveAfterCall
<1>3. Remembered' = Remembered
  BY <1>1, <1>2, RememberedIs DEF FindsItsOwn
<1>4. Seen' = Seen
  BY <1>1, <1>3 DEF Seen, Shown, Age, Totals, Counts
<1> QED
  BY <1>4, SeenIsMapped DEF Promises

\* One leaves while nothing is profiled: suspended, it keeps its age; finished, it
\* has none.
LEMMA ReturnUnseen ==
    ASSUME CoInv, ~on, on' = on, UNCHANGED vars, body # <<>>, body' = Pop(body),
           \/ live' = live /\ ~InBuiltin
           \/ live' = IF InBuiltin THEN live ELSE Without(live, Top(body).frame)
    PROVE  Promises
<1>1. /\ now' = now /\ coroutines' = coroutines /\ pits' = pits
  BY DEF vars
<1>2. Totals' = Totals /\ Counts' = Counts /\ Shown = <<>> /\ Shown' = Shown
  BY <1>1 DEF Totals, Counts, Shown
<1>3. CASE live' = live /\ ~InBuiltin
  <2>1. Remembered' = Remembered
    BY <1>1, <1>3, LiveAfterReturn, RememberedIs
  <2>2. Seen' = Seen
    BY <1>1, <1>2, <2>1 DEF Seen, Age
  <2> QED
    BY <2>2, SeenIsMapped DEF Promises
<1>4. CASE live' = IF InBuiltin THEN live ELSE Without(live, Top(body).frame)
  <2>1. PICK c \in CoEntry : c = Top(body)
    BY BodyTop DEF CoInv
  <2>2. \A d \in CoEntry : IsLive(d)' <=> IsLive(d) /\ d # c
    BY <1>4, <2>1, LiveAfterReturn
  <2>3. Remembered' = Remembered \ {c}
    BY <1>1, <2>2, RememberedIs
  <2>4. Age' = [d \in Remembered \ {c} |-> Age[d]]
    BY <1>1, <2>3 DEF Age
  <2>5. Times!Forgotten(c) = [d \in Remembered \ {c} |-> Age[d]]
    BY DEF Times!Forgotten, Age, Key
  <2>6. Times!Vanish(c)
    BY <1>2, <2>4, <2>5 DEF Times!Vanish, Shown, Age, Totals, Counts, Key
  <2>7. c \in Times!Call
    BY <2>1 DEF Times!Call, CoEntry
  <2> QED
    BY <2>6, <2>7 DEF Promises, Times!Next
<1> QED
  BY <1>3, <1>4

\* start() and stop() between two calls are not seen.
LEMMA SwitchTimed ==
    ASSUME CoInv, Switch
    PROVE  Promises
<1>1. /\ now' = now /\ coroutines' = coroutines /\ pits' = pits /\ live' = live
      /\ body = <<>> /\ body' = <<>>
  BY DEF Switch, vars
<1>2. Remembered' = Remembered
  BY <1>1 DEF Remembered, IsLive
<1>3. Seen' = Seen
  BY <1>1, <1>2 DEF Seen, Shown, Age, Totals, Counts
<1> QED
  BY <1>3, SeenIsMapped DEF Promises

\* clear_stats() forgets all times.
LEMMA ClearTimed ==
    ASSUME CoInv, Clear
    PROVE  Promises
<1>1. /\ body = <<>> /\ body' = <<>> /\ DOMAIN coroutines' = {} /\ DOMAIN pits' = {}
  BY DEF Clear
<1>2. Age' = [c \in {} |-> 0]
  BY <1>1 DEF Age, Remembered
<1>3. Totals' = [p \in Pit |-> 0] /\ Counts' = [p \in Pit |-> 0]
  BY <1>1 DEF Totals, Counts, Recorded, Zero
<1>4. Shown = <<>> /\ Shown' = <<>>
  BY <1>1 DEF Shown
<1>5. Times!Nothing'
  BY <1>3 DEF Times!Nothing, Totals, Counts
<1>6. Times!Forget
  BY <1>2, <1>4, <1>5 DEF Times!Forget, Shown, Age, Key
<1> QED
  BY <1>6 DEF Promises, Times!Next

\* The clock makes every coroutine older that has an age, suspended or not.
LEMMA TickTimed ==
    ASSUME CoInv, Passes
    PROVE  Promises
<1>1. /\ now \in Nat /\ now' = now + 1
      /\ \A k \in DOMAIN coroutines : coroutines[k] \in Nat
      /\ UNCHANGED <<pits, coroutines, live, body, on>>
  BY RecordsAge
<1>2. Remembered' = Remembered
  BY <1>1 DEF Remembered, IsLive
<1>3. \A c \in Remembered : coroutines[Key(c)] \in Nat
  BY <1>1, RememberedIs
<1>4. Age' = [c \in DOMAIN Age |-> Age[c] + 1]
  <2>1. \A c \in Remembered : (now + 1) - coroutines[Key(c)]
                               = (now - coroutines[Key(c)]) + 1
    BY <1>1, <1>3
  <2> QED
    BY <1>1, <1>2, <2>1 DEF Age
<1>5. Shown' = Shown /\ Totals' = Totals /\ Counts' = Counts
  BY <1>1 DEF Shown, Totals, Counts
<1>6. Times!Pass
  BY <1>4, <1>5 DEF Times!Pass, Shown, Age, Totals, Counts, Key
<1> QED
  BY <1>6 DEF Promises, Times!Next

-----------------------------------------------------------------------------
(* The steps of the program. *)

\* A call of c, profiled or not.
LEMMA CalledStep ==
    ASSUME CoInv, NEW c \in CoEntry, Called(c.pit, c.frame), Begins(c), FindsItsOwn(c),
           MayCall(c, live')
    PROVE  CoInv' /\ Promises
<1>1. c = [pit |-> c.pit, frame |-> c.frame]
  BY DEF CoEntry
<1>2. /\ body' = Append(body, c) /\ on' = on
      /\ IF on THEN CallEnter(c.pit, c.frame) ELSE UNCHANGED vars
  BY <1>1 DEF Called
<1>3. c.pit \in Pit /\ c.frame \in Frame
  BY DEF CoEntry
<1>4. /\ DOMAIN live \subseteq DOMAIN live' /\ DOMAIN live' \subseteq Frame
      /\ \A f \in DOMAIN live : live'[f] = live[f]
      /\ \A f \in DOMAIN live' : live'[f] \in Pit \ Builtin
  BY <1>3 DEF Begins, WithKey, CoInv, ProgramInv
<1>5. ProgramInv'
  BY <1>2, <1>4, BodyPush DEF CoInv
<1>6. CASE on
  <2>1. CallOf(c)
    BY <1>2, <1>6 DEF CallOf
  <2> QED
    BY <1>5, <2>1, CallRecords, CallTimed DEF CoInv
<1>7. CASE ~on
  <2>1. UNCHANGED vars /\ ~on' /\ on' \in BOOLEAN
    BY <1>2, <1>7 DEF CoInv, ProgramInv
  <2> QED
    BY <1>2, <1>5, <1>7, <2>1, RecordsKept, CallUnseen DEF CoInv
<1> QED
  BY <1>6, <1>7

\* A return, profiled or not.
LEMMA LeftStep ==
    ASSUME CoInv, NEW suspended \in BOOLEAN, Left(suspended),
           IF suspended THEN live' = live /\ ~InBuiltin
           ELSE live' = IF InBuiltin THEN live ELSE Without(live, Top(body).frame)
    PROVE  CoInv' /\ Promises
<1>1. /\ body # <<>> /\ body' = Pop(body) /\ on' = on
      /\ IF on THEN CallLeave(Top(body).frame, suspended) ELSE UNCHANGED vars
  BY DEF Left
<1>2. ProgramInv'
  BY <1>1, BodyPop DEF CoInv
<1>3. CASE on
  <2>1. ReturnOf(suspended)
    BY <1>1, <1>3 DEF ReturnOf
  <2>2. RecordInv'
    BY <2>1, ReturnRecords
  <2>3. CASE suspended
    <3>1. ReturnOf(TRUE) /\ live' = live
      BY <2>1, <2>3
    <3> QED
      BY <1>2, <2>2, <3>1, SuspensionTimed DEF CoInv
  <2>4. CASE ~suspended
    <3>1. ReturnOf(FALSE)
      BY <2>1, <2>4
    <3> QED
      BY <1>2, <2>2, <2>4, <3>1, FinishTimed DEF CoInv
  <2> QED
    BY <2>3, <2>4
<1>4. CASE ~on
  <2>1. UNCHANGED vars /\ ~on' /\ on' \in BOOLEAN
    BY <1>1, <1>4 DEF CoInv, ProgramInv
  <2> QED
    BY <1>1, <1>2, <1>4, <2>1, RecordsKept, ReturnUnseen DEF CoInv
<1> QED
  BY <1>3, <1>4

\* A new coroutine finds no record at its frame.
LEMMA BeginStep ==
    ASSUME CoInv, NEW p \in Pit, NEW f \in Frame, <<p, f>> \notin DOMAIN coroutines,
           Begin(p, f)
    PROVE  CoInv' /\ Promises
<1> DEFINE c == [pit |-> p, frame |-> f]
<1>1. c \in CoEntry /\ c.pit = p /\ c.frame = f
  BY DEF CoEntry
<1>2. /\ p \notin Builtin /\ f \notin DOMAIN live /\ live' = WithKey(live, f, p)
      /\ Called(p, f)
  BY DEF Begin
<1> HIDE DEF c
<1>3. Begins(c) /\ FindsItsOwn(c)
  BY <1>1, <1>2 DEF Begins, FindsItsOwn, Key
<1>4. f \in DOMAIN live' /\ live'[f] = p
  BY <1>2 DEF WithKey
<1>5. \A i \in 1..Len(body) : body[i].pit \notin Builtin => body[i].frame # f
  BY <1>2 DEF CoInv, ProgramInv
<1> QED
  BY <1>1, <1>2, <1>3, <1>4, <1>5, CalledStep DEF MayCall

\* One that was suspended may find its own.
LEMMA ResumeStep ==
    ASSUME CoInv, NEW f \in Frame, Resume(f)
    PROVE  CoInv' /\ Promises
<1> DEFINE c == [pit |-> live[f], frame |-> f]
<1>1. /\ f \in DOMAIN live /\ live[f] \in Pit \ Builtin /\ live' = live
      /\ Called(live[f], f) /\ ~Runs(f)
  BY DEF Resume, CoInv, ProgramInv
<1>2. c \in CoEntry /\ c.pit = live[f] /\ c.frame = f
  BY <1>1 DEF CoEntry
<1> HIDE DEF c
<1>3. Begins(c) /\ FindsItsOwn(c)
  BY <1>1, <1>2 DEF Begins, FindsItsOwn, IsLive
<1>4. MayCall(c, live')
  BY <1>1, <1>2 DEF MayCall, Runs
<1> QED
  BY <1>1, <1>2, <1>3, <1>4, CalledStep

\* A builtin finds none, or that of a call in progress.
LEMMA BuiltinStep ==
    ASSUME CoInv, NEW b \in Builtin, CallBuiltin(b)
    PROVE  CoInv' /\ Promises
<1> DEFINE c == [pit |-> b, frame |-> Top(body).frame]
<1>1. /\ body # <<>> /\ ~InBuiltin /\ Called(b, Top(body).frame) /\ live' = live
  BY DEF CallBuiltin
<1>2. Top(body).frame \in Frame /\ b \in Pit
  BY <1>1, BodyTop, CoroutinesAssumption DEF CoInv, CoEntry
<1>3. c \in CoEntry /\ c.pit = b /\ c.frame = Top(body).frame
  BY <1>2 DEF CoEntry
<1> HIDE DEF c
<1>4. Begins(c) /\ MayCall(c, live')
  BY <1>1, <1>3 DEF Begins, MayCall
<1>5. FindsItsOwn(c)
  <2> SUFFICES ASSUME Key(c) \in DOMAIN coroutines PROVE IsLive(c)
    BY DEF FindsItsOwn
  <2>1. Key(c)[1] \in Builtin
    BY <1>3 DEF Key
  <2>2. PICK i \in 1..Len(body) : Key(body[i]) = Key(c)
    BY <2>1 DEF CoInv, RecordInv
  <2>3. body[i] = c
    BY <1>3, <2>2, BodyEntries, EntriesDiffer DEF CoInv
  <2> QED
    BY <2>3 DEF IsLive
<1> QED
  BY <1>1, <1>3, <1>4, <1>5, CalledStep

\* All steps but the making of a new coroutine.
LEMMA OtherStep ==
    ASSUME CoInv, Others
    PROVE  CoInv' /\ Promises
<1>1. ASSUME NEW f \in Frame, Resume(f) PROVE CoInv' /\ Promises
  BY <1>1, ResumeStep
<1>2. ASSUME NEW b \in Builtin, CallBuiltin(b) PROVE CoInv' /\ Promises
  BY <1>2, BuiltinStep
<1>3. CASE Suspend
  <2>1. Left(TRUE) /\ live' = live /\ ~InBuiltin
    BY <1>3 DEF Suspend
  <2> QED
    BY <2>1, LeftStep
<1>4. CASE Finish
  <2>1. /\ Left(FALSE)
        /\ live' = IF InBuiltin THEN live ELSE Without(live, Top(body).frame)
    BY <1>4 DEF Finish
  <2> QED
    BY <2>1, LeftStep
<1>5. CASE Switch
  <2>1. /\ body = <<>> /\ body' = <<>> /\ UNCHANGED vars /\ on' \in BOOLEAN
        /\ body' = body /\ live' = live
    BY <1>5 DEF Switch
  <2> QED
    BY <1>5, <2>1, BodyRests, RecordsKept, SwitchTimed DEF CoInv
<1>6. CASE Clear
  <2>1. body' = body /\ live' = live /\ on' \in BOOLEAN
    BY <1>6 DEF Clear, CoInv, ProgramInv
  <2> QED
    BY <1>6, <2>1, BodyRests, RecordsCleared, ClearTimed DEF CoInv
<1>7. CASE Passes
  <2>1. body' = body /\ live' = live /\ on' \in BOOLEAN
    BY <1>7 DEF Passes, CoInv, ProgramInv
  <2> QED
    BY <1>7, <2>1, BodyRests, RecordsAge, TickTimed DEF CoInv
<1> QED
  BY <1>1, <1>2, <1>3, <1>4, <1>5, <1>6, <1>7 DEF Others

\* Every step keeps the invariant and is one of CoroutineTimes, or none.
LEMMA FreshStep ==
    ASSUME CoInv, [FreshNext]_coVars
    PROVE  CoInv' /\ Promises
<1>1. ASSUME NEW p \in Pit, NEW f \in Frame, <<p, f>> \notin DOMAIN coroutines, Begin(p, f)
      PROVE  CoInv' /\ Promises
  BY <1>1, BeginStep
<1>2. CASE UNCHANGED coVars
  <2>1. UNCHANGED vars /\ UNCHANGED <<live, body, on>> /\ on' \in BOOLEAN
    BY <1>2 DEF coVars, CoInv, ProgramInv
  <2>2. CoInv'
    BY <2>1, BodyRests, RecordsKept DEF CoInv
  <2>3. now' = now /\ coroutines' = coroutines /\ pits' = pits
    BY <2>1 DEF vars
  <2>4. Remembered' = Remembered
    BY <2>1, <2>3 DEF Remembered, IsLive
  <2>5. Seen' = Seen
    BY <2>1, <2>3, <2>4 DEF Seen, Shown, Age, Totals, Counts
  <2> QED
    BY <2>2, <2>5, SeenIsMapped DEF Promises
<1> QED
  BY <1>1, <1>2, OtherStep DEF FreshNext

\* So is the start.
LEMMA FreshInit ==
    ASSUME CoInit
    PROVE  CoInv /\ Times!Init
<1>1. Init /\ body = <<>> /\ on /\ on \in BOOLEAN /\ DOMAIN live = {}
  BY DEF CoInit
<1>2. LevelInv
  BY <1>1, LevelInit
<1>3. /\ stack = <<>> /\ Len(stack) = 0 /\ Len(body) = 0 /\ body \in Seq(CoEntry)
      /\ DOMAIN coroutines = {} /\ DOMAIN pits = {}
  BY <1>1, EmptySeq DEF Init
<1>4. ProgramInv
  BY <1>1, <1>3 DEF ProgramInv
<1>5. RecordInv
  BY <1>1, <1>2, <1>3 DEF RecordInv
<1>6. Age = [c \in {} |-> 0]
  BY <1>3 DEF Age, Remembered
<1>7. Totals = [p \in Pit |-> 0] /\ Counts = [p \in Pit |-> 0]
  BY <1>3 DEF Totals, Counts, Recorded, Zero
<1>8. Times!Init
  BY <1>1, <1>6, <1>7 DEF Times!Init, Times!Nothing, Age, Totals, Counts, Key
<1> QED
  BY <1>4, <1>5, <1>8 DEF CoInv

\* For any coroutines and builtins, however they are entered, suspended, overlap,
\* recurse and outlive a session, a function is charged the ages of its coroutines
\* and its calls are counted when they finish (_coro_enter, _coro_exit, _call_enter,
\* _call_leave), provided the interpreter gives no coroutine the frame of one of
\* its function whose record was left behind.
THEOREM CoroutinesChargedTheirAge == FreshSpec => WallTimesAsPromised
<1>1. CoInit => CoInv /\ Times!Init
  BY FreshInit
<1>2. CoInv /\ [FreshNext]_coVars => CoInv' /\ [Times!Next]_Times!vars
  BY FreshStep DEF Promises
<1> QED
  BY <1>1, <1>2, PTL DEF FreshSpec, WallTimesAsPromised, Times!Spec
===============================================================================
