--------------------------- MODULE CallStatsProofs ---------------------------
(***************************************************************************)
(* Proofs about the call accounting of one context (CallStats): that the   *)
(* records agree with the calls in progress; that nothing is lost between  *)
(* the two kinds of records, as what the records of the callers of a       *)
(* function say of it adds up to what the function's own record says; that *)
(* the self times that a synchronous program leaves are those that the     *)
(* calls took; and that every step charges them as CallTimes promises.     *)
(***************************************************************************)
EXTENDS CallStats, FiniteSetTheorems, SequenceTheorems, WellFoundedInduction,
        TLAPS

\* An entry of the call stack.
Entry == [pit: Pit, t0: Nat]

-----------------------------------------------------------------------------
(* The call stack and the places where a function, or a pair, is on it. *)

\* Popping an element of a sequence keeps what is below it.
LEMMA PopKeeps ==
    ASSUME NEW S, NEW s \in Seq(S), s # <<>>
    PROVE  /\ Pop(s) \in Seq(S)
           /\ Len(s) \in Nat \ {0}
           /\ Len(Pop(s)) = Len(s) - 1
           /\ \A i \in 1..(Len(s) - 1) : Pop(s)[i] = s[i]
<1>1. Len(s) \in Nat \ {0}
  BY EmptySeq
<1>2. PICK m \in Nat : Len(s) - 1 = m /\ Len(s) = m + 1
  BY <1>1
<1>3. \A i \in 1..m : s[i] \in S
  <2>1. \A i \in 1..m : i \in 1..Len(s)
    BY <1>2
  <2> QED
    BY <2>1, ElementOfSeq
<1>4. /\ SubSeq(s, 1, m) \in Seq(S)
      /\ Len(SubSeq(s, 1, m)) = IF 1 <= m THEN m - 1 + 1 ELSE 0
      /\ \A i \in 1..(m - 1 + 1) : SubSeq(s, 1, m)[i] = s[1 + i - 1]
  <2>1. m \in Int /\ 1 \in Int
    OBVIOUS
  <2> QED
    BY <1>3, <2>1, SubSeqProperties
<1>5. /\ m - 1 + 1 = m
      /\ ~(1 <= m) => m = 0
      /\ \A i \in 1..m : 1 + i - 1 = i
  OBVIOUS
<1>6. /\ Len(SubSeq(s, 1, m)) = m
      /\ \A i \in 1..m : SubSeq(s, 1, m)[i] = s[i]
  BY <1>4, <1>5
<1> QED
  BY <1>1, <1>2, <1>4, <1>6 DEF Pop

\* The same of the call stack.
LEMMA PopStack ==
    ASSUME NEW s \in Seq(Entry), s # <<>>
    PROVE  /\ Pop(s) \in Seq(Entry)
           /\ Len(s) \in Nat \ {0}
           /\ Len(Pop(s)) = Len(s) - 1
           /\ \A i \in 1..(Len(s) - 1) : Pop(s)[i] = s[i]
BY PopKeeps

\* The top of a stack that is not empty, and its places, are entries.
LEMMA TopEntry ==
    ASSUME NEW s \in Seq(Entry), s # <<>>
    PROVE  /\ Len(s) \in 1..Len(s)
           /\ Top(s) \in Entry
           /\ Top(s).pit \in Pit
           /\ Top(s).t0 \in Nat
           /\ \A i \in 1..Len(s) : s[i].pit \in Pit /\ s[i].t0 \in Nat
<1>1. Len(s) \in 1..Len(s)
  BY EmptySeq
<1>2. Top(s) \in Entry
  BY <1>1, ElementOfSeq DEF Top
<1>3. \A i \in 1..Len(s) : s[i] \in Entry
  BY ElementOfSeq
<1> QED
  BY <1>1, <1>2, <1>3 DEF Entry

\* The places of a stack where p, or the pair c, is.
Occ(s, p) == {i \in 1..Len(s) : s[i].pit = p}
PairOcc(s, c) == {i \in 2..Len(s) : s[i-1].pit = c[1] /\ s[i].pit = c[2]}

\* The places are finitely many.
LEMMA OccFinite ==
    ASSUME NEW s \in Seq(Entry), NEW p, NEW c
    PROVE  /\ IsFiniteSet(Occ(s, p)) /\ Cardinality(Occ(s, p)) \in Nat
           /\ IsFiniteSet(PairOcc(s, c)) /\ Cardinality(PairOcc(s, c)) \in Nat
<1>1. Len(s) \in Nat
  BY LenProperties
<1>2. IsFiniteSet(1..Len(s)) /\ IsFiniteSet(2..Len(s))
  BY <1>1, FS_Interval
<1>3. Occ(s, p) \subseteq 1..Len(s) /\ PairOcc(s, c) \subseteq 2..Len(s)
  BY DEF Occ, PairOcc
<1> QED
  BY <1>2, <1>3, FS_Subset, FS_CardinalityType

\* Pushing adds one place, of the pushed function and of its pair with the
\* function that was on top.
LEMMA PushOcc ==
    ASSUME NEW s \in Seq(Entry), NEW x \in Entry
    PROVE  /\ \A p \in Pit : Occ(Append(s, x), p) =
                IF p = x.pit THEN Occ(s, p) \cup {Len(s) + 1} ELSE Occ(s, p)
           /\ \A c \in Pair : PairOcc(Append(s, x), c) =
                IF s # <<>> /\ c = <<Top(s).pit, x.pit>>
                THEN PairOcc(s, c) \cup {Len(s) + 1} ELSE PairOcc(s, c)
           /\ \A p : Len(s) + 1 \notin Occ(s, p)
           /\ \A c : Len(s) + 1 \notin PairOcc(s, c)
<1> DEFINE n == Len(s)
           t == Append(s, x)
<1>1. n \in Nat /\ Len(t) = n + 1 /\ t[n+1] = x /\ \A i \in 1..n : t[i] = s[i]
  BY AppendProperties, LenProperties
<1>2. s # <<>> => n >= 1
  BY EmptySeq
<1>3. s = <<>> => n = 0
  BY EmptySeq
<1> HIDE DEF n, t
<1>4. ASSUME NEW p \in Pit
      PROVE  Occ(t, p) = IF p = x.pit THEN Occ(s, p) \cup {n + 1} ELSE Occ(s, p)
  BY <1>1 DEF Occ, n
<1>5. ASSUME NEW c \in Pair
      PROVE  PairOcc(t, c) =
               IF s # <<>> /\ c = <<Top(s).pit, x.pit>>
               THEN PairOcc(s, c) \cup {n + 1} ELSE PairOcc(s, c)
  <2>1. \A i \in 2..n : i \in PairOcc(t, c) <=> i \in PairOcc(s, c)
    BY <1>1 DEF PairOcc, n
  <2>2. n + 1 \in PairOcc(t, c) <=> s # <<>> /\ c = <<Top(s).pit, x.pit>>
    <3>1. c = <<c[1], c[2]>>
      BY DEF Pair
    <3>2. CASE s = <<>>
      BY <3>2, <1>1, <1>3 DEF PairOcc
    <3>3. CASE s # <<>>
      <4>1. n + 1 \in 2..Len(t) /\ t[n] = s[n] /\ (n + 1) - 1 = n /\ Top(s) = s[n]
        BY <3>3, <1>1, <1>2 DEF Top, n
      <4> QED
        BY <3>1, <3>3, <4>1, <1>1 DEF PairOcc
    <3> QED
      BY <3>2, <3>3
  <2>3. PairOcc(t, c) \subseteq 2..(n+1) /\ PairOcc(s, c) \subseteq 2..n
    BY <1>1 DEF PairOcc, n
  <2>4. \A i \in 2..(n+1) : i \in 2..n \/ i = n + 1
    BY <1>1
  <2>5. n + 1 \notin 2..n
    BY <1>1
  <2>6. \A i : i \in PairOcc(t, c) <=>
               i \in PairOcc(s, c) \/ (i = n + 1 /\ n + 1 \in PairOcc(t, c))
    BY <2>1, <2>3, <2>4, <2>5
  <2>7. n + 1 \in PairOcc(t, c) => PairOcc(t, c) = PairOcc(s, c) \cup {n + 1}
    BY <2>6
  <2>8. n + 1 \notin PairOcc(t, c) => PairOcc(t, c) = PairOcc(s, c)
    BY <2>6
  <2> QED
    BY <2>2, <2>7, <2>8
<1>6. \A p : n + 1 \notin Occ(s, p)
  BY <1>1 DEF Occ, n
<1>7. \A c : n + 1 \notin PairOcc(s, c)
  BY <1>1 DEF PairOcc, n
<1> QED
  BY <1>4, <1>5, <1>6, <1>7 DEF n, t

\* Popping removes one place.
LEMMA PopOcc ==
    ASSUME NEW s \in Seq(Entry), s # <<>>
    PROVE  /\ \A p \in Pit : Occ(Pop(s), p) =
                IF p = Top(s).pit THEN Occ(s, p) \ {Len(s)} ELSE Occ(s, p)
           /\ \A c \in Pair : PairOcc(Pop(s), c) =
                IF Len(s) > 1 /\ c = <<s[Len(s)-1].pit, Top(s).pit>>
                THEN PairOcc(s, c) \ {Len(s)} ELSE PairOcc(s, c)
           /\ Len(s) \in Occ(s, Top(s).pit)
           /\ Len(s) > 1 =>
                Len(s) \in PairOcc(s, <<s[Len(s)-1].pit, Top(s).pit>>)
<1> DEFINE n == Len(s)
           t == Pop(s)
<1>1. n \in Nat \ {0} /\ Len(t) = n - 1 /\ \A i \in 1..(n-1) : t[i] = s[i]
  BY PopStack
<1> HIDE DEF n, t
<1>2. Top(s) = s[n]
  BY DEF Top, n
<1>3. ASSUME NEW p \in Pit
      PROVE  Occ(t, p) = IF p = Top(s).pit THEN Occ(s, p) \ {n} ELSE Occ(s, p)
  BY <1>1, <1>2 DEF Occ, n
<1>4. ASSUME NEW c \in Pair
      PROVE  PairOcc(t, c) =
               IF n > 1 /\ c = <<s[n-1].pit, Top(s).pit>>
               THEN PairOcc(s, c) \ {n} ELSE PairOcc(s, c)
  <2>1. PairOcc(t, c) = PairOcc(s, c) \ {n}
    BY <1>1 DEF PairOcc, n
  <2>2. c = <<c[1], c[2]>>
    BY DEF Pair
  <2>3. n \in PairOcc(s, c) => n > 1 /\ c = <<s[n-1].pit, Top(s).pit>>
    BY <1>1, <1>2, <2>2 DEF PairOcc
  <2> QED
    BY <2>1, <2>3
<1>5. n \in Occ(s, Top(s).pit)
  BY <1>1, <1>2 DEF Occ, n
<1>6. n > 1 => n \in PairOcc(s, <<s[n-1].pit, Top(s).pit>>)
  BY <1>1, <1>2 DEF PairOcc, n
<1> QED
  BY <1>3, <1>4, <1>5, <1>6 DEF n, t

-----------------------------------------------------------------------------
(* Tables and recursion levels. *)

\* incr_rec_level raises the level of one key, which it makes present.
LEMMA IncrLevel ==
    ASSUME NEW levels, levels \in [DOMAIN levels -> Nat], NEW k
    PROVE  /\ Incr(levels, k) \in [DOMAIN levels \cup {k} -> Nat]
           /\ DOMAIN Incr(levels, k) = DOMAIN levels \cup {k}
           /\ \A x \in DOMAIN levels : x # k => Incr(levels, k)[x] = levels[x]
           /\ Incr(levels, k)[k] =
                IF k \in DOMAIN levels THEN levels[k] + 1 ELSE 1
<1>1. CASE k \in DOMAIN levels
  <2>1. WithKey(levels, k, 0) = levels
    BY <1>1 DEF WithKey
  <2>2. Incr(levels, k) = [levels EXCEPT ![k] = levels[k] + 1]
    BY <2>1 DEF Incr
  <2>3. levels[k] + 1 \in Nat
    BY <1>1
  <2>4. DOMAIN levels \cup {k} = DOMAIN levels
    BY <1>1
  <2> QED
    BY <1>1, <2>2, <2>3, <2>4
<1>2. CASE k \notin DOMAIN levels
  BY <1>2 DEF Incr, WithKey
<1> QED
  BY <1>1, <1>2

\* decr_rec_level keeps the table well formed whatever the key ...
LEMMA DecrType ==
    ASSUME NEW levels, levels \in [DOMAIN levels -> Nat], NEW k
    PROVE  /\ Decr(levels, k) \in [DOMAIN Decr(levels, k) -> Nat]
           /\ DOMAIN Decr(levels, k) \subseteq DOMAIN levels
<1>1. CASE k \notin DOMAIN levels
  BY <1>1 DEF Decr
<1>2. CASE k \in DOMAIN levels /\ levels[k] = 0
  BY <1>2 DEF Decr, Without
<1>3. CASE k \in DOMAIN levels /\ levels[k] # 0
  BY <1>3 DEF Decr
<1> QED
  BY <1>1, <1>2, <1>3

\* ... and lowers the level of a key whose level is not 0.
LEMMA DecrLevel ==
    ASSUME NEW levels, levels \in [DOMAIN levels -> Nat],
           NEW k \in DOMAIN levels, levels[k] > 0
    PROVE  /\ DOMAIN Decr(levels, k) = DOMAIN levels
           /\ \A x \in DOMAIN levels : x # k => Decr(levels, k)[x] = levels[x]
           /\ Decr(levels, k)[k] = levels[k] - 1
BY DEF Decr

-----------------------------------------------------------------------------
(* Types. *)

\* The time charged by _call_leave is an integer.
LEMMA ElapsedType ==
    ASSUME TypeOK, stack # <<>>, NEW f \in Frame, NEW suspended \in BOOLEAN
    PROVE  Elapsed(f, suspended) \in Int
<1>1. Top(stack) \in Entry
  BY TopEntry DEF TypeOK, Entry
<1> DEFINE age == now - coroutines[<<Top(stack).pit, f>>]
<1>2. CoroExits(Top(stack).pit, f) => age \in Int
  BY DEF CoroExits, TypeOK
<1>3. now - Top(stack).t0 \in Int
  BY <1>1 DEF Entry, TypeOK
<1> HIDE DEF age
<1> QED
  BY <1>2, <1>3 DEF Elapsed, age

\* _coro_enter and _coro_exit keep the table of coroutines well formed.
LEMMA CoroutinesType ==
    ASSUME TypeOK, NEW f \in Frame
    PROVE  /\ \A p \in Pit, level \in Int :
                /\ DOMAIN CoroEnter(p, f, level) \subseteq Pit \X AsyncFrame
                /\ CoroEnter(p, f, level) \in
                     [DOMAIN CoroEnter(p, f, level) -> Nat]
           /\ \A suspended \in BOOLEAN :
                /\ DOMAIN CoroutinesOnLeave(f, suspended)
                     \subseteq Pit \X AsyncFrame
                /\ CoroutinesOnLeave(f, suspended) \in
                     [DOMAIN CoroutinesOnLeave(f, suspended) -> Nat]
<1>1. /\ DOMAIN coroutines \subseteq Pit \X AsyncFrame
      /\ coroutines \in [DOMAIN coroutines -> Nat]
      /\ now \in Nat
  BY DEF TypeOK
<1>2. ASSUME NEW p \in Pit, NEW level \in Int
      PROVE  /\ DOMAIN CoroEnter(p, f, level) \subseteq Pit \X AsyncFrame
             /\ CoroEnter(p, f, level) \in [DOMAIN CoroEnter(p, f, level) -> Nat]
  <2>1. CASE WallClock /\ f \in AsyncFrame /\ level = 1
    <3>1. CoroEnter(p, f, level) = WithKey(coroutines, <<p, f>>, now)
      BY <2>1 DEF CoroEnter
    <3> QED
      BY <1>1, <2>1, <3>1 DEF WithKey
  <2>2. CASE ~(WallClock /\ f \in AsyncFrame /\ level = 1)
    BY <1>1, <2>2 DEF CoroEnter
  <2> QED
    BY <2>1, <2>2
<1>3. ASSUME NEW suspended \in BOOLEAN
      PROVE  /\ DOMAIN CoroutinesOnLeave(f, suspended) \subseteq Pit \X AsyncFrame
             /\ CoroutinesOnLeave(f, suspended) \in
                  [DOMAIN CoroutinesOnLeave(f, suspended) -> Nat]
  BY <1>1 DEF CoroutinesOnLeave, Without
<1> QED
  BY <1>2, <1>3

\* A new context is well typed.
LEMMA TypeInit == Init => TypeOK
<1> SUFFICES ASSUME Init PROVE TypeOK
  OBVIOUS
<1>1. stack \in Seq(Entry)
  BY EmptySeq DEF Init
<1> QED
  BY <1>1 DEF Init, TypeOK, Zero, Entry

\* What the three kinds of call event do to the tables.
LEMMA EnterTypes ==
    ASSUME TypeOK, NEW p \in Pit
    PROVE  /\ DOMAIN WithKey(pits, p, Zero) \subseteq Pit
           /\ WithKey(pits, p, Zero) \in [DOMAIN WithKey(pits, p, Zero) -> Counter]
           /\ DOMAIN ChildrenOnEntry(p) \subseteq Pair
           /\ ChildrenOnEntry(p) \in [DOMAIN ChildrenOnEntry(p) -> Counter]
           /\ DOMAIN ChildLevelOnEntry(p) \subseteq Pair
           /\ ChildLevelOnEntry(p) \in [DOMAIN ChildLevelOnEntry(p) -> Nat]
           /\ stack # <<>> => <<Top(stack).pit, p>> \in Pair
<1>1. Zero \in Counter
  BY DEF Zero, Counter
<1>2. stack \in Seq(Entry)
  BY DEF TypeOK, Entry
<1>3. ASSUME stack # <<>>
      PROVE  <<Top(stack).pit, p>> \in Pair
  <2>1. Top(stack).pit \in Pit
    BY <1>2, <1>3, TopEntry
  <2> QED
    BY <2>1 DEF Pair
<1>4. /\ DOMAIN WithKey(pits, p, Zero) \subseteq Pit
      /\ WithKey(pits, p, Zero) \in [DOMAIN WithKey(pits, p, Zero) -> Counter]
  BY <1>1 DEF TypeOK, WithKey
<1>5. CASE stack = <<>>
  BY <1>4, <1>5 DEF TypeOK, ChildrenOnEntry, ChildLevelOnEntry
<1>6. CASE stack # <<>>
  <2> DEFINE c == <<Top(stack).pit, p>>
  <2>1. ChildrenOnEntry(p) = WithKey(children, c, Zero)
    BY <1>6 DEF ChildrenOnEntry
  <2>2. ChildLevelOnEntry(p) = Incr(childLevel, c)
    BY <1>6 DEF ChildLevelOnEntry
  <2>3. c \in Pair
    BY <1>3, <1>6
  <2> HIDE DEF c
  <2>4. /\ DOMAIN WithKey(children, c, Zero) \subseteq Pair
        /\ WithKey(children, c, Zero) \in
             [DOMAIN WithKey(children, c, Zero) -> Counter]
    BY <1>1, <2>3 DEF TypeOK, WithKey
  <2>5. /\ DOMAIN Incr(childLevel, c) \subseteq Pair
        /\ Incr(childLevel, c) \in [DOMAIN Incr(childLevel, c) -> Nat]
    <3>1. childLevel \in [DOMAIN childLevel -> Nat] /\ DOMAIN childLevel \subseteq Pair
      BY DEF TypeOK
    <3>2. /\ Incr(childLevel, c) \in [DOMAIN childLevel \cup {c} -> Nat]
          /\ DOMAIN Incr(childLevel, c) = DOMAIN childLevel \cup {c}
      BY <3>1, IncrLevel
    <3> QED
      BY <2>3, <3>1, <3>2
  <2> QED
    BY <1>3, <1>4, <1>6, <2>1, <2>2, <2>4, <2>5
<1> QED
  BY <1>5, <1>6

\* Every step keeps the types.
LEMMA TypeStep ==
    ASSUME TypeOK, [Next]_vars
    PROVE  TypeOK'
<1>0. stack \in Seq(Entry)
  BY DEF TypeOK, Entry
<1>1. ASSUME NEW p \in Pit, NEW f \in Frame, CallEnter(p, f)
      PROVE  TypeOK'
  <2>1. stack' \in Seq(Entry)
    <3>1. [pit |-> p, t0 |-> now] \in Entry
      BY DEF TypeOK, Entry
    <3> QED
      BY <1>0, <1>1, <3>1, AppendProperties DEF CallEnter
  <2>2. /\ DOMAIN pitLevel' \subseteq Pit
        /\ pitLevel' \in [DOMAIN pitLevel' -> Nat]
        /\ p \in DOMAIN pitLevel'
    <3>1. pitLevel \in [DOMAIN pitLevel -> Nat] /\ DOMAIN pitLevel \subseteq Pit
      BY DEF TypeOK
    <3>2. pitLevel' = Incr(pitLevel, p)
      BY <1>1 DEF CallEnter
    <3> QED
      <4>1. /\ pitLevel' \in [DOMAIN pitLevel \cup {p} -> Nat]
            /\ DOMAIN pitLevel' = DOMAIN pitLevel \cup {p}
        BY <3>1, <3>2, IncrLevel
      <4> QED
        BY <3>1, <4>1
  <2>3. Level(pitLevel', p) \in Int
    BY <2>2 DEF Level
  <2>4. /\ DOMAIN coroutines' \subseteq Pit \X AsyncFrame
        /\ coroutines' \in [DOMAIN coroutines' -> Nat]
    BY <1>1, <2>3, CoroutinesType DEF CallEnter
  <2>5. /\ DOMAIN pits' \subseteq Pit
        /\ pits' \in [DOMAIN pits' -> Counter]
        /\ DOMAIN children' \subseteq Pair
        /\ children' \in [DOMAIN children' -> Counter]
        /\ DOMAIN childLevel' \subseteq Pair
        /\ childLevel' \in [DOMAIN childLevel' -> Nat]
    BY <1>1, EnterTypes DEF CallEnter
  <2>6. /\ now' \in Nat /\ lastSeen' \in Nat /\ calls' \in Nat
        /\ outermost' \in [Pit -> [callcount: Nat, nonrec: Nat, tsub: Int]]
    BY <1>1 DEF CallEnter, TypeOK
  <2> QED
    BY <2>1, <2>2, <2>4, <2>5, <2>6 DEF TypeOK, Entry
<1>2. ASSUME NEW p \in Pit, CallEnterNoChild(p)
      PROVE  TypeOK'
  <2>1. /\ DOMAIN pits' \subseteq Pit
        /\ pits' \in [DOMAIN pits' -> Counter]
        /\ DOMAIN children' \subseteq Pair
        /\ children' \in [DOMAIN children' -> Counter]
        /\ DOMAIN childLevel' \subseteq Pair
        /\ childLevel' \in [DOMAIN childLevel' -> Nat]
    BY <1>2, EnterTypes DEF CallEnterNoChild, TypeOK
  <2>2. stack' = stack /\ pitLevel' = pitLevel /\ coroutines' = coroutines
        /\ now' = now /\ lastSeen' = lastSeen /\ outermost' = outermost
    BY <1>2 DEF CallEnterNoChild
  <2>3. calls' \in Nat
    <3>1. calls' = calls + 1
      BY <1>2 DEF CallEnterNoChild
    <3> QED
      BY <3>1 DEF TypeOK
  <2> QED
    BY <2>1, <2>2, <2>3 DEF TypeOK
<1>3. ASSUME NEW p \in Pit, CallEnterNoSlot(p)
      PROVE  TypeOK'
  <2>1. /\ DOMAIN pits' \subseteq Pit
        /\ pits' \in [DOMAIN pits' -> Counter]
        /\ DOMAIN children' \subseteq Pair
        /\ children' \in [DOMAIN children' -> Counter]
        /\ DOMAIN childLevel' \subseteq Pair
        /\ childLevel' \in [DOMAIN childLevel' -> Nat]
    BY <1>3, EnterTypes DEF CallEnterNoSlot, TypeOK
  <2>2. stack' = stack /\ pitLevel' = pitLevel /\ coroutines' = coroutines
        /\ now' = now /\ lastSeen' = lastSeen /\ outermost' = outermost
    BY <1>3 DEF CallEnterNoSlot
  <2>3. calls' \in Nat
    <3>1. calls' = calls + 1
      BY <1>3 DEF CallEnterNoSlot
    <3> QED
      BY <3>1 DEF TypeOK
  <2> QED
    BY <2>1, <2>2, <2>3 DEF TypeOK
<1>4. ASSUME NEW f \in Frame, NEW suspended \in BOOLEAN,
             LeaveUnseen(f, suspended)
      PROVE  TypeOK'
  BY <1>4 DEF LeaveUnseen, TypeOK, vars
<1>5. ASSUME NEW f \in Frame, NEW suspended \in BOOLEAN,
             LeaveOutermost(f, suspended)
      PROVE  TypeOK'
  <2> DEFINE cp == Top(stack).pit
             e == Elapsed(f, suspended)
             done == One(~suspended)
  <2>1. stack # <<>>
    <3>1. Len(stack) = 1
      BY <1>5 DEF LeaveOutermost
    <3>2. Len(<<>>) = 0
      BY EmptySeq
    <3> QED
      BY <3>1, <3>2
  <2>2. e \in Int /\ done \in Nat
    BY <2>1, ElapsedType DEF One
  <2>3. stack' \in Seq(Entry)
    BY <1>5, EmptySeq DEF LeaveOutermost
  <2>4. /\ DOMAIN coroutines' \subseteq Pit \X AsyncFrame
        /\ coroutines' \in [DOMAIN coroutines' -> Nat]
    BY <1>5, CoroutinesType DEF LeaveOutermost
  <2>5. /\ DOMAIN pitLevel' \subseteq Pit
        /\ pitLevel' \in [DOMAIN pitLevel' -> Nat]
    BY <1>5, DecrType DEF LeaveOutermost, TypeOK
  <2>6. DOMAIN pits' = DOMAIN pits /\ pits' \in [DOMAIN pits' -> Counter]
    <3> DEFINE new == [callcount |-> pits[cp].callcount + done,
                       nonrec    |-> pits[cp].nonrec + done,
                       tsub      |-> pits[cp].tsub + e,
                       ttotal    |-> pits[cp].ttotal + e]
    <3>1. pits' = [pits EXCEPT ![cp] = new]
      BY <1>5 DEF LeaveOutermost
    <3>2. cp \in DOMAIN pits => pits[cp] \in Counter
      BY DEF TypeOK
    <3> HIDE DEF cp, e, done
    <3>3. cp \in DOMAIN pits => new \in Counter
      BY <2>2, <3>2 DEF Counter
    <3> HIDE DEF new
    <3> QED
      BY <3>1, <3>3 DEF TypeOK
  <2>7. outermost' \in [Pit -> [callcount: Nat, nonrec: Nat, tsub: Int]]
    <3> DEFINE new == [callcount |-> outermost[cp].callcount + done,
                       nonrec    |-> outermost[cp].nonrec + done,
                       tsub      |-> outermost[cp].tsub + e]
    <3>1. outermost' = [outermost EXCEPT ![cp] = new]
      BY <1>5 DEF LeaveOutermost
    <3>2. outermost \in [Pit -> [callcount: Nat, nonrec: Nat, tsub: Int]]
      BY DEF TypeOK
    <3> HIDE DEF cp, e, done
    <3>3. cp \in Pit => new \in [callcount: Nat, nonrec: Nat, tsub: Int]
      BY <2>2, <3>2
    <3> HIDE DEF new
    <3> QED
      BY <3>1, <3>2, <3>3
  <2> QED
    BY <1>5, <2>3, <2>4, <2>5, <2>6, <2>7 DEF LeaveOutermost, TypeOK, Entry
<1>6. ASSUME NEW f \in Frame, NEW suspended \in BOOLEAN,
             LeaveToParent(f, suspended)
      PROVE  TypeOK'
  <2> DEFINE e == Elapsed(f, suspended)
             cp == stack[Len(stack)].pit
             pp == stack[Len(stack)-1].pit
             pci == <<pp, cp>>
             hasPpci == Len(stack) > 2
             ppci == IF hasPpci THEN <<stack[Len(stack)-2].pit, pp>> ELSE pci
             done == ~suspended
             outer == Level(pitLevel, cp) = 1
             outerPair == Level(childLevel, pci) = 1
  <2>1. stack # <<>>
    BY <1>6, EmptySeq DEF LeaveToParent
  <2>2. e \in Int
    BY <2>1, ElapsedType
  <2>3. stack' \in Seq(Entry)
    BY <1>0, <1>6, <2>1, PopStack DEF LeaveToParent, StackOnLeave
  <2>4. /\ DOMAIN coroutines' \subseteq Pit \X AsyncFrame
        /\ coroutines' \in [DOMAIN coroutines' -> Nat]
    BY <1>6, CoroutinesType DEF LeaveToParent
  <2>5. pitLevel' = Decr(pitLevel, cp) /\ childLevel' = Decr(childLevel, pci)
    BY <1>6 DEF LeaveToParent
  <2>6. /\ DOMAIN pitLevel' \subseteq Pit
        /\ pitLevel' \in [DOMAIN pitLevel' -> Nat]
        /\ DOMAIN childLevel' \subseteq Pair
        /\ childLevel' \in [DOMAIN childLevel' -> Nat]
    BY <2>5, DecrType DEF TypeOK
  <2>8. DOMAIN pits' = DOMAIN pits /\ pits' \in [DOMAIN pits' -> Counter]
    <3>1. pits' = [p \in DOMAIN pits |->
                [callcount |-> pits[p].callcount + One(p = cp /\ done),
                 nonrec    |-> pits[p].nonrec + One(p = cp /\ done /\ outer),
                 tsub      |-> pits[p].tsub + (IF p = cp THEN e ELSE 0)
                                            - (IF p = pp THEN e ELSE 0),
                 ttotal    |-> pits[p].ttotal
                                 + (IF p = cp /\ outer THEN e ELSE 0)]]
      BY <1>6 DEF LeaveToParent, PitsOnLeave
    <3> HIDE DEF e, cp, pp, pci, ppci, hasPpci, done, outer, outerPair
    <3>2. ASSUME NEW p \in DOMAIN pits
          PROVE  pits'[p] \in Counter
      <4>1. pits[p] \in Counter
        BY DEF TypeOK
      <4>2. /\ One(p = cp /\ done) \in Nat
            /\ One(p = cp /\ done /\ outer) \in Nat
        BY DEF One
      <4>3. /\ (IF p = cp THEN e ELSE 0) \in Int
            /\ (IF p = pp THEN e ELSE 0) \in Int
            /\ (IF p = cp /\ outer THEN e ELSE 0) \in Int
        BY <2>2
      <4> QED
        BY <3>1, <4>1, <4>2, <4>3 DEF Counter
    <3>3. DOMAIN pits' = DOMAIN pits /\ pits' = [p \in DOMAIN pits |-> pits'[p]]
      BY <3>1
    <3> QED
      BY <3>2, <3>3
  <2>9. DOMAIN children' = DOMAIN children /\ children' \in [DOMAIN children' -> Counter]
    <3>1. children' = [c \in DOMAIN children |->
                [callcount |-> children[c].callcount + One(c = pci /\ done),
                 nonrec    |-> children[c].nonrec
                                 + One(c = pci /\ done /\ outer),
                 tsub      |-> children[c].tsub + (IF c = pci THEN e ELSE 0)
                                 - (IF c = ppci /\ hasPpci THEN e ELSE 0),
                 ttotal    |-> children[c].ttotal
                                 + (IF c = pci /\ outerPair THEN e ELSE 0)]]
      BY <1>6 DEF LeaveToParent, ChildrenOnLeave
    <3> HIDE DEF e, pci, ppci, hasPpci, done, outer, outerPair
    <3> QED
      BY <2>2, <3>1 DEF TypeOK, Counter, One
  <2>10. outermost' \in [Pit -> [callcount: Nat, nonrec: Nat, tsub: Int]]
    <3>1. outermost' = IF hasPpci THEN outermost
                       ELSE [outermost EXCEPT ![pp].tsub = outermost[pp].tsub - e]
      BY <1>6 DEF LeaveToParent
    <3>2. outermost \in [Pit -> [callcount: Nat, nonrec: Nat, tsub: Int]]
      BY DEF TypeOK
    <3> DEFINE new == [outermost[pp] EXCEPT !.tsub = outermost[pp].tsub - e]
    <3>3. outermost' = IF hasPpci THEN outermost
                       ELSE [outermost EXCEPT ![pp] = new]
      BY <3>1
    <3> HIDE DEF e, cp, pp, pci, ppci, hasPpci, done, outer, outerPair
    <3>4. pp \in Pit => new \in [callcount: Nat, nonrec: Nat, tsub: Int]
      <4>1. SUFFICES ASSUME pp \in Pit
                     PROVE  new \in [callcount: Nat, nonrec: Nat, tsub: Int]
        OBVIOUS
      <4>2. outermost[pp] \in [callcount: Nat, nonrec: Nat, tsub: Int]
        BY <3>2, <4>1
      <4>3. outermost[pp].tsub - e \in Int
        BY <2>2, <4>2
      <4> QED
        BY <4>2, <4>3
    <3> HIDE DEF new
    <3> QED
      BY <3>2, <3>3, <3>4
  <2> QED
    BY <1>6, <2>3, <2>4, <2>6, <2>8, <2>9, <2>10 DEF LeaveToParent, TypeOK, Entry
<1>7. CASE Tick
  <2>1. now' = now + 1 /\ now \in Nat
    BY <1>7 DEF Tick, TypeOK
  <2>2. now' \in Nat
    BY <2>1
  <2>3. /\ stack' = stack /\ pits' = pits /\ children' = children
        /\ pitLevel' = pitLevel /\ childLevel' = childLevel
        /\ coroutines' = coroutines /\ lastSeen' = lastSeen
        /\ calls' = calls /\ outermost' = outermost
    BY <1>7 DEF Tick
  <2> QED
    BY <2>2, <2>3 DEF TypeOK
<1>8. CASE Enumerate
  <2>1. ASSUME NEW c \in Counter
        PROVE  Normalised(c) \in Counter
    <3> DEFINE count == IF c.callcount = 0 THEN 1 ELSE c.callcount
               sub == IF c.tsub < 0 THEN 0 ELSE c.tsub
    <3>1. count \in Nat /\ sub \in Int
      BY DEF Counter
    <3>2. Normalised(c) = [c EXCEPT !.callcount = count, !.tsub = sub]
      BY DEF Normalised
    <3> HIDE DEF count, sub
    <3> QED
      BY <3>1, <3>2 DEF Counter
  <2>2. /\ DOMAIN pits' = DOMAIN pits /\ pits' \in [DOMAIN pits' -> Counter]
        /\ DOMAIN children' = DOMAIN children
        /\ children' \in [DOMAIN children' -> Counter]
    BY <1>8, <2>1 DEF Enumerate, TypeOK
  <2> QED
    BY <1>8, <2>2 DEF Enumerate, TypeOK
<1>9. CASE UNCHANGED vars
  BY <1>9 DEF vars, TypeOK
<1> QED
  BY <1>1, <1>2, <1>3, <1>4, <1>5, <1>6, <1>7, <1>8, <1>9
  DEF Next, Event, CallLeave

\* The variables keep their types under any stream of events, any read of the
\* statistics and any failed allocation.
THEOREM TypeCorrect == Spec => []TypeOK
<1>1. Init => TypeOK
  BY TypeInit
<1>2. TypeOK /\ [Next]_vars => TypeOK'
  BY TypeStep
<1> QED
  BY <1>1, <1>2, PTL DEF Spec

-----------------------------------------------------------------------------
(* Recursion levels. *)

\* The inductive invariant of the recursion levels.
LevelInv == TypeOK /\ PitLevelsExact /\ PairLevelsCover /\ PairsRecorded

\* The activations of a function and of a pair are the places above.
LEMMA ActivationsAreOcc ==
    /\ \A p : Activations(p) = Occ(stack, p)
    /\ \A c : PairActivations(c) = PairOcc(stack, c)
    /\ \A p : Activations(p)' = Occ(stack', p)
    /\ \A c : PairActivations(c)' = PairOcc(stack', c)
BY DEF Activations, PairActivations, Occ, PairOcc

\* A new context has no activation and no level.
LEMMA LevelInit == Init => LevelInv
<1> SUFFICES ASSUME Init PROVE LevelInv
  OBVIOUS
<1>1. TypeOK
  BY TypeInit
<1>2. Len(stack) = 0
  BY EmptySeq DEF Init
<1>3. \A p : Activations(p) = {} /\ PairActivations(p) = {}
  BY <1>2 DEF Activations, PairActivations
<1>4. PitLevelsExact /\ PairLevelsCover
  BY <1>3 DEF Init, PitLevelsExact, PairLevelsCover
<1>5. PairsRecorded
  BY <1>2 DEF PairsRecorded
<1> QED
  BY <1>1, <1>4, <1>5 DEF LevelInv

\* One more place raises the number of places by one.
LEMMA OneMorePlace ==
    ASSUME NEW S, IsFiniteSet(S), NEW x, x \notin S
    PROVE  Cardinality(S \cup {x}) = Cardinality(S) + 1
BY FS_AddElement

\* Taking one place away lowers the number of places by one.
LEMMA OneLessPlace ==
    ASSUME NEW S, IsFiniteSet(S), NEW x \in S
    PROVE  Cardinality(S \ {x}) = Cardinality(S) - 1 /\ Cardinality(S) >= 1
<1>1. Cardinality(S \ {x}) = Cardinality(S) - 1
  BY FS_RemoveElement
<1>2. Cardinality(S) \in Nat /\ Cardinality(S) # 0
  BY FS_EmptySet, FS_CardinalityType
<1> QED
  BY <1>1, <1>2

\* A call event adds one activation of p and of its pair with the caller, and
\* raises the two levels.
LEMMA EnterLevels ==
    ASSUME LevelInv, NEW p \in Pit, NEW f \in Frame, CallEnter(p, f)
    PROVE  PitLevelsExact' /\ PairLevelsCover' /\ PairsRecorded'
<1> DEFINE x == [pit |-> p, t0 |-> now]
           c0 == <<Top(stack).pit, p>>
<1>1. stack \in Seq(Entry) /\ x \in Entry /\ x.pit = p
  BY DEF LevelInv, TypeOK, Entry
<1>2. stack' = Append(stack, x)
  BY DEF CallEnter
<1> HIDE DEF x
<1>3. /\ \A q \in Pit : Occ(stack', q) =
           IF q = p THEN Occ(stack, q) \cup {Len(stack) + 1} ELSE Occ(stack, q)
      /\ \A c \in Pair : PairOcc(stack', c) =
           IF stack # <<>> /\ c = c0
           THEN PairOcc(stack, c) \cup {Len(stack) + 1} ELSE PairOcc(stack, c)
      /\ \A q : Len(stack) + 1 \notin Occ(stack, q)
      /\ \A c : Len(stack) + 1 \notin PairOcc(stack, c)
  BY <1>1, <1>2, PushOcc
<1>4. /\ \A q : IsFiniteSet(Occ(stack, q)) /\ Cardinality(Occ(stack, q)) \in Nat
      /\ \A c : IsFiniteSet(PairOcc(stack, c)) /\ Cardinality(PairOcc(stack, c)) \in Nat
  BY <1>1, OccFinite
<1>5. /\ pitLevel' = Incr(pitLevel, p)
      /\ pitLevel \in [DOMAIN pitLevel -> Nat]
      /\ childLevel \in [DOMAIN childLevel -> Nat]
  BY DEF CallEnter, LevelInv, TypeOK
<1>6. /\ DOMAIN pitLevel' = DOMAIN pitLevel \cup {p}
      /\ \A q \in DOMAIN pitLevel : q # p => pitLevel'[q] = pitLevel[q]
      /\ pitLevel'[p] = IF p \in DOMAIN pitLevel THEN pitLevel[p] + 1 ELSE 1
  BY <1>5, IncrLevel
<1>7. PitLevelsExact'
  <2> SUFFICES ASSUME NEW q \in Pit
               PROVE  /\ q \in DOMAIN pitLevel' =>
                           pitLevel'[q] = Cardinality(Occ(stack', q))
                      /\ q \notin DOMAIN pitLevel' => Occ(stack', q) = {}
    BY ActivationsAreOcc DEF PitLevelsExact
  <2>1. /\ q \in DOMAIN pitLevel => pitLevel[q] = Cardinality(Occ(stack, q))
        /\ q \notin DOMAIN pitLevel => Occ(stack, q) = {}
    BY ActivationsAreOcc DEF LevelInv, PitLevelsExact
  <2>2. CASE q = p
    <3>1. Occ(stack', q) = Occ(stack, q) \cup {Len(stack) + 1}
      BY <1>3, <2>2
    <3>2. Cardinality(Occ(stack', q)) = Cardinality(Occ(stack, q)) + 1
      BY <1>3, <1>4, <3>1, OneMorePlace
    <3>3. q \notin DOMAIN pitLevel => Cardinality(Occ(stack, q)) = 0
      BY <2>1, FS_EmptySet
    <3> QED
      BY <1>6, <2>1, <2>2, <3>2, <3>3
  <2>3. CASE q # p
    BY <1>3, <1>6, <2>1, <2>3
  <2> QED
    BY <2>2, <2>3
<1>8. PairLevelsCover'
  <2> SUFFICES ASSUME NEW c \in Pair
               PROVE  /\ c \in DOMAIN childLevel' =>
                           /\ childLevel'[c] >= Cardinality(PairOcc(stack', c))
                           /\ "slot" \notin MayFail =>
                                childLevel'[c] = Cardinality(PairOcc(stack', c))
                      /\ c \notin DOMAIN childLevel' => PairOcc(stack', c) = {}
    BY ActivationsAreOcc DEF PairLevelsCover
  <2>1. /\ c \in DOMAIN childLevel =>
             /\ childLevel[c] >= Cardinality(PairOcc(stack, c))
             /\ "slot" \notin MayFail =>
                  childLevel[c] = Cardinality(PairOcc(stack, c))
        /\ c \notin DOMAIN childLevel => PairOcc(stack, c) = {}
    BY ActivationsAreOcc DEF LevelInv, PairLevelsCover
  <2>2. CASE stack = <<>>
    <3>1. childLevel' = childLevel
      BY <2>2 DEF CallEnter, ChildLevelOnEntry
    <3>2. PairOcc(stack', c) = PairOcc(stack, c)
      BY <1>3, <2>2
    <3> QED
      BY <2>1, <3>1, <3>2
  <2>3. CASE stack # <<>>
    <3>1. childLevel' = Incr(childLevel, c0)
      BY <2>3 DEF CallEnter, ChildLevelOnEntry
    <3> HIDE DEF c0
    <3>2. /\ DOMAIN childLevel' = DOMAIN childLevel \cup {c0}
          /\ \A d \in DOMAIN childLevel : d # c0 => childLevel'[d] = childLevel[d]
          /\ childLevel'[c0] = IF c0 \in DOMAIN childLevel
                               THEN childLevel[c0] + 1 ELSE 1
      BY <1>5, <3>1, IncrLevel
    <3>3. CASE c = c0
      <4>1. PairOcc(stack', c) = PairOcc(stack, c) \cup {Len(stack) + 1}
        BY <1>3, <2>3, <3>3
      <4>2. Cardinality(PairOcc(stack', c)) = Cardinality(PairOcc(stack, c)) + 1
        BY <1>3, <1>4, <4>1, OneMorePlace
      <4>3. c \notin DOMAIN childLevel => Cardinality(PairOcc(stack, c)) = 0
        BY <2>1, FS_EmptySet
      <4>4. c \in DOMAIN childLevel => childLevel[c] \in Nat
        BY <1>5
      <4>5. Cardinality(PairOcc(stack, c)) \in Nat
        BY <1>4
      <4> QED
        BY <2>1, <3>2, <3>3, <4>2, <4>3, <4>4, <4>5
    <3>4. CASE c # c0
      BY <1>3, <2>1, <3>2, <3>4
    <3> QED
      BY <3>3, <3>4
  <2> QED
    BY <2>2, <2>3
<1>9. PairsRecorded'
  <2>1. /\ Len(stack) \in Nat
        /\ Len(stack') = Len(stack) + 1
        /\ \A i \in 1..Len(stack) : stack'[i] = stack[i]
        /\ stack'[Len(stack) + 1].pit = p
    BY <1>1, <1>2, AppendProperties, LenProperties
  <2>2. /\ DOMAIN pits' = DOMAIN pits \cup {p}
        /\ DOMAIN children \subseteq DOMAIN children'
        /\ DOMAIN childLevel \subseteq DOMAIN childLevel'
    <3>1. DOMAIN pits' = DOMAIN pits \cup {p}
      BY DEF CallEnter, WithKey
    <3>2. DOMAIN children \subseteq DOMAIN children'
      BY DEF CallEnter, ChildrenOnEntry, WithKey
    <3>3. DOMAIN childLevel \subseteq DOMAIN childLevel'
      BY <1>5, IncrLevel DEF CallEnter, ChildLevelOnEntry
    <3> QED
      BY <3>1, <3>2, <3>3
  <2>3. stack # <<>> => c0 \in DOMAIN children' \cap DOMAIN childLevel'
    <3>1. stack # <<>> => c0 \in DOMAIN children'
      BY DEF CallEnter, ChildrenOnEntry, WithKey
    <3>2. stack # <<>> => c0 \in DOMAIN childLevel'
      <4>1. stack # <<>> => childLevel' = Incr(childLevel, c0)
        BY DEF CallEnter, ChildLevelOnEntry
      <4> HIDE DEF c0
      <4>2. DOMAIN Incr(childLevel, c0) = DOMAIN childLevel \cup {c0}
        BY <1>5, IncrLevel
      <4> QED
        BY <4>1, <4>2
    <3> QED
      BY <3>1, <3>2
  <2>4. ASSUME NEW i \in 1..Len(stack')
        PROVE  stack'[i].pit \in DOMAIN pits' \cap DOMAIN pitLevel'
    BY <1>6, <2>1, <2>2 DEF LevelInv, PairsRecorded
  <2>5. ASSUME NEW i \in 2..Len(stack')
        PROVE  <<stack'[i-1].pit, stack'[i].pit>>
                 \in DOMAIN children' \cap DOMAIN childLevel'
    <3>1. CASE i = Len(stack) + 1
      <4>1. stack # <<>> /\ i - 1 = Len(stack) /\ i - 1 \in 1..Len(stack)
        BY <2>1, <3>1, EmptySeq
      <4>2. stack'[i-1] = Top(stack)
        BY <2>1, <4>1 DEF Top
      <4> QED
        BY <2>1, <2>3, <3>1, <4>1, <4>2
    <3>2. CASE i # Len(stack) + 1
      <4>1. i \in 2..Len(stack) /\ i \in 1..Len(stack) /\ i - 1 \in 1..Len(stack)
        BY <2>1, <3>2
      <4>2. stack'[i] = stack[i] /\ stack'[i-1] = stack[i-1]
        BY <2>1, <4>1
      <4>3. <<stack[i-1].pit, stack[i].pit>> \in DOMAIN children \cap DOMAIN childLevel
        BY <4>1 DEF LevelInv, PairsRecorded
      <4> QED
        BY <2>2, <4>2, <4>3
    <3> QED
      BY <3>1, <3>2
  <2> QED
    BY <2>4, <2>5 DEF PairsRecorded
<1> QED
  BY <1>7, <1>8, <1>9

\* A return event takes the top of the stack away and lowers the two levels.
LEMMA LeaveLevels ==
    ASSUME LevelInv, stack # <<>>,
           stack' = Pop(stack),
           pitLevel' = Decr(pitLevel, Top(stack).pit),
           childLevel' =
             IF Len(stack) > 1
             THEN Decr(childLevel, <<stack[Len(stack)-1].pit, Top(stack).pit>>)
             ELSE childLevel,
           DOMAIN pits' = DOMAIN pits,
           DOMAIN children' = DOMAIN children
    PROVE  PitLevelsExact' /\ PairLevelsCover' /\ PairsRecorded'
<1> DEFINE n == Len(stack)
           cp == Top(stack).pit
           pci == <<stack[n-1].pit, cp>>
<1>1. /\ stack \in Seq(Entry)
      /\ pitLevel \in [DOMAIN pitLevel -> Nat]
      /\ childLevel \in [DOMAIN childLevel -> Nat]
  BY DEF LevelInv, TypeOK, Entry
<1>2. /\ n \in Nat \ {0}
      /\ Len(stack') = n - 1
      /\ \A i \in 1..(n-1) : stack'[i] = stack[i]
      /\ cp = stack[n].pit
      /\ cp \in Pit
  BY <1>1, PopStack, TopEntry DEF Top
<1>3. n > 1 => pci \in Pair
  <2>1. n > 1 => n - 1 \in 1..Len(stack)
    BY <1>2
  <2>2. n > 1 => stack[n-1].pit \in Pit
    BY <1>1, <2>1, TopEntry
  <2> QED
    BY <1>2, <2>2 DEF Pair
<1>4. /\ \A q \in Pit : Occ(stack', q) =
           IF q = cp THEN Occ(stack, q) \ {n} ELSE Occ(stack, q)
      /\ \A c \in Pair : PairOcc(stack', c) =
           IF n > 1 /\ c = pci THEN PairOcc(stack, c) \ {n} ELSE PairOcc(stack, c)
      /\ n \in Occ(stack, cp)
      /\ n > 1 => n \in PairOcc(stack, pci)
  BY <1>1, PopOcc
<1>5. /\ \A q : IsFiniteSet(Occ(stack, q))
      /\ \A c : IsFiniteSet(PairOcc(stack, c))
      /\ \A c : Cardinality(PairOcc(stack, c)) \in Nat
  BY <1>1, OccFinite
<1> HIDE DEF n, cp, pci
<1>6. /\ cp \in DOMAIN pitLevel
      /\ pitLevel[cp] = Cardinality(Occ(stack, cp))
      /\ pitLevel[cp] > 0
      /\ Cardinality(Occ(stack, cp) \ {n}) = pitLevel[cp] - 1
  <2>1. cp \in DOMAIN pitLevel /\ pitLevel[cp] = Cardinality(Occ(stack, cp))
    BY <1>2, <1>4, ActivationsAreOcc DEF LevelInv, PitLevelsExact
  <2>2. /\ Cardinality(Occ(stack, cp) \ {n}) = Cardinality(Occ(stack, cp)) - 1
        /\ Cardinality(Occ(stack, cp)) >= 1
    BY <1>4, <1>5, OneLessPlace
  <2> QED
    BY <1>1, <2>1, <2>2
<1>7. /\ DOMAIN pitLevel' = DOMAIN pitLevel
      /\ \A q \in DOMAIN pitLevel : q # cp => pitLevel'[q] = pitLevel[q]
      /\ pitLevel'[cp] = pitLevel[cp] - 1
  <2>1. pitLevel' = Decr(pitLevel, cp)
    BY DEF cp
  <2> QED
    BY <1>1, <1>6, <2>1, DecrLevel
<1>8. PitLevelsExact'
  <2> SUFFICES ASSUME NEW q \in Pit
               PROVE  /\ q \in DOMAIN pitLevel' =>
                           pitLevel'[q] = Cardinality(Occ(stack', q))
                      /\ q \notin DOMAIN pitLevel' => Occ(stack', q) = {}
    BY ActivationsAreOcc DEF PitLevelsExact
  <2>1. /\ q \in DOMAIN pitLevel => pitLevel[q] = Cardinality(Occ(stack, q))
        /\ q \notin DOMAIN pitLevel => Occ(stack, q) = {}
    BY ActivationsAreOcc DEF LevelInv, PitLevelsExact
  <2>2. CASE q = cp
    BY <1>4, <1>6, <1>7, <2>2
  <2>3. CASE q # cp
    BY <1>4, <1>7, <2>1, <2>3
  <2> QED
    BY <2>2, <2>3
<1>9. n > 1 => /\ pci \in DOMAIN childLevel
               /\ childLevel[pci] >= Cardinality(PairOcc(stack, pci))
               /\ "slot" \notin MayFail =>
                    childLevel[pci] = Cardinality(PairOcc(stack, pci))
               /\ childLevel[pci] > 0
               /\ Cardinality(PairOcc(stack, pci) \ {n})
                    = Cardinality(PairOcc(stack, pci)) - 1
  <2> SUFFICES ASSUME n > 1
               PROVE  /\ pci \in DOMAIN childLevel
                      /\ childLevel[pci] >= Cardinality(PairOcc(stack, pci))
                      /\ "slot" \notin MayFail =>
                           childLevel[pci] = Cardinality(PairOcc(stack, pci))
                      /\ childLevel[pci] > 0
                      /\ Cardinality(PairOcc(stack, pci) \ {n})
                           = Cardinality(PairOcc(stack, pci)) - 1
    OBVIOUS
  <2>1. /\ pci \in DOMAIN childLevel
        /\ childLevel[pci] >= Cardinality(PairOcc(stack, pci))
        /\ "slot" \notin MayFail =>
             childLevel[pci] = Cardinality(PairOcc(stack, pci))
    BY <1>3, <1>4, ActivationsAreOcc DEF LevelInv, PairLevelsCover
  <2>2. /\ Cardinality(PairOcc(stack, pci) \ {n})
             = Cardinality(PairOcc(stack, pci)) - 1
        /\ Cardinality(PairOcc(stack, pci)) >= 1
    BY <1>4, <1>5, OneLessPlace
  <2>3. childLevel[pci] \in Nat /\ Cardinality(PairOcc(stack, pci)) \in Nat
    BY <1>1, <1>5, <2>1
  <2> QED
    BY <2>1, <2>2, <2>3
<1>10. /\ DOMAIN childLevel' = DOMAIN childLevel
       /\ \A c \in DOMAIN childLevel :
            childLevel'[c] = IF n > 1 /\ c = pci THEN childLevel[c] - 1
                             ELSE childLevel[c]
  <2>1. CASE n > 1
    <3>1. childLevel' = Decr(childLevel, pci)
      BY <2>1 DEF n, pci, cp
    <3> QED
      BY <1>1, <1>9, <2>1, <3>1, DecrLevel
  <2>2. CASE ~(n > 1)
    BY <2>2 DEF n
  <2> QED
    BY <2>1, <2>2
<1>11. PairLevelsCover'
  <2> SUFFICES ASSUME NEW c \in Pair
               PROVE  /\ c \in DOMAIN childLevel' =>
                           /\ childLevel'[c] >= Cardinality(PairOcc(stack', c))
                           /\ "slot" \notin MayFail =>
                                childLevel'[c] = Cardinality(PairOcc(stack', c))
                      /\ c \notin DOMAIN childLevel' => PairOcc(stack', c) = {}
    BY ActivationsAreOcc DEF PairLevelsCover
  <2>1. /\ c \in DOMAIN childLevel =>
             /\ childLevel[c] >= Cardinality(PairOcc(stack, c))
             /\ "slot" \notin MayFail =>
                  childLevel[c] = Cardinality(PairOcc(stack, c))
        /\ c \notin DOMAIN childLevel => PairOcc(stack, c) = {}
    BY ActivationsAreOcc DEF LevelInv, PairLevelsCover
  <2>2. CASE n > 1 /\ c = pci
    <3>1. childLevel[c] \in Nat /\ Cardinality(PairOcc(stack, c)) \in Nat
      BY <1>1, <1>5, <1>9, <2>2
    <3>2. Cardinality(PairOcc(stack', c)) = Cardinality(PairOcc(stack, c)) - 1
      BY <1>4, <1>9, <2>2
    <3>3. c \in DOMAIN childLevel' /\ childLevel'[c] = childLevel[c] - 1
      BY <1>9, <1>10, <2>2
    <3> QED
      BY <2>1, <1>10, <3>1, <3>2, <3>3
  <2>3. CASE ~(n > 1 /\ c = pci)
    BY <1>4, <1>10, <2>1, <2>3
  <2> QED
    BY <2>2, <2>3
<1>12. PairsRecorded'
  <2>1. ASSUME NEW i \in 1..Len(stack')
        PROVE  stack'[i].pit \in DOMAIN pits' \cap DOMAIN pitLevel'
    <3>1. i \in 1..(n-1) /\ i \in 1..Len(stack)
      BY <1>2 DEF n
    <3> QED
      BY <1>2, <1>7, <3>1 DEF LevelInv, PairsRecorded
  <2>2. ASSUME NEW i \in 2..Len(stack')
        PROVE  <<stack'[i-1].pit, stack'[i].pit>>
                 \in DOMAIN children' \cap DOMAIN childLevel'
    <3>1. i \in 1..(n-1) /\ i - 1 \in 1..(n-1) /\ i \in 2..Len(stack)
      BY <1>2 DEF n
    <3>2. stack'[i] = stack[i] /\ stack'[i-1] = stack[i-1]
      BY <1>2, <3>1
    <3>3. <<stack[i-1].pit, stack[i].pit>> \in DOMAIN children \cap DOMAIN childLevel
      BY <3>1 DEF LevelInv, PairsRecorded
    <3> QED
      BY <1>10, <3>2, <3>3
  <2> QED
    BY <2>1, <2>2 DEF PairsRecorded
<1> QED
  BY <1>8, <1>11, <1>12

\* A step that touches neither the stack nor the levels keeps them right.
LEMMA LevelsKept ==
    ASSUME LevelInv, TypeOK',
           stack' = stack, pitLevel' = pitLevel, childLevel' = childLevel,
           DOMAIN pits \subseteq DOMAIN pits',
           DOMAIN children \subseteq DOMAIN children'
    PROVE  LevelInv'
<1>1. /\ \A p : Activations(p)' = Activations(p)
      /\ \A c : PairActivations(c)' = PairActivations(c)
  BY ActivationsAreOcc
<1>2. PitLevelsExact'
  BY <1>1 DEF LevelInv, PitLevelsExact
<1>3. PairLevelsCover'
  BY <1>1 DEF LevelInv, PairLevelsCover
<1>4. PairsRecorded'
  BY DEF LevelInv, PairsRecorded
<1> QED
  BY <1>2, <1>3, <1>4 DEF LevelInv

\* Every step keeps the levels right.
LEMMA LevelStep ==
    ASSUME LevelInv, [Next]_vars
    PROVE  LevelInv'
<1>1. TypeOK /\ TypeOK'
  BY TypeStep DEF LevelInv
<1>2. ASSUME NEW p \in Pit, NEW f \in Frame, CallEnter(p, f)
      PROVE  LevelInv'
  BY <1>1, <1>2, EnterLevels DEF LevelInv
<1>3. ASSUME NEW p \in Pit, CallEnterNoChild(p)
      PROVE  LevelInv'
  <2>1. /\ stack' = stack /\ children' = children
        /\ pitLevel' = pitLevel /\ childLevel' = childLevel
    BY <1>3 DEF CallEnterNoChild
  <2>2. DOMAIN pits \subseteq DOMAIN pits'
    BY <1>3 DEF CallEnterNoChild, WithKey
  <2> QED
    BY <1>1, <2>1, <2>2, LevelsKept
<1>4. ASSUME NEW p \in Pit, CallEnterNoSlot(p)
      PROVE  LevelInv'
  <2> DEFINE c0 == <<Top(stack).pit, p>>
  <2>1. /\ stack' = stack /\ pitLevel' = pitLevel /\ "slot" \in MayFail
        /\ DOMAIN pits \subseteq DOMAIN pits'
        /\ DOMAIN children \subseteq DOMAIN children'
        /\ childLevel' = Incr(childLevel, c0)
    BY <1>4 DEF CallEnterNoSlot, WithKey, ChildrenOnEntry, ChildLevelOnEntry
  <2>2. childLevel \in [DOMAIN childLevel -> Nat]
    BY <1>1 DEF TypeOK
  <2>3. stack \in Seq(Entry)
    BY <1>1 DEF TypeOK, Entry
  <2>4. \A c : Cardinality(PairOcc(stack, c)) \in Nat
    BY <2>3, OccFinite
  <2> HIDE DEF c0
  <2>5. /\ DOMAIN childLevel' = DOMAIN childLevel \cup {c0}
        /\ \A c \in DOMAIN childLevel : c # c0 => childLevel'[c] = childLevel[c]
        /\ childLevel'[c0] = IF c0 \in DOMAIN childLevel
                             THEN childLevel[c0] + 1 ELSE 1
    <3>1. /\ DOMAIN Incr(childLevel, c0) = DOMAIN childLevel \cup {c0}
          /\ \A c \in DOMAIN childLevel :
               c # c0 => Incr(childLevel, c0)[c] = childLevel[c]
          /\ Incr(childLevel, c0)[c0] =
               IF c0 \in DOMAIN childLevel THEN childLevel[c0] + 1 ELSE 1
      BY <2>2, IncrLevel
    <3> QED
      BY <2>1, <3>1
  <2>6. PairLevelsCover'
    <3> SUFFICES ASSUME NEW c \in Pair
                 PROVE  /\ c \in DOMAIN childLevel' =>
                             childLevel'[c] >= Cardinality(PairOcc(stack, c))
                        /\ c \notin DOMAIN childLevel' => PairOcc(stack, c) = {}
      BY <2>1, ActivationsAreOcc DEF PairLevelsCover
    <3>1. /\ c \in DOMAIN childLevel =>
               childLevel[c] >= Cardinality(PairOcc(stack, c))
          /\ c \notin DOMAIN childLevel => PairOcc(stack, c) = {}
      BY ActivationsAreOcc DEF LevelInv, PairLevelsCover
    <3>2. c \notin DOMAIN childLevel => Cardinality(PairOcc(stack, c)) = 0
      BY <3>1, FS_EmptySet
    <3>3. c \in DOMAIN childLevel => childLevel[c] \in Nat
      BY <2>2
    <3>4. Cardinality(PairOcc(stack, c)) \in Nat
      BY <2>4
    <3> QED
      BY <2>5, <3>1, <3>2, <3>3, <3>4
  <2>7. PitLevelsExact'
    BY <2>1 DEF LevelInv, PitLevelsExact, Activations
  <2>8. PairsRecorded'
    BY <2>1, <2>5 DEF LevelInv, PairsRecorded
  <2> QED
    BY <1>1, <2>6, <2>7, <2>8 DEF LevelInv
<1>5. ASSUME NEW f \in Frame, NEW suspended \in BOOLEAN,
             LeaveUnseen(f, suspended)
      PROVE  LevelInv'
  BY <1>1, <1>5, LevelsKept DEF LeaveUnseen, vars
<1>6. ASSUME NEW f \in Frame, NEW suspended \in BOOLEAN,
             LeaveOutermost(f, suspended)
      PROVE  LevelInv'
  <2>1. Len(stack) = 1 /\ stack' = <<>>
    BY <1>6 DEF LeaveOutermost
  <2>2. stack # <<>> /\ stack \in Seq(Entry)
    <3>1. stack \in Seq(Entry)
      BY <1>1 DEF TypeOK, Entry
    <3> QED
      BY <2>1, <3>1, EmptySeq
  <2>3. Pop(stack) = <<>>
    BY <2>1, SubSeqEmpty DEF Pop
  <2>4. pitLevel' = Decr(pitLevel, Top(stack).pit) /\ childLevel' = childLevel
    BY <1>6 DEF LeaveOutermost
  <2>5. DOMAIN pits' = DOMAIN pits /\ children' = children
    BY <1>6 DEF LeaveOutermost
  <2> QED
    BY <1>1, <2>1, <2>2, <2>3, <2>4, <2>5, LeaveLevels DEF LevelInv
<1>7. ASSUME NEW f \in Frame, NEW suspended \in BOOLEAN,
             LeaveToParent(f, suspended)
      PROVE  LevelInv'
  <2>1. Len(stack) > 1 /\ stack' = Pop(stack)
    BY <1>7 DEF LeaveToParent, StackOnLeave
  <2>2. stack # <<>>
    <3>1. ~(0 > 1)
      OBVIOUS
    <3> QED
      BY <2>1, <3>1, EmptySeq
  <2>3. /\ pitLevel' = Decr(pitLevel, Top(stack).pit)
        /\ childLevel' =
             Decr(childLevel, <<stack[Len(stack)-1].pit, Top(stack).pit>>)
    BY <1>7 DEF LeaveToParent, Top
  <2>4. DOMAIN pits' = DOMAIN pits /\ DOMAIN children' = DOMAIN children
    BY <1>7 DEF LeaveToParent, PitsOnLeave, ChildrenOnLeave
  <2> QED
    BY <1>1, <2>1, <2>2, <2>3, <2>4, LeaveLevels DEF LevelInv
<1>8. CASE Tick
  BY <1>1, <1>8, LevelsKept DEF Tick
<1>9. CASE Enumerate
  <2>1. DOMAIN pits' = DOMAIN pits /\ DOMAIN children' = DOMAIN children
    BY <1>9 DEF Enumerate
  <2>2. stack' = stack /\ pitLevel' = pitLevel /\ childLevel' = childLevel
    BY <1>9 DEF Enumerate
  <2> QED
    BY <1>1, <2>1, <2>2, LevelsKept
<1>10. CASE UNCHANGED vars
  BY <1>1, <1>10, LevelsKept DEF vars
<1> QED
  BY <1>2, <1>3, <1>4, <1>5, <1>6, <1>7, <1>8, <1>9, <1>10
  DEF Next, Event, CallLeave

\* The recursion levels of functions are right under any stream of call and
\* return events, matched or not, with failed allocations and the statistics read
\* at any time.
THEOREM LevelsCorrect == Spec => []PitLevelsExact
<1>1. Init => LevelInv
  BY LevelInit
<1>2. LevelInv /\ [Next]_vars => LevelInv'
  BY LevelStep
<1>3. LevelInv => PitLevelsExact
  BY DEF LevelInv
<1> QED
  BY <1>1, <1>2, <1>3, PTL DEF Spec

\* The level of a caller/callee pair never falls below the number of times the
\* pair is on the stack, and is that number unless a push on the stack can fail.
THEOREM PairLevelsCorrect == Spec => []PairLevelsCover
<1>1. Init => LevelInv
  BY LevelInit
<1>2. LevelInv /\ [Next]_vars => LevelInv'
  BY LevelStep
<1>3. LevelInv => PairLevelsCover
  BY DEF LevelInv
<1> QED
  BY <1>1, <1>2, <1>3, PTL DEF Spec

\* The defensive exits of _call_leave and the level helpers (errors 1, 3, 6
\* and 7) are never taken.
THEOREM ErrorExitsUnreachable == Spec => []PairsRecorded
<1>1. Init => LevelInv
  BY LevelInit
<1>2. LevelInv /\ [Next]_vars => LevelInv'
  BY LevelStep
<1>3. LevelInv => PairsRecorded
  BY DEF LevelInv
<1> QED
  BY <1>1, <1>2, <1>3, PTL DEF Spec
-----------------------------------------------------------------------------
(* Cumulative times. *)

HasLowest(O) == O # {} => \E m \in O : \A j \in O : m <= j

\* For how long the function, or the pair, at the places O of stack s has been
\* running.
RunningAt(s, O, time) == IF O = {} THEN 0 ELSE time - s[LowestOf(O)].t0

\* A record with this cumulative time has counted nothing twice.
Timely(s, O, total, time) ==
    /\ HasLowest(O)
    /\ total \in Nat
    /\ total + RunningAt(s, O, time) <= time

EnteredBefore(s, time) == \A i \in 1..Len(s) : s[i].t0 <= time

\* The lowest place is the lowest, whichever CHOOSE picks.
LEMMA LowestIs ==
    ASSUME NEW O \in SUBSET Nat, NEW m \in O, \A j \in O : m <= j
    PROVE  LowestOf(O) = m
<1>1. LowestOf(O) \in O /\ \A j \in O : LowestOf(O) <= j
  BY DEF LowestOf
<1>2. LowestOf(O) <= m /\ m <= LowestOf(O)
  BY <1>1
<1>3. LowestOf(O) \in Nat /\ m \in Nat
  BY <1>1
<1> QED
  BY <1>2, <1>3

LEMMA RunningTime ==
    ASSUME NEW s \in Seq(Entry), NEW O \in SUBSET (1..Len(s)), NEW time \in Nat,
           EnteredBefore(s, time), HasLowest(O)
    PROVE  RunningAt(s, O, time) \in 0..time
<1>1. CASE O = {}
  BY <1>1 DEF RunningAt
<1>2. CASE O # {}
  <2>1. PICK m \in O : \A j \in O : m <= j
    BY <1>2 DEF HasLowest
  <2>2. LowestOf(O) = m
    <3>1. O \in SUBSET Nat
      OBVIOUS
    <3> QED
      BY <2>1, <3>1, LowestIs
  <2>3. s[m].t0 \in Nat /\ s[m].t0 <= time
    <3>1. s # <<>>
      BY EmptySeq
    <3> QED
      BY <3>1, TopEntry DEF EnteredBefore
  <2> QED
    BY <1>2, <2>2, <2>3 DEF RunningAt
<1> QED
  BY <1>1, <1>2

\* A call that begins counts from now; one that goes on counts as before.
LEMMA RunPush ==
    ASSUME NEW s \in Seq(Entry), NEW x \in Entry, NEW O \in SUBSET (1..Len(s)),
           NEW time \in Nat, x.t0 = time, HasLowest(O)
    PROVE  /\ RunningAt(Append(s, x), O, time) = RunningAt(s, O, time)
           /\ HasLowest(O \cup {Len(s) + 1})
           /\ RunningAt(Append(s, x), O \cup {Len(s) + 1}, time) = RunningAt(s, O, time)
<1> DEFINE n == Len(s)
           t == Append(s, x)
           O1 == O \cup {n + 1}
<1>1. n \in Nat /\ t[n+1] = x /\ \A i \in 1..n : t[i] = s[i]
  BY AppendProperties, LenProperties
<1>2. O \subseteq 1..n
  OBVIOUS
<1> HIDE DEF n, t
<1>3. CASE O = {}
  <2>1. O1 = {n + 1} /\ O1 \in SUBSET Nat
    BY <1>1, <1>3
  <2>2. HasLowest(O1) /\ LowestOf(O1) = n + 1
    <3>1. n + 1 \in O1 /\ \A j \in O1 : n + 1 <= j
      BY <1>1, <2>1
    <3> QED
      BY <2>1, <3>1, LowestIs DEF HasLowest
  <2>3. RunningAt(t, O1, time) = 0
    BY <1>1, <2>1, <2>2 DEF RunningAt
  <2>4. RunningAt(t, O, time) = RunningAt(s, O, time) /\ RunningAt(s, O, time) = 0
    BY <1>3 DEF RunningAt
  <2> HIDE DEF O1
  <2> QED
    BY <2>2, <2>3, <2>4 DEF n, t, O1
<1>4. CASE O # {}
  <2>1. PICK m \in O : \A j \in O : m <= j
    BY <1>4 DEF HasLowest
  <2>2. O \in SUBSET Nat /\ O1 \in SUBSET Nat /\ m \in O1 /\ m <= n + 1 /\ m \in 1..n
    BY <1>1, <1>2
  <2>3. \A j \in O1 : m <= j
    BY <2>1, <2>2
  <2>4. LowestOf(O) = m /\ LowestOf(O1) = m
    <3> HIDE DEF O1
    <3> QED
      BY <2>1, <2>2, <2>3, LowestIs
  <2>5. HasLowest(O1)
    BY <2>2, <2>3 DEF HasLowest
  <2>6. t[m] = s[m]
    BY <1>1, <2>2
  <2>7. O1 # {}
    OBVIOUS
  <2> HIDE DEF O1
  <2>8. /\ RunningAt(t, O1, time) = RunningAt(s, O, time)
        /\ RunningAt(t, O, time) = RunningAt(s, O, time)
    BY <1>4, <2>4, <2>6, <2>7 DEF RunningAt
  <2> QED
    BY <2>5, <2>8 DEF n, t, O1
<1> QED
  BY <1>3, <1>4

\* When the only call of a function ends none is running; when another one ends,
\* the outermost runs on.
LEMMA RunPop ==
    ASSUME NEW s \in Seq(Entry), s # <<>>, NEW O \in SUBSET (1..Len(s)),
           NEW time \in Nat, EnteredBefore(s, time), HasLowest(O)
    PROVE  /\ HasLowest(O \ {Len(s)})
           /\ RunningAt(Pop(s), O \ {Len(s)}, time)
                = RunningAt(s, O, time) - (IF O = {Len(s)} THEN time - Top(s).t0 ELSE 0)
<1> DEFINE n == Len(s)
           t == Pop(s)
           O1 == O \ {n}
<1>1. n \in Nat \ {0} /\ \A i \in 1..(n-1) : t[i] = s[i]
  BY PopStack
<1>2. O \in SUBSET Nat /\ O \subseteq 1..n
  BY <1>1
<1>3. RunningAt(s, O, time) \in 0..time
  BY RunningTime
<1>5. Top(s) = s[n]
  BY DEF Top
<1> HIDE DEF n, t
<1>6. CASE O1 = {}
  <2>1. HasLowest(O1) /\ RunningAt(t, O1, time) = 0
    BY <1>6 DEF HasLowest, RunningAt
  <2>2. CASE O = {n}
    <3>1. LowestOf(O) = n
      BY <1>2, <2>2, LowestIs
    <3>2. RunningAt(s, O, time) = time - Top(s).t0
      BY <1>5, <2>2, <3>1 DEF RunningAt
    <3> HIDE DEF O1
    <3> QED
      BY <1>3, <2>1, <2>2, <3>2 DEF n, t, O1
  <2>3. CASE O # {n}
    <3>1. O = {}
      BY <1>6, <2>3
    <3>2. RunningAt(s, O, time) = 0
      BY <3>1 DEF RunningAt
    <3> HIDE DEF O1
    <3> QED
      BY <2>1, <2>3, <3>2 DEF n, t, O1
  <2> QED
    BY <2>2, <2>3
<1>7. CASE O1 # {}
  <2>1. PICK m \in O : \A j \in O : m <= j
    BY <1>7 DEF HasLowest
  <2>2. m # n /\ m \in O1 /\ m \in 1..(n-1)
    <3>1. PICK k \in O : k # n
      BY <1>7
    <3>2. k \in 1..n /\ m \in 1..n /\ m <= k
      BY <1>2, <2>1
    <3>3. m # n
      BY <1>1, <3>1, <3>2
    <3> QED
      BY <1>1, <3>2, <3>3
  <2>3. O1 \in SUBSET Nat /\ \A j \in O1 : m <= j
    BY <1>2, <2>1
  <2>4. LowestOf(O) = m /\ LowestOf(O1) = m
    <3> HIDE DEF O1
    <3> QED
      BY <1>2, <2>1, <2>2, <2>3, LowestIs
  <2>5. HasLowest(O1) /\ t[m] = s[m] /\ O # {} /\ O # {n}
    BY <1>1, <1>7, <2>2, <2>3 DEF HasLowest
  <2> HIDE DEF O1
  <2>6. RunningAt(t, O1, time) = RunningAt(s, O, time)
    BY <1>7, <2>4, <2>5 DEF RunningAt
  <2> QED
    BY <1>3, <2>5, <2>6 DEF n, t, O1
<1> QED
  BY <1>6, <1>7

\* The time a function is executed grows with the clock.
LEMMA RunTick ==
    ASSUME NEW s \in Seq(Entry), NEW O \in SUBSET (1..Len(s)), NEW time \in Nat,
           HasLowest(O)
    PROVE  RunningAt(s, O, time + 1)
             = RunningAt(s, O, time) + (IF O = {} THEN 0 ELSE 1)
<1>1. CASE O = {}
  BY <1>1 DEF RunningAt
<1>2. CASE O # {}
  <2>1. PICK m \in O : \A j \in O : m <= j
    BY <1>2 DEF HasLowest
  <2>2. O \in SUBSET Nat
    OBVIOUS
  <2>3. LowestOf(O) = m
    BY <2>1, <2>2, LowestIs
  <2>4. s[m].t0 \in Nat
    <3>1. s # <<>>
      BY <2>1, EmptySeq
    <3> QED
      BY <3>1, TopEntry
  <2>5. \A u : RunningAt(s, O, u) = u - s[m].t0
    BY <1>2, <2>3 DEF RunningAt
  <2> QED
    BY <1>2, <2>4, <2>5
<1> QED
  BY <1>1, <1>2

LEMMA TimelyPush ==
    ASSUME NEW s \in Seq(Entry), NEW x \in Entry, NEW O \in SUBSET (1..Len(s)),
           NEW total, NEW time \in Nat, x.t0 = time, Timely(s, O, total, time)
    PROVE  /\ Timely(Append(s, x), O, total, time)
           /\ Timely(Append(s, x), O \cup {Len(s) + 1}, total, time)
  BY RunPush DEF Timely

\* A call that ends hands its time over from the stack to the record, if no other
\* of its function is in progress.
LEMMA TimelyPop ==
    ASSUME NEW s \in Seq(Entry), s # <<>>, NEW O \in SUBSET (1..Len(s)),
           NEW total, NEW time \in Nat, EnteredBefore(s, time),
           Timely(s, O, total, time),
           NEW outer \in BOOLEAN, outer => O = {Len(s)}
    PROVE  Timely(Pop(s), O \ {Len(s)},
                  total + (IF outer THEN time - Top(s).t0 ELSE 0), time)
<1>1. HasLowest(O) /\ total \in Nat /\ total + RunningAt(s, O, time) <= time
  BY DEF Timely
<1>2. RunningAt(s, O, time) \in 0..time
  BY <1>1, RunningTime
<1>3. HasLowest(O \ {Len(s)})
  BY <1>1, RunPop
<1>4. Top(s).t0 \in Nat /\ Top(s).t0 <= time
  BY TopEntry DEF EnteredBefore, Top
<1>5. RunningAt(Pop(s), O \ {Len(s)}, time)
        = RunningAt(s, O, time) - (IF O = {Len(s)} THEN time - Top(s).t0 ELSE 0)
  BY <1>1, RunPop
<1>6. CASE outer
  <2>1. O = {Len(s)}
    BY <1>6
  <2>2. RunningAt(Pop(s), O \ {Len(s)}, time) = RunningAt(s, O, time) - (time - Top(s).t0)
    BY <1>5, <2>1
  <2>3. total + (time - Top(s).t0) \in Nat
    BY <1>1, <1>4
  <2>4. total + (time - Top(s).t0) + RunningAt(Pop(s), O \ {Len(s)}, time) <= time
    BY <1>1, <1>2, <1>4, <2>2
  <2> QED
    BY <1>3, <1>6, <2>3, <2>4 DEF Timely
<1>7. CASE ~outer
  <2>1. RunningAt(Pop(s), O \ {Len(s)}, time) \in Int
        /\ RunningAt(Pop(s), O \ {Len(s)}, time) <= RunningAt(s, O, time)
    BY <1>2, <1>4, <1>5
  <2>2. total + 0 \in Nat /\ total + 0 + RunningAt(Pop(s), O \ {Len(s)}, time) <= time
    BY <1>1, <1>2, <2>1
  <2> QED
    BY <1>3, <1>7, <2>2 DEF Timely
<1> QED
  BY <1>6, <1>7

LEMMA TimelyTick ==
    ASSUME NEW s \in Seq(Entry), NEW O \in SUBSET (1..Len(s)), NEW total,
           NEW time \in Nat, EnteredBefore(s, time), Timely(s, O, total, time)
    PROVE  Timely(s, O, total, time + 1)
<1>1. HasLowest(O) /\ total \in Nat /\ total + RunningAt(s, O, time) <= time
  BY DEF Timely
<1>2. RunningAt(s, O, time) \in 0..time
  BY <1>1, RunningTime
<1>3. RunningAt(s, O, time + 1) = RunningAt(s, O, time) + (IF O = {} THEN 0 ELSE 1)
  BY <1>1, RunTick
<1>4. total + RunningAt(s, O, time + 1) <= time + 1
  BY <1>1, <1>2, <1>3
<1> QED
  BY <1>1, <1>4 DEF Timely

\* The cumulative times of the records; of one that is not there, 0.
TotalOf(table, k) == IF k \in DOMAIN table THEN table[k].ttotal ELSE 0

TimeInv ==
    /\ LevelInv
    /\ EnteredBefore(stack, now)
    /\ \A p \in Pit : Timely(stack, Occ(stack, p), TotalOf(pits, p), now)
    /\ \A c \in Pair : Timely(stack, PairOcc(stack, c), TotalOf(children, c), now)

LEMMA OccPlaces ==
    ASSUME NEW s \in Seq(Entry)
    PROVE  /\ \A p : Occ(s, p) \in SUBSET (1..Len(s))
           /\ \A c : PairOcc(s, c) \in SUBSET (1..Len(s))
<1>1. Len(s) \in Nat
  BY LenProperties
<1>2. 2..Len(s) \subseteq 1..Len(s)
  BY <1>1
<1>3. \A p : Occ(s, p) \subseteq 1..Len(s)
  BY DEF Occ
<1>4. \A c : PairOcc(s, c) \subseteq 2..Len(s)
  BY DEF PairOcc
<1> QED
  BY <1>2, <1>3, <1>4

LEMMA TimeInit == ASSUME Init PROVE TimeInv
<1>1. LevelInv
  BY LevelInit
<1>2. stack = <<>> /\ Len(stack) = 0 /\ now = 0
  BY EmptySeq DEF Init
<1>3. \A p : Occ(stack, p) = {}
  BY <1>2 DEF Occ
<1>4. \A c : PairOcc(stack, c) = {}
  BY <1>2 DEF PairOcc
<1>5. EnteredBefore(stack, now)
  BY <1>2 DEF EnteredBefore
<1>6. \A k : TotalOf(pits, k) = 0 /\ TotalOf(children, k) = 0
  BY DEF TotalOf, Init
<1>7. Timely(stack, {}, 0, now)
  BY <1>2 DEF Timely, HasLowest, RunningAt
<1> QED
  BY <1>1, <1>3, <1>4, <1>5, <1>6, <1>7 DEF TimeInv

LEMMA TimeTypes ==
    ASSUME TimeInv
    PROVE  stack \in Seq(Entry) /\ now \in Nat
  BY DEF TimeInv, LevelInv, TypeOK, Entry

\* A new record has no time yet.
LEMMA NewRecord ==
    ASSUME NEW table, NEW k, NEW x
    PROVE  TotalOf(WithKey(table, k, Zero), x) = TotalOf(table, x)
<1>1. CASE k \in DOMAIN table
  BY <1>1 DEF WithKey
<1>2. CASE k \notin DOMAIN table
  <2>1. /\ DOMAIN WithKey(table, k, Zero) = DOMAIN table \cup {k}
        /\ \A y \in DOMAIN table \cup {k} :
             WithKey(table, k, Zero)[y] = IF y = k THEN Zero ELSE table[y]
    BY <1>2 DEF WithKey
  <2>2. Zero.ttotal = 0
    BY DEF Zero
  <2> HIDE DEF Zero
  <2> QED
    BY <1>2, <2>1, <2>2 DEF TotalOf
<1> QED
  BY <1>1, <1>2

\* A step that leaves the stack, the clock and cumulative times as they are.
LEMMA TimeKept ==
    ASSUME TimeInv, LevelInv', stack' = stack, now' = now,
           \A p \in Pit : TotalOf(pits', p) = TotalOf(pits, p),
           \A c \in Pair : TotalOf(children', c) = TotalOf(children, c)
    PROVE  TimeInv'
<1>1. EnteredBefore(stack', now')
  BY DEF TimeInv
<1>2. \A p \in Pit : Timely(stack', Occ(stack', p), TotalOf(pits', p), now')
  BY DEF TimeInv
<1>3. \A c \in Pair : Timely(stack', PairOcc(stack', c), TotalOf(children', c), now')
  BY DEF TimeInv
<1> QED
  BY <1>1, <1>2, <1>3 DEF TimeInv

LEMMA TimeTick ==
    ASSUME TimeInv, LevelInv', Tick
    PROVE  TimeInv'
<1>1. stack \in Seq(Entry) /\ now \in Nat
  BY TimeTypes
<1>2. stack' = stack /\ now' = now + 1 /\ pits' = pits /\ children' = children
  BY DEF Tick
<1>3. EnteredBefore(stack, now)
  BY DEF TimeInv
<1>4. ASSUME NEW i \in 1..Len(stack) PROVE stack[i].t0 <= now + 1
  <2>1. stack # <<>>
    BY EmptySeq
  <2>2. stack[i].t0 \in Nat
    BY <1>1, <2>1, TopEntry
  <2> QED
    BY <1>1, <1>3, <2>2 DEF EnteredBefore
<1>5. \A p \in Pit : Timely(stack, Occ(stack, p), TotalOf(pits, p), now + 1)
  BY <1>1, <1>3, OccPlaces, TimelyTick DEF TimeInv
<1>6. \A c \in Pair : Timely(stack, PairOcc(stack, c), TotalOf(children, c), now + 1)
  BY <1>1, <1>3, OccPlaces, TimelyTick DEF TimeInv
<1> QED
  BY <1>2, <1>4, <1>5, <1>6 DEF TimeInv, EnteredBefore

LEMMA TimeEnter ==
    ASSUME TimeInv, LevelInv', NEW p \in Pit, NEW f \in Frame, CallEnter(p, f)
    PROVE  TimeInv'
<1> DEFINE x == [pit |-> p, t0 |-> now]
<1>1. stack \in Seq(Entry) /\ now \in Nat
  BY TimeTypes
<1>2. x \in Entry /\ x.pit = p /\ x.t0 = now
  BY <1>1 DEF Entry
<1>3. stack' = Append(stack, x) /\ now' = now
  BY DEF CallEnter
<1> HIDE DEF x
<1>4. \A q : TotalOf(pits', q) = TotalOf(pits, q)
  BY NewRecord DEF CallEnter
<1>5. \A c : TotalOf(children', c) = TotalOf(children, c)
  BY NewRecord DEF CallEnter, ChildrenOnEntry
<1>6. EnteredBefore(stack', now')
  <2>1. /\ Len(stack) \in Nat /\ Len(stack') = Len(stack) + 1
        /\ \A i \in 1..Len(stack) : stack'[i] = stack[i]
        /\ stack'[Len(stack) + 1] = x
    BY <1>1, <1>2, <1>3, AppendProperties, LenProperties
  <2>2. \A i \in 1..Len(stack') : i \in 1..Len(stack) \/ i = Len(stack) + 1
    BY <2>1
  <2> QED
    BY <1>1, <1>2, <1>3, <2>1, <2>2 DEF TimeInv, EnteredBefore
<1>7. ASSUME NEW q \in Pit
      PROVE  Timely(stack', Occ(stack', q), TotalOf(pits', q), now')
  <2>1. Timely(stack, Occ(stack, q), TotalOf(pits, q), now)
    BY DEF TimeInv
  <2>2. /\ Timely(stack', Occ(stack, q), TotalOf(pits, q), now)
        /\ Timely(stack', Occ(stack, q) \cup {Len(stack) + 1}, TotalOf(pits, q), now)
    BY <1>1, <1>2, <1>3, <2>1, OccPlaces, TimelyPush
  <2>3. \/ Occ(stack', q) = Occ(stack, q)
        \/ Occ(stack', q) = Occ(stack, q) \cup {Len(stack) + 1}
    BY <1>1, <1>2, <1>3, PushOcc
  <2> QED
    BY <1>3, <1>4, <2>2, <2>3
<1>8. ASSUME NEW c \in Pair
      PROVE  Timely(stack', PairOcc(stack', c), TotalOf(children', c), now')
  <2>1. Timely(stack, PairOcc(stack, c), TotalOf(children, c), now)
    BY DEF TimeInv
  <2>2. /\ Timely(stack', PairOcc(stack, c), TotalOf(children, c), now)
        /\ Timely(stack', PairOcc(stack, c) \cup {Len(stack) + 1},
                  TotalOf(children, c), now)
    BY <1>1, <1>2, <1>3, <2>1, OccPlaces, TimelyPush
  <2>3. \/ PairOcc(stack', c) = PairOcc(stack, c)
        \/ PairOcc(stack', c) = PairOcc(stack, c) \cup {Len(stack) + 1}
    BY <1>1, <1>2, <1>3, PushOcc
  <2> QED
    BY <1>3, <1>5, <2>2, <2>3
<1> QED
  BY <1>6, <1>7, <1>8 DEF TimeInv

\* A level of 1 means that the call that leaves is the only one in progress.
LEMMA OnlyOne ==
    ASSUME NEW S, IsFiniteSet(S), NEW x \in S, Cardinality(S) <= 1
    PROVE  S = {x}
<1>1. Cardinality(S) = 1
  <2>1. Cardinality(S) >= 1 /\ Cardinality(S) \in Nat
    BY OneLessPlace, FS_CardinalityType
  <2> QED
    BY <2>1
<1>2. PICK y : S = {y}
  BY <1>1, FS_Singleton
<1> QED
  BY <1>2

LEMMA OuterIsOnly ==
    ASSUME TimeInv, stack # <<>>
    PROVE  /\ Level(pitLevel, Top(stack).pit) = 1 =>
                Occ(stack, Top(stack).pit) = {Len(stack)}
           /\ LET pci == <<stack[Len(stack)-1].pit, Top(stack).pit>>
              IN  Len(stack) > 1 /\ Level(childLevel, pci) = 1 =>
                    PairOcc(stack, pci) = {Len(stack)}
<1> DEFINE cp == Top(stack).pit
           pci == <<stack[Len(stack)-1].pit, Top(stack).pit>>
<1>1. stack \in Seq(Entry)
  BY TimeTypes
<1>2. cp \in Pit
  BY <1>1, TopEntry
<1>3. Len(stack) \in Occ(stack, cp)
      /\ (Len(stack) > 1 => Len(stack) \in PairOcc(stack, pci))
  BY <1>1, PopOcc
<1>4. Len(stack) > 1 => pci \in Pair
  <2>1. Len(stack) > 1 => Len(stack) - 1 \in 1..Len(stack)
    BY <1>1, LenProperties
  <2>2. Len(stack) > 1 => stack[Len(stack)-1].pit \in Pit
    BY <1>1, <2>1, TopEntry
  <2> QED
    BY <1>2, <2>2 DEF Pair
<1> HIDE DEF cp, pci
<1>5. ASSUME Level(pitLevel, cp) = 1 PROVE Occ(stack, cp) = {Len(stack)}
  <2>1. cp \in DOMAIN pitLevel /\ pitLevel[cp] = 1
    BY <1>5 DEF Level
  <2>2. Cardinality(Occ(stack, cp)) = 1
    BY <1>2, <2>1, ActivationsAreOcc DEF TimeInv, LevelInv, PitLevelsExact
  <2>3. IsFiniteSet(Occ(stack, cp)) /\ Cardinality(Occ(stack, cp)) <= 1
    BY <1>1, <2>2, OccFinite
  <2> QED
    BY <1>3, <2>3, OnlyOne
<1>6. ASSUME Len(stack) > 1, Level(childLevel, pci) = 1
      PROVE  PairOcc(stack, pci) = {Len(stack)}
  <2>1. pci \in DOMAIN childLevel /\ childLevel[pci] = 1
    BY <1>6 DEF Level
  <2>2. childLevel[pci] >= Cardinality(PairOcc(stack, pci))
    BY <1>4, <1>6, <2>1, ActivationsAreOcc DEF TimeInv, LevelInv, PairLevelsCover
  <2>3. IsFiniteSet(PairOcc(stack, pci)) /\ Cardinality(PairOcc(stack, pci)) \in Nat
    BY <1>1, OccFinite
  <2>4. Cardinality(PairOcc(stack, pci)) <= 1
    BY <2>1, <2>2, <2>3
  <2> QED
    BY <1>3, <1>6, <2>3, <2>4, OnlyOne
<1> QED
  BY <1>5, <1>6 DEF cp, pci

\* A return event: the time of the call goes to its function, and to the pair,
\* if no other call of it is in progress.
LEMMA TimeLeave ==
    ASSUME TimeInv, LevelInv', stack # <<>>, stack' = Pop(stack), now' = now,
           NEW outer \in BOOLEAN, NEW outerPair \in BOOLEAN, NEW cp, NEW pci,
           cp = Top(stack).pit,
           Len(stack) > 1 => pci = <<stack[Len(stack)-1].pit, cp>>,
           outer => Occ(stack, cp) = {Len(stack)},
           outerPair => Len(stack) > 1 /\ PairOcc(stack, pci) = {Len(stack)},
           \A p \in Pit : TotalOf(pits', p) = TotalOf(pits, p)
             + (IF p = cp /\ outer THEN now - Top(stack).t0 ELSE 0),
           \A c \in Pair : TotalOf(children', c) = TotalOf(children, c)
             + (IF c = pci /\ outerPair THEN now - Top(stack).t0 ELSE 0)
    PROVE  TimeInv'
<1>1. stack \in Seq(Entry) /\ now \in Nat /\ EnteredBefore(stack, now)
  BY TimeTypes DEF TimeInv
<1>2. Len(stack) \in Nat \ {0}
  BY <1>1, EmptySeq
<1>3. EnteredBefore(stack', now')
  <2>1. Len(stack') = Len(stack) - 1 /\ \A i \in 1..(Len(stack)-1) : stack'[i] = stack[i]
    BY <1>1, PopStack
  <2>2. 1..(Len(stack)-1) \subseteq 1..Len(stack)
    BY <1>2
  <2> QED
    BY <1>1, <2>1, <2>2 DEF EnteredBefore
<1>4. ASSUME NEW q \in Pit
      PROVE  Timely(stack', Occ(stack', q), TotalOf(pits', q), now')
  <2> DEFINE o == q = cp /\ outer
  <2>1. Occ(stack', q) = Occ(stack, q) \ {Len(stack)}
    <3>1. CASE q = cp
      BY <1>1, <3>1, PopOcc
    <3>2. CASE q # cp
      <4>1. Occ(stack', q) = Occ(stack, q)
        BY <1>1, <3>2, PopOcc
      <4>2. Len(stack) \notin Occ(stack, q)
        BY <3>2 DEF Occ, Top
      <4> QED
        BY <4>1, <4>2
    <3> QED
      BY <3>1, <3>2
  <2>2. Timely(stack, Occ(stack, q), TotalOf(pits, q), now)
    BY DEF TimeInv
  <2>3. TotalOf(pits', q) = TotalOf(pits, q) + (IF o THEN now - Top(stack).t0 ELSE 0)
    OBVIOUS
  <2>4. o \in BOOLEAN /\ (o => Occ(stack, q) = {Len(stack)})
    OBVIOUS
  <2> HIDE DEF o
  <2>5. Timely(Pop(stack), Occ(stack, q) \ {Len(stack)},
               TotalOf(pits, q) + (IF o THEN now - Top(stack).t0 ELSE 0), now)
    BY <1>1, <2>2, <2>4, OccPlaces, TimelyPop
  <2> QED
    BY <2>1, <2>3, <2>5
<1>5. ASSUME NEW c \in Pair
      PROVE  Timely(stack', PairOcc(stack', c), TotalOf(children', c), now')
  <2> DEFINE o == c = pci /\ outerPair
  <2>1. PairOcc(stack', c) = PairOcc(stack, c) \ {Len(stack)}
    <3> DEFINE top == Len(stack) > 1 /\ c = <<stack[Len(stack)-1].pit, Top(stack).pit>>
    <3>1. PairOcc(stack', c) = IF top THEN PairOcc(stack, c) \ {Len(stack)}
                               ELSE PairOcc(stack, c)
      BY <1>1, PopOcc
    <3>2. ASSUME Len(stack) \in PairOcc(stack, c) PROVE top
      <4>1. /\ Len(stack) \in 2..Len(stack)
            /\ stack[Len(stack)-1].pit = c[1] /\ stack[Len(stack)].pit = c[2]
        BY <3>2 DEF PairOcc
      <4>2. c = <<c[1], c[2]>> /\ Len(stack) > 1
        BY <1>2, <4>1 DEF Pair
      <4> QED
        BY <4>1, <4>2 DEF Top
    <3> HIDE DEF top
    <3> QED
      BY <3>1, <3>2
  <2>2. Timely(stack, PairOcc(stack, c), TotalOf(children, c), now)
    BY DEF TimeInv
  <2>3. TotalOf(children', c)
          = TotalOf(children, c) + (IF o THEN now - Top(stack).t0 ELSE 0)
    OBVIOUS
  <2>4. o \in BOOLEAN /\ (o => PairOcc(stack, c) = {Len(stack)})
    OBVIOUS
  <2> HIDE DEF o
  <2>5. Timely(Pop(stack), PairOcc(stack, c) \ {Len(stack)},
               TotalOf(children, c) + (IF o THEN now - Top(stack).t0 ELSE 0), now)
    BY <1>1, <2>2, <2>4, OccPlaces, TimelyPop
  <2> QED
    BY <2>1, <2>3, <2>5
<1> QED
  BY <1>3, <1>4, <1>5 DEF TimeInv

LEMMA TotalsTyped ==
    ASSUME TimeInv
    PROVE  /\ \A p \in Pit : TotalOf(pits, p) \in Nat
           /\ \A c \in Pair : TotalOf(children, c) \in Nat
  BY DEF TimeInv, Timely

\* Without coroutines the time of a call is the time since its entry.
LEMMA ElapsedPlain ==
    ASSUME AsyncFrame = {}, NEW f, NEW suspended
    PROVE  Elapsed(f, suspended) = now - Top(stack).t0
  BY DEF Elapsed, CoroExits

LEMMA TimeLeaveOutermost ==
    ASSUME AsyncFrame = {}, TimeInv, LevelInv', NEW f \in Frame,
           NEW suspended \in BOOLEAN, LeaveOutermost(f, suspended)
    PROVE  TimeInv'
<1> DEFINE cp == Top(stack).pit
           e == Elapsed(f, suspended)
<1>1. stack \in Seq(Entry) /\ Len(stack) = 1
  BY TimeTypes DEF LeaveOutermost
<1>2. stack # <<>>
  BY <1>1, EmptySeq
<1>3. stack' = Pop(stack) /\ now' = now /\ children' = children
  BY <1>1, SubSeqEmpty DEF LeaveOutermost, Pop
<1>4. e = now - Top(stack).t0
  BY ElapsedPlain
<1>5. Occ(stack, cp) = {Len(stack)}
  <2>1. Len(stack) \in Occ(stack, cp)
    BY <1>1, <1>2, PopOcc
  <2>2. Occ(stack, cp) \subseteq 1..1
    BY <1>1 DEF Occ
  <2> HIDE DEF cp
  <2> QED
    BY <1>1, <2>1, <2>2
<1>6. /\ DOMAIN pits' = DOMAIN pits
      /\ \A p \in DOMAIN pits :
           pits'[p].ttotal = IF p = cp THEN pits[p].ttotal + e ELSE pits[p].ttotal
  <2> DEFINE new == [callcount |-> pits[cp].callcount + One(~suspended),
                     nonrec    |-> pits[cp].nonrec + One(~suspended),
                     tsub      |-> pits[cp].tsub + e,
                     ttotal    |-> pits[cp].ttotal + e]
  <2>1. pits' = [pits EXCEPT ![cp] = new]
    BY DEF LeaveOutermost
  <2>2. new.ttotal = pits[cp].ttotal + e
    OBVIOUS
  <2> HIDE DEF new, cp, e
  <2> QED
    BY <2>1, <2>2
<1>7. cp \in DOMAIN pits
  <2>1. Len(stack) \in 1..Len(stack)
    BY <1>1
  <2> QED
    BY <2>1 DEF TimeInv, LevelInv, PairsRecorded, Top
<1> HIDE DEF cp, e
<1>8. \A p \in Pit : TotalOf(pits', p) = TotalOf(pits, p)
          + (IF p = cp /\ TRUE THEN now - Top(stack).t0 ELSE 0)
  BY <1>4, <1>6, <1>7, TotalsTyped DEF TotalOf
<1>9. \A c \in Pair : TotalOf(children', c) = TotalOf(children, c)
          + (IF c = <<cp, cp>> /\ FALSE THEN now - Top(stack).t0 ELSE 0)
  BY <1>3, TotalsTyped
<1> QED
  BY <1>1, <1>2, <1>3, <1>5, <1>8, <1>9, TimeLeave DEF cp

LEMMA TimeLeaveToParent ==
    ASSUME AsyncFrame = {}, TimeInv, LevelInv', NEW f \in Frame,
           NEW suspended \in BOOLEAN, LeaveToParent(f, suspended)
    PROVE  TimeInv'
<1> DEFINE n == Len(stack)
           cp == Top(stack).pit
           pp == stack[n-1].pit
           pci == <<pp, cp>>
           ppci == IF n > 2 THEN <<stack[n-2].pit, pp>> ELSE pci
           e == Elapsed(f, suspended)
           outer == Level(pitLevel, cp) = 1
           outerPair == Level(childLevel, pci) = 1
<1>1. stack \in Seq(Entry) /\ n > 1
  BY TimeTypes DEF LeaveToParent
<1>2. stack # <<>>
  <2>1. ~(0 > 1)
    OBVIOUS
  <2> QED
    BY <1>1, <2>1, EmptySeq
<1>3. stack' = Pop(stack) /\ now' = now
  BY DEF LeaveToParent, StackOnLeave
<1>4. e = now - Top(stack).t0
  BY ElapsedPlain
<1>5. /\ outer => Occ(stack, cp) = {Len(stack)}
      /\ outerPair => PairOcc(stack, pci) = {Len(stack)}
  BY <1>1, <1>2, OuterIsOnly
<1>6. /\ pits' = PitsOnLeave(cp, pp, e, ~suspended, outer)
      /\ children' = ChildrenOnLeave(pci, n > 2, ppci, e, ~suspended, outer, outerPair)
  BY DEF LeaveToParent, Top
<1>7. cp \in DOMAIN pits /\ pci \in DOMAIN children
  <2>1. n \in 1..n /\ n \in 2..n
    BY <1>1, LenProperties
  <2>2. pci \in DOMAIN children
    BY DEF LeaveToParent, Top
  <2> QED
    BY <2>1, <2>2 DEF TimeInv, LevelInv, PairsRecorded, Top
<1> HIDE DEF n, cp, pp, pci, ppci, e, outer, outerPair
<1>8. /\ DOMAIN pits' = DOMAIN pits
      /\ \A p \in DOMAIN pits : pits'[p].ttotal =
           pits[p].ttotal + (IF p = cp /\ outer THEN e ELSE 0)
  BY <1>6 DEF PitsOnLeave
<1>9. /\ DOMAIN children' = DOMAIN children
      /\ \A c \in DOMAIN children : children'[c].ttotal =
           children[c].ttotal + (IF c = pci /\ outerPair THEN e ELSE 0)
  BY <1>6 DEF ChildrenOnLeave
<1>10. outer \in BOOLEAN /\ outerPair \in BOOLEAN
  BY DEF outer, outerPair
<1>11. \A p \in Pit : TotalOf(pits', p) = TotalOf(pits, p)
           + (IF p = cp /\ outer THEN now - Top(stack).t0 ELSE 0)
  BY <1>4, <1>7, <1>8, TotalsTyped DEF TotalOf
<1>12. \A c \in Pair : TotalOf(children', c) = TotalOf(children, c)
           + (IF c = pci /\ outerPair THEN now - Top(stack).t0 ELSE 0)
  BY <1>4, <1>7, <1>9, TotalsTyped DEF TotalOf
<1>13. cp = Top(stack).pit /\ pci = <<stack[Len(stack)-1].pit, cp>> /\ Len(stack) > 1
  BY <1>1 DEF cp, pci, pp, n
<1> QED
  BY <1>2, <1>3, <1>5, <1>10, <1>11, <1>12, <1>13, TimeLeave

LEMMA TimeStep ==
    ASSUME AsyncFrame = {}, TimeInv, [Next]_vars
    PROVE  TimeInv'
<1>1. LevelInv'
  BY LevelStep DEF TimeInv
<1>2. ASSUME NEW p \in Pit, NEW f \in Frame, CallEnter(p, f) PROVE TimeInv'
  BY <1>1, <1>2, TimeEnter
<1>3. ASSUME NEW p \in Pit, CallEnterNoChild(p) \/ CallEnterNoSlot(p) PROVE TimeInv'
  <2>1. /\ stack' = stack /\ now' = now /\ pits' = WithKey(pits, p, Zero)
        /\ children' = children \/ children' = ChildrenOnEntry(p)
    BY <1>3 DEF CallEnterNoChild, CallEnterNoSlot
  <2>2. \A c : TotalOf(children', c) = TotalOf(children, c)
    BY <2>1, NewRecord DEF ChildrenOnEntry
  <2>3. \A q : TotalOf(pits', q) = TotalOf(pits, q)
    BY <2>1, NewRecord
  <2> QED
    BY <1>1, <2>1, <2>2, <2>3, TimeKept
<1>4. ASSUME NEW f \in Frame, NEW suspended \in BOOLEAN, LeaveUnseen(f, suspended)
      PROVE  TimeInv'
  BY <1>1, <1>4, TimeKept DEF LeaveUnseen, vars
<1>5. ASSUME NEW f \in Frame, NEW suspended \in BOOLEAN, LeaveOutermost(f, suspended)
      PROVE  TimeInv'
  BY <1>1, <1>5, TimeLeaveOutermost
<1>6. ASSUME NEW f \in Frame, NEW suspended \in BOOLEAN, LeaveToParent(f, suspended)
      PROVE  TimeInv'
  BY <1>1, <1>6, TimeLeaveToParent
<1>7. CASE Tick
  BY <1>1, <1>7, TimeTick
<1>8. CASE Enumerate
  <2>1. /\ stack' = stack /\ now' = now
        /\ pits' = [p \in DOMAIN pits |-> Normalised(pits[p])]
        /\ children' = [c \in DOMAIN children |-> Normalised(children[c])]
    BY <1>8 DEF Enumerate
  <2>2. \A r \in Counter : Normalised(r).ttotal = r.ttotal
    BY DEF Normalised, Counter
  <2>3. /\ \A p \in DOMAIN pits : pits[p] \in Counter
        /\ \A c \in DOMAIN children : children[c] \in Counter
    BY DEF TimeInv, LevelInv, TypeOK
  <2>4. /\ \A q : TotalOf(pits', q) = TotalOf(pits, q)
        /\ \A c : TotalOf(children', c) = TotalOf(children, c)
    BY <2>1, <2>2, <2>3 DEF TotalOf
  <2> QED
    BY <1>1, <2>1, <2>4, TimeKept
<1>9. CASE UNCHANGED vars
  BY <1>1, <1>9, TimeKept DEF vars
<1> QED
  BY <1>2, <1>3, <1>4, <1>5, <1>6, <1>7, <1>8, <1>9 DEF Next, Event, CallLeave

\* In a program without coroutines no function, and no pair of caller and callee,
\* is ever credited with more time than has passed, for any recursion, direct or
\* through others, any unmatched calls and returns, failed allocations, and
\* statistics read in the middle of calls.
THEOREM TimeCountedOnce ==
    ASSUME AsyncFrame = {}
    PROVE  Spec => []NoDoubleCounting
<1>1. Init => TimeInv
  BY TimeInit
<1>2. TimeInv /\ [Next]_vars => TimeInv'
  BY TimeStep
<1>3. TimeInv => NoDoubleCounting
  <2> SUFFICES ASSUME TimeInv PROVE NoDoubleCounting
    OBVIOUS
  <2>1. DOMAIN pits \subseteq Pit /\ DOMAIN children \subseteq Pair
    BY DEF TimeInv, LevelInv, TypeOK
  <2>2. \A O : Running(O) = RunningAt(stack, O, now)
    BY DEF Running, RunningAt
  <2>3. ASSUME NEW p \in DOMAIN pits
        PROVE  0 <= pits[p].ttotal /\ pits[p].ttotal + Running(Activations(p)) <= now
    BY <2>1, <2>2, ActivationsAreOcc DEF TimeInv, Timely, TotalOf
  <2>4. ASSUME NEW c \in DOMAIN children
        PROVE  /\ 0 <= children[c].ttotal
               /\ children[c].ttotal + Running(PairActivations(c)) <= now
    BY <2>1, <2>2, ActivationsAreOcc DEF TimeInv, Timely, TotalOf
  <2> QED
    BY <2>3, <2>4 DEF NoDoubleCounting
<1> QED
  BY <1>1, <1>2, <1>3, PTL DEF Spec

-----------------------------------------------------------------------------
(* The sum of a function over a finite set. *)

\* g is what the sum of fun defines on the subsets of T.
First(s) == CHOOSE x \in s : TRUE
Sums(g, fun, T) ==
    g = [s \in SUBSET T |->
           IF s = {} THEN 0 ELSE fun[First(s)] + g[s \ {First(s)}]]

\* Induction over a finite set, as the provers can use it: among some of its
\* subsets there is one that contains no other.
LEMMA Smallest ==
    ASSUME NEW S, IsFiniteSet(S), NEW Us, Us \subseteq SUBSET S, Us # {}
    PROVE  \E T \in Us : \A U \in Us : U \subseteq T => U = T
<1>1. Us \subseteq FiniteSubsetsOf(S)
  BY FS_FiniteSubsetsOfFinite
<1>2. IsWellFoundedOn(StrictSubsetOrdering(S), FiniteSubsetsOf(S))
  BY FS_StrictSubsetOrderingWellFounded
<1>3. PICK T \in Us : \A U \in Us : ~ (<<U, T>> \in StrictSubsetOrdering(S))
  BY <1>1, <1>2, WFMin
<1> QED BY <1>3 DEF StrictSubsetOrdering

\* Two functions that hold such sums agree where both are defined.
LEMMA SumsAgree ==
    ASSUME NEW fun, NEW T, IsFiniteSet(T), NEW U,
           NEW g, NEW h, Sums(g, fun, T), Sums(h, fun, U),
           NEW u, u \subseteq T, u \subseteq U
    PROVE  g[u] = h[u]
<1> DEFINE Bad == {s \in SUBSET T : s \subseteq U /\ g[s] # h[s]}
<1>1. SUFFICES ASSUME Bad # {} PROVE FALSE
  OBVIOUS
<1>2. Bad \subseteq SUBSET T
  OBVIOUS
<1>3. PICK s \in Bad : \A r \in Bad : r \subseteq s => r = s
  <2> HIDE DEF Bad
  <2> QED BY <1>1, <1>2, Smallest
<1>4. s # {}
  BY <1>3 DEF Sums
<1>5. First(s) \in s
  BY <1>4 DEF First
<1>6. s \ {First(s)} \notin Bad
  BY <1>3, <1>5
<1>7. g[s \ {First(s)}] = h[s \ {First(s)}]
  BY <1>3, <1>6
<1>8. g[s] = fun[First(s)] + g[s \ {First(s)}] /\ h[s] = fun[First(s)] + h[s \ {First(s)}]
  BY <1>3, <1>4 DEF Sums
<1> QED BY <1>3, <1>7, <1>8

\* The same with its parameters bound, for the places where g and h are terms.
LEMMA SumsAgreeAt ==
    \A fun, T, U, g, h : 
      IsFiniteSet(T) /\ U \subseteq T /\ Sums(g, fun, T) /\ Sums(h, fun, U) => g[U] = h[U]
BY SumsAgree

\* There is such a function, by induction over the subsets of S.
LEMMA SumsExist ==
    ASSUME NEW S, IsFiniteSet(S), NEW fun
    PROVE  \E g : Sums(g, fun, S)
<1> DEFINE Bad == {T \in SUBSET S : \A g : ~ Sums(g, fun, T)}
<1>1. SUFFICES ASSUME Bad # {} PROVE FALSE
  OBVIOUS
<1>2. PICK T \in Bad : \A U \in Bad : U \subseteq T => U = T
  <2>1. Bad \subseteq SUBSET S
    OBVIOUS
  <2> HIDE DEF Bad
  <2> QED BY <1>1, <2>1, Smallest
<1> DEFINE G == [U \in SUBSET T |-> CHOOSE g : Sums(g, fun, U)]
           part(s) == IF s = {} THEN 0 ELSE fun[First(s)] + G[s \ {First(s)}][s \ {First(s)}]
           g == [s \in SUBSET T |-> IF s = T THEN part(T) ELSE G[s][s]]
<1>3. \A U \in SUBSET T : U # T => Sums(G[U], fun, U)
  <2> TAKE U \in SUBSET T
  <2> HAVE U # T
  <2>1. \E h : Sums(h, fun, U)
    BY <1>2
  <2> QED BY <2>1
<1>4. \A s : s # {} => First(s) \in s
  BY DEF First
<1>5. \A s \in SUBSET T : s # T => G[s][s] = part(s)
  <2> TAKE s \in SUBSET T
  <2> HAVE s # T
  <2>0. CASE s = {}
    <3>1. Sums(G[s], fun, s)
      BY <1>3
    <3>2. G[s][s] = 0
      <4> HIDE DEF G
      <4> QED BY <2>0, <3>1 DEF Sums
    <3> QED BY <2>0, <3>2
  <2>5. CASE s # {}
    <3> DEFINE r == s \ {First(s)}
    <3>1. r \in SUBSET T /\ r # T /\ r \subseteq s
      BY <1>4, <2>5
    <3>2. Sums(G[s], fun, s) /\ Sums(G[r], fun, r)
      BY <1>3, <3>1
    <3>3. IsFiniteSet(s)
      BY FS_Subset
    <3>5. G[s][r] = G[r][r]
      <4> SUFFICES ASSUME NEW a, NEW b, a = G[s], b = G[r] PROVE a[r] = b[r]
        OBVIOUS
      <4>1. Sums(a, fun, s) /\ Sums(b, fun, r) /\ r \subseteq r
        BY <3>2
      <4> HIDE DEF G, r
      <4> QED BY <3>1, <3>3, <4>1, SumsAgreeAt
    <3>6. G[s][s] = fun[First(s)] + G[s][r]
      <4> HIDE DEF G
      <4> QED BY <2>5, <3>2 DEF Sums
    <3> QED BY <2>5, <3>5, <3>6
  <2> QED BY <2>0, <2>5
<1>6. \A s \in SUBSET T : g[s] = part(s)
  <2> HIDE DEF G, part
  <2> QED BY <1>5
<1>7. \A s \in SUBSET T : s # {} => g[s \ {First(s)}] = G[s \ {First(s)}][s \ {First(s)}]
  <2> TAKE s \in SUBSET T
  <2> HAVE s # {}
  <2>1. s \ {First(s)} \in SUBSET T /\ s \ {First(s)} # T
    BY <1>4
  <2> HIDE DEF G, part
  <2> QED BY <2>1
<1>8. Sums(g, fun, T)
  <2>1. \A s \in SUBSET T :
           g[s] = IF s = {} THEN 0 ELSE fun[First(s)] + g[s \ {First(s)}]
    <3> HIDE DEF G, g
    <3> QED BY <1>6, <1>7
  <2>2. g = [s \in SUBSET T |-> g[s]]
    OBVIOUS
  <2> HIDE DEF g
  <2> QED BY <2>1, <2>2 DEF Sums
<1> QED BY <1>2, <1>8

\* SumFunctionOnSet, a recursive CHOOSE of the community modules, is its value.
LEMMA SumIs ==
    ASSUME NEW S, IsFiniteSet(S), NEW fun, NEW g, Sums(g, fun, S), NEW T \in SUBSET S
    PROVE  SumFunctionOnSet(fun, T) = g[T]
<1>1. IsFiniteSet(T)
  BY FS_Subset
<1>2. SumFunctionOnSet(fun, T) = (CHOOSE h : Sums(h, fun, T))[T]
  BY DEF SumFunctionOnSet, FoldFunctionOnSet, MapThenFoldSet, Sums, First
<1>3. Sums(CHOOSE h : Sums(h, fun, T), fun, T)
  BY <1>1, SumsExist
<1> QED BY <1>1, <1>2, <1>3, SumsAgree

\* The sum of a set is the value at the element CHOOSE picks plus the sum of the rest.
LEMMA SumUnfold ==
    ASSUME NEW S, IsFiniteSet(S), NEW fun
    PROVE  SumFunctionOnSet(fun, S) =
             IF S = {} THEN 0
             ELSE fun[First(S)] + SumFunctionOnSet(fun, S \ {First(S)})
<1>1. PICK g : Sums(g, fun, S)
  BY SumsExist
<1>2. SumFunctionOnSet(fun, S) = g[S]
  BY <1>1, SumIs
<1>3. SumFunctionOnSet(fun, S \ {First(S)}) = g[S \ {First(S)}]
  BY <1>1, SumIs
<1> QED BY <1>1, <1>2, <1>3 DEF Sums

\* The empty sum.
LEMMA SumOfNone == \A fun : SumFunctionOnSet(fun, {}) = 0
BY FS_EmptySet, SumUnfold

\* A sum of integers is an integer.
LEMMA SumInt ==
    ASSUME NEW S, IsFiniteSet(S), NEW fun, \A x \in S : fun[x] \in Int
    PROVE  SumFunctionOnSet(fun, S) \in Int
<1> DEFINE Bad == {T \in SUBSET S : SumFunctionOnSet(fun, T) \notin Int}
<1>1. SUFFICES ASSUME Bad # {} PROVE FALSE
  OBVIOUS
<1>2. PICK T \in Bad : \A U \in Bad : U \subseteq T => U = T
  <2>1. Bad \subseteq SUBSET S
    OBVIOUS
  <2> HIDE DEF Bad
  <2> QED BY <1>1, <2>1, Smallest
<1>3. IsFiniteSet(T) /\ T \subseteq S /\ SumFunctionOnSet(fun, T) \notin Int
  BY FS_Subset
<1>4. T # {}
  <2> SUFFICES ASSUME T = {} PROVE FALSE
    OBVIOUS
  <2>1. SumFunctionOnSet(fun, T) = 0
    BY SumOfNone
  <2> QED BY <1>3, <2>1
<1>5. First(T) \in T
  BY <1>4 DEF First
<1>6. SumFunctionOnSet(fun, T \ {First(T)}) \in Int
  BY <1>2, <1>5
<1>7. SumFunctionOnSet(fun, T) = fun[First(T)] + SumFunctionOnSet(fun, T \ {First(T)})
  BY <1>3, <1>4, SumUnfold
<1>8. fun[First(T)] \in Int
  BY <1>3, <1>5
<1> QED BY <1>3, <1>6, <1>7, <1>8

\* Any element may be taken out of the sum.
LEMMA SumRemove ==
    ASSUME NEW S, IsFiniteSet(S), NEW fun, \A x \in S : fun[x] \in Int, NEW x \in S
    PROVE  SumFunctionOnSet(fun, S) = fun[x] + SumFunctionOnSet(fun, S \ {x})
<1> DEFINE sum(T) == SumFunctionOnSet(fun, T)
           Bad == {T \in SUBSET S : \E y \in T : sum(T) # fun[y] + sum(T \ {y})}
<1>1. SUFFICES ASSUME Bad # {} PROVE FALSE
  OBVIOUS
<1>2. PICK T \in Bad : \A U \in Bad : U \subseteq T => U = T
  <2>1. Bad \subseteq SUBSET S
    OBVIOUS
  <2> HIDE DEF Bad
  <2> QED BY <1>1, <2>1, Smallest
<1>3. PICK y \in T : sum(T) # fun[y] + sum(T \ {y})
  BY <1>2
<1> DEFINE z == First(T)
<1>4. z \in T
  BY <1>3 DEF First
<1>5. \A U \in SUBSET S : IsFiniteSet(U) /\ sum(U) \in Int
  <2> TAKE U \in SUBSET S
  <2>1. IsFiniteSet(U)
    BY FS_Subset
  <2> QED BY <2>1, SumInt
<1>6. sum(T) = fun[z] + sum(T \ {z})
  BY <1>4, <1>5, SumUnfold
<1>7. y # z
  BY <1>3, <1>6
<1>8. T \ {z} \notin Bad /\ T \ {y} \notin Bad
  BY <1>2, <1>4
<1>9. sum(T \ {z}) = fun[y] + sum((T \ {z}) \ {y})
  BY <1>3, <1>7, <1>8
<1>10. sum(T \ {y}) = fun[z] + sum((T \ {y}) \ {z})
  BY <1>4, <1>7, <1>8
<1>11. (T \ {y}) \ {z} = (T \ {z}) \ {y}
  OBVIOUS
<1>12. fun[y] \in Int /\ fun[z] \in Int /\ sum((T \ {z}) \ {y}) \in Int
  BY <1>4, <1>5
<1> HIDE DEF sum, z
<1> QED BY <1>3, <1>6, <1>9, <1>10, <1>11, <1>12

\* The sum depends on the values on the set only.
LEMMA SumSame ==
    ASSUME NEW S, IsFiniteSet(S), NEW f, NEW g, \A x \in S : f[x] = g[x]
    PROVE  SumFunctionOnSet(f, S) = SumFunctionOnSet(g, S)
<1> DEFINE Bad == {T \in SUBSET S : SumFunctionOnSet(f, T) # SumFunctionOnSet(g, T)}
<1>1. SUFFICES ASSUME Bad # {} PROVE FALSE
  OBVIOUS
<1>2. PICK T \in Bad : \A U \in Bad : U \subseteq T => U = T
  <2>1. Bad \subseteq SUBSET S
    OBVIOUS
  <2> HIDE DEF Bad
  <2> QED BY <1>1, <2>1, Smallest
<1>3. IsFiniteSet(T)
  BY FS_Subset
<1>4. T # {}
  BY <1>2, SumOfNone
<1>5. First(T) \in T
  BY <1>4 DEF First
<1>6. SumFunctionOnSet(f, T \ {First(T)}) = SumFunctionOnSet(g, T \ {First(T)})
  BY <1>2, <1>5
<1> QED BY <1>2, <1>3, <1>4, <1>5, <1>6, SumUnfold

\* One value changes, by e.
LEMMA SumChange ==
    ASSUME NEW S, IsFiniteSet(S), NEW f, NEW g, NEW x \in S, NEW e \in Int,
           \A y \in S : f[y] \in Int,
           \A y \in S \ {x} : g[y] = f[y], g[x] = f[x] + e
    PROVE  SumFunctionOnSet(g, S) = SumFunctionOnSet(f, S) + e
<1>1. IsFiniteSet(S \ {x})
  BY FS_Subset
<1>2. SumFunctionOnSet(f, S \ {x}) = SumFunctionOnSet(g, S \ {x})
  BY <1>1, SumSame
<1>3. SumFunctionOnSet(f, S \ {x}) \in Int
  BY <1>1, SumInt
<1>4. SumFunctionOnSet(f, S) = f[x] + SumFunctionOnSet(f, S \ {x})
  BY SumRemove
<1>5. \A y \in S : g[y] \in Int
  OBVIOUS
<1>6. SumFunctionOnSet(g, S) = g[x] + SumFunctionOnSet(g, S \ {x})
  BY <1>5, SumRemove
<1> QED BY <1>2, <1>3, <1>4, <1>6

\* An element joins.
LEMMA SumAdd ==
    ASSUME NEW S, IsFiniteSet(S), NEW f, NEW x, x \notin S,
           \A y \in S : f[y] \in Int, f[x] \in Int
    PROVE  SumFunctionOnSet(f, S \cup {x}) = f[x] + SumFunctionOnSet(f, S)
<1>1. IsFiniteSet(S \cup {x})
  BY FS_AddElement
<1>2. (S \cup {x}) \ {x} = S
  OBVIOUS
<1> QED BY <1>1, <1>2, SumRemove

\* What the element x adds to a sum over S.
Part(x, S, a) == IF x \in S THEN a ELSE 0

\* One element's value changes by a, and another's by -b.
LEMMA SumExchange ==
    ASSUME NEW S, IsFiniteSet(S), NEW f, NEW g, NEW x, NEW y,
           NEW a \in Int, NEW b \in Int, \A c \in S : f[c] \in Int,
           \A c \in S : g[c] = f[c] + (IF c = x THEN a ELSE 0)
                                    - (IF c = y THEN b ELSE 0)
    PROVE  SumFunctionOnSet(g, S)
             = SumFunctionOnSet(f, S) + Part(x, S, a) - Part(y, S, b)
<1> DEFINE m == [c \in S |-> f[c] + (IF c = x THEN a ELSE 0)]
<1>1. \A c \in S : m[c] = f[c] + (IF c = x THEN a ELSE 0) /\ m[c] \in Int
  OBVIOUS
<1>2. \A c \in S : g[c] = m[c] - (IF c = y THEN b ELSE 0)
  BY <1>1
<1> HIDE DEF m
<1>3. SumFunctionOnSet(f, S) \in Int
  BY SumInt
<1>4. SumFunctionOnSet(m, S) = SumFunctionOnSet(f, S) + (IF x \in S THEN a ELSE 0)
  <2>1. CASE x \in S
    <3>1. m[x] = f[x] + a /\ \A c \in S \ {x} : m[c] = f[c]
      BY <1>1, <2>1
    <3> QED BY <2>1, <3>1, SumChange
  <2>2. CASE x \notin S
    <3>1. \A c \in S : m[c] = f[c]
      BY <1>1, <2>2
    <3> QED BY <1>3, <2>2, <3>1, SumSame
  <2> QED BY <2>1, <2>2
<1>5. SumFunctionOnSet(g, S) = SumFunctionOnSet(m, S) - (IF y \in S THEN b ELSE 0)
  <2>0. SumFunctionOnSet(m, S) \in Int
    BY <1>1, SumInt
  <2>1. CASE y \in S
    <3>1. g[y] = m[y] + (-b) /\ \A c \in S \ {y} : g[c] = m[c]
      BY <1>1, <1>2, <2>1
    <3>2. -b \in Int
      OBVIOUS
    <3>3. SumFunctionOnSet(g, S) = SumFunctionOnSet(m, S) + (-b)
      BY <1>1, <2>1, <3>1, <3>2, SumChange
    <3> QED BY <2>0, <2>1, <3>3
  <2>2. CASE y \notin S
    <3>1. \A c \in S : g[c] = m[c]
      BY <1>1, <1>2, <2>2
    <3> QED BY <2>0, <2>2, <3>1, SumSame
  <2> QED BY <2>1, <2>2
<1> QED BY <1>3, <1>4, <1>5 DEF Part

-----------------------------------------------------------------------------
(* What adds up. *)

\* The fields that add up.
Field == {"callcount", "nonrec", "tsub"}
AddsUpIn(field) ==
    \A p \in DOMAIN pits :
        pits[p][field] = outermost[p][field] + ByCallers(field, p)

\* Every recorded callee has a record of its own, and a function without one was
\* never the outermost.
SumInv ==
    /\ LevelInv
    /\ IsFiniteSet(DOMAIN children)
    /\ \A c \in DOMAIN children : c[2] \in DOMAIN pits
    /\ \A p \in Pit \ DOMAIN pits, field \in Field : outermost[p][field] = 0
    /\ \A field \in Field : AddsUpIn(field)

\* The three fields of the records are numbers.
LEMMA SumTypes ==
    ASSUME TypeOK, NEW field \in Field
    PROVE  /\ \A p \in DOMAIN pits : pits[p][field] \in Int
           /\ \A c \in DOMAIN children : children[c][field] \in Int
           /\ \A p \in Pit : outermost[p][field] \in Int
<1>1. \A r \in Counter : r[field] \in Int
  BY DEF Counter, Field
<1>2. \A r \in [callcount: Nat, nonrec: Nat, tsub: Int] : r[field] \in Int
  BY DEF Field
<1> QED BY <1>1, <1>2 DEF TypeOK

\* The callers that have a record of calling p are finitely many.
LEMMA CallersFinite ==
    ASSUME SumInv, NEW p
    PROVE  IsFiniteSet(Incoming(p)) /\ Incoming(p) \subseteq DOMAIN children
<1>1. Incoming(p) \subseteq DOMAIN children
  BY DEF Incoming
<1> QED BY <1>1, FS_Subset DEF SumInv

\* A new context has no record and no sum.
LEMMA SumInit == Init => SumInv
<1> SUFFICES ASSUME Init PROVE SumInv
  OBVIOUS
<1>1. LevelInv
  BY LevelInit
<1>2. DOMAIN children = {} /\ DOMAIN pits = {}
  BY DEF Init
<1>3. \A p \in Pit, field \in Field : outermost[p][field] = 0
  BY DEF Init, Field
<1> QED BY <1>1, <1>2, <1>3, FS_EmptySet DEF SumInv, AddsUpIn

\* A call event: p, and perhaps its pair with the caller, gets a record of zeros.
LEMMA SumEnter ==
    ASSUME SumInv, LevelInv', NEW p \in Pit, NEW q, outermost' = outermost,
           pits' = WithKey(pits, p, Zero),
           children' = children \/ children' = WithKey(children, <<q, p>>, Zero)
    PROVE  SumInv'
<1>1. IsFiniteSet(DOMAIN children') /\ DOMAIN children' \subseteq DOMAIN children \cup {<<q, p>>}
  <2>1. \/ DOMAIN children' = DOMAIN children
        \/ DOMAIN children' = DOMAIN children \cup {<<q, p>>}
    BY DEF WithKey
  <2> QED BY <2>1, FS_AddElement DEF SumInv
<1>2. DOMAIN pits' = DOMAIN pits \cup {p}
  BY DEF WithKey
<1>3. \A c \in DOMAIN children' : c[2] \in DOMAIN pits'
  BY <1>1, <1>2 DEF SumInv
<1>4. \A r \in Pit \ DOMAIN pits', field \in Field : outermost'[r][field] = 0
  BY <1>2 DEF SumInv
<1>5. ASSUME NEW field \in Field, NEW r \in DOMAIN pits'
      PROVE  pits'[r][field] = outermost'[r][field] + ByCallers(field, r)'
  <2> DEFINE was == [c \in DOMAIN children |-> children[c][field]]
             is == [c \in DOMAIN children' |-> children'[c][field]]
  <2>1. \A c \in DOMAIN children' : c \notin DOMAIN children => c = <<q, p>> /\ is[c] = 0
    BY DEF WithKey, Zero, Field
  <2>2. \A c \in DOMAIN children : c \in DOMAIN children' /\ is[c] = was[c]
    BY DEF WithKey
  <2>3. IsFiniteSet(Incoming(r)) /\ Incoming(r) \subseteq DOMAIN children
    BY CallersFinite
  <2>4. \A c \in Incoming(r) : was[c] \in Int /\ is[c] = was[c]
    BY <2>2, <2>3, SumTypes DEF SumInv, LevelInv
  <2>5. Incoming(r)' = Incoming(r) \/ Incoming(r)' = Incoming(r) \cup {<<q, p>>}
    BY <2>1, <2>2 DEF Incoming
  <2> HIDE DEF was, is
  <2>6. SumFunctionOnSet(is, Incoming(r)) = SumFunctionOnSet(was, Incoming(r))
    BY <2>3, <2>4, SumSame
  <2>7. SumFunctionOnSet(was, Incoming(r)) \in Int
    BY <2>3, <2>4, SumInt
  <2>8. SumFunctionOnSet(is, Incoming(r)') = SumFunctionOnSet(is, Incoming(r))
    <3>1. CASE Incoming(r)' = Incoming(r)
      BY <3>1
    <3>2. CASE Incoming(r)' # Incoming(r)
      <4>1. <<q, p>> \notin Incoming(r) /\ <<q, p>> \in Incoming(r)'
            /\ Incoming(r)' = Incoming(r) \cup {<<q, p>>}
        BY <2>5, <3>2
      <4>2. <<q, p>> \in DOMAIN children' /\ <<q, p>> \notin DOMAIN children
        BY <4>1 DEF Incoming
      <4>3. is[<<q, p>>] = 0
        BY <2>1, <4>2
      <4>4. \A c \in Incoming(r) : is[c] \in Int
        BY <2>4
      <4>5. SumFunctionOnSet(is, Incoming(r) \cup {<<q, p>>})
              = is[<<q, p>>] + SumFunctionOnSet(is, Incoming(r))
        BY <2>3, <4>1, <4>3, <4>4, SumAdd
      <4> QED BY <2>6, <2>7, <4>1, <4>3, <4>5
    <3> QED BY <3>1, <3>2
  <2>9. ByCallers(field, r) = SumFunctionOnSet(was, Incoming(r))
        /\ ByCallers(field, r)' = SumFunctionOnSet(is, Incoming(r)')
    BY DEF ByCallers, was, is
  <2>10. CASE r \in DOMAIN pits
    <3>1. pits'[r] = pits[r]
      BY <2>10 DEF WithKey
    <3>2. pits[r][field] = outermost[r][field] + ByCallers(field, r)
      BY <2>10 DEF SumInv, AddsUpIn
    <3> QED BY <2>6, <2>8, <2>9, <3>1, <3>2
  <2>11. CASE r \notin DOMAIN pits
    <3>1. r = p /\ pits'[r] = Zero
      BY <1>2, <2>11 DEF WithKey
    <3>2. Incoming(r) = {}
      BY <2>11 DEF Incoming, SumInv
    <3>3. ByCallers(field, r)' = 0
      BY <2>6, <2>8, <2>9, <3>2, SumOfNone
    <3>4. outermost[r][field] = 0 /\ Zero[field] = 0
      BY <2>11, <3>1 DEF SumInv, Zero, Field
    <3> QED BY <3>1, <3>3, <3>4
  <2> QED BY <2>10, <2>11
<1> QED BY <1>1, <1>3, <1>4, <1>5 DEF SumInv, AddsUpIn

\* A return event: cp and its pair with the caller pp gain the amount a, pp and
\* its pair with its own caller, if it has one, lose the amount b.
GainsAndLoses(field, cp, pp, pci, ppci, hasPpci, a, b) ==
    /\ \A p \in DOMAIN pits :
         pits'[p][field] = pits[p][field] + (IF p = cp THEN a ELSE 0)
                                          - (IF p = pp THEN b ELSE 0)
    /\ \A c \in DOMAIN children :
         children'[c][field] = children[c][field] + (IF c = pci THEN a ELSE 0)
             - (IF c = ppci /\ hasPpci THEN b ELSE 0)
    /\ \A p \in Pit :
         outermost'[p][field] = outermost[p][field]
             - (IF p = pp /\ ~hasPpci THEN b ELSE 0)

\* Such a return keeps the records and the callers' records in agreement.
LEMMA SumExchanged ==
    ASSUME SumInv, DOMAIN pits' = DOMAIN pits, DOMAIN children' = DOMAIN children,
           NEW field \in Field, NEW cp \in Pit, NEW pp \in Pit,
           NEW hasPpci \in BOOLEAN, NEW pci \in DOMAIN children,
           NEW ppci \in DOMAIN children,
           pci[2] = cp, hasPpci => ppci[2] = pp, NEW a \in Int, NEW b \in Int,
           GainsAndLoses(field, cp, pp, pci, ppci, hasPpci, a, b)
    PROVE  AddsUpIn(field)'
<1> SUFFICES ASSUME NEW p \in DOMAIN pits
             PROVE  pits'[p][field] = outermost'[p][field] + ByCallers(field, p)'
  BY DEF AddsUpIn
<1> DEFINE was == [c \in DOMAIN children |-> children[c][field]]
           is == [c \in DOMAIN children' |-> children'[c][field]]
           lost == IF hasPpci THEN b ELSE 0
<1>1. IsFiniteSet(Incoming(p)) /\ Incoming(p)' = Incoming(p)
      /\ Incoming(p) \subseteq DOMAIN children
  BY CallersFinite DEF Incoming
<1>2. \A c \in Incoming(p) :
        /\ was[c] \in Int
        /\ is[c] = was[c] + (IF c = pci THEN a ELSE 0)
                          - (IF c = ppci THEN lost ELSE 0)
  <2>1. \A c \in Incoming(p) : was[c] = children[c][field] /\ is[c] = children'[c][field]
    BY <1>1
  <2>2. \A c \in Incoming(p) : children[c][field] \in Int
    BY <1>1, SumTypes DEF SumInv, LevelInv
  <2>3. \A c \in Incoming(p) : children'[c][field]
          = children[c][field] + (IF c = pci THEN a ELSE 0)
             - (IF c = ppci /\ hasPpci THEN b ELSE 0)
    BY <1>1 DEF GainsAndLoses
  <2> HIDE DEF was, is
  <2> QED BY <2>1, <2>2, <2>3
<1>3. lost \in Int
  OBVIOUS
<1> HIDE DEF was, is, lost
<1>4. SumFunctionOnSet(is, Incoming(p)) = SumFunctionOnSet(was, Incoming(p))
        + (IF pci \in Incoming(p) THEN a ELSE 0)
        - (IF ppci \in Incoming(p) THEN lost ELSE 0)
  <2>1. \A c \in Incoming(p) : was[c] \in Int
    BY <1>2
  <2>2. \A c \in Incoming(p) : is[c] = was[c] + (IF c = pci THEN a ELSE 0)
                                             - (IF c = ppci THEN lost ELSE 0)
    BY <1>2
  <2>3. IsFiniteSet(Incoming(p))
    BY <1>1
  <2> DEFINE S == Incoming(p)
  <2> HIDE DEF S
  <2>4. SumFunctionOnSet(is, S)
          = SumFunctionOnSet(was, S) + Part(pci, S, a) - Part(ppci, S, lost)
    <3>1. /\ \A c \in S : was[c] \in Int
          /\ \A c \in S : is[c] = was[c] + (IF c = pci THEN a ELSE 0)
                                          - (IF c = ppci THEN lost ELSE 0)
      BY <2>1, <2>2 DEF S
    <3>2. IsFiniteSet(S)
      BY <2>3 DEF S
    <3> QED BY <1>3, <3>1, <3>2, SumExchange
  <2> QED BY <2>4 DEF S, Part
<1>5. SumFunctionOnSet(was, Incoming(p)) \in Int
  BY <1>1, <1>2, SumInt
<1>6. ByCallers(field, p) = SumFunctionOnSet(was, Incoming(p))
      /\ ByCallers(field, p)' = SumFunctionOnSet(is, Incoming(p))
  BY <1>1 DEF ByCallers, was, is
<1>7. (pci \in Incoming(p) <=> p = cp) /\ (hasPpci => (ppci \in Incoming(p) <=> p = pp))
  BY DEF Incoming
<1>8. (IF ppci \in Incoming(p) THEN lost ELSE 0) = (IF p = pp /\ hasPpci THEN b ELSE 0)
  <2>1. CASE hasPpci
    BY <1>7, <2>1 DEF lost
  <2>2. CASE ~hasPpci
    BY <2>2 DEF lost
  <2> QED BY <2>1, <2>2
<1>9. pits[p][field] = outermost[p][field] + ByCallers(field, p)
  BY DEF SumInv, AddsUpIn
<1>10. p \in Pit /\ pits[p][field] \in Int /\ outermost[p][field] \in Int
  BY SumTypes DEF SumInv, LevelInv, TypeOK
<1>11. /\ pits'[p][field] = pits[p][field] + (IF p = cp THEN a ELSE 0)
                                           - (IF p = pp THEN b ELSE 0)
       /\ outermost'[p][field] = outermost[p][field]
                                  - (IF p = pp /\ ~hasPpci THEN b ELSE 0)
  BY <1>10 DEF GainsAndLoses
<1> QED BY <1>4, <1>5, <1>6, <1>7, <1>8, <1>9, <1>10, <1>11

\* The last function of the stack leaves: what it gains is added to what it did as
\* the outermost function.
LEMMA SumLeaveOutermost ==
    ASSUME SumInv, LevelInv', NEW f \in Frame, NEW suspended \in BOOLEAN,
           LeaveOutermost(f, suspended)
    PROVE  SumInv'
<1> DEFINE cp == Top(stack).pit
           e == Elapsed(f, suspended)
           done == One(~suspended)
<1>1. stack \in Seq(Entry) /\ stack # <<>> /\ Len(stack) \in 1..Len(stack)
  <2>1. stack \in Seq(Entry)
    BY DEF SumInv, LevelInv, TypeOK, Entry
  <2>2. Len(stack) = 1
    BY DEF LeaveOutermost
  <2> QED BY <2>1, <2>2, EmptySeq
<1>2. cp \in Pit /\ cp \in DOMAIN pits
  <2>1. cp \in Pit
    BY <1>1, TopEntry
  <2>2. cp \in DOMAIN pits
    BY <1>1 DEF SumInv, LevelInv, PairsRecorded, Top
  <2> QED BY <2>1, <2>2
<1>3. e \in Int /\ done \in Int
  BY <1>1, ElapsedType DEF SumInv, LevelInv, One
<1>4. children' = children
  BY DEF LeaveOutermost
<1> DEFINE new == [callcount |-> pits[cp].callcount + done,
                   nonrec    |-> pits[cp].nonrec + done,
                   tsub      |-> pits[cp].tsub + e,
                   ttotal    |-> pits[cp].ttotal + e]
           out == [callcount |-> outermost[cp].callcount + done,
                   nonrec    |-> outermost[cp].nonrec + done,
                   tsub      |-> outermost[cp].tsub + e]
<1>5. pits' = [pits EXCEPT ![cp] = new] /\ outermost' = [outermost EXCEPT ![cp] = out]
  BY DEF LeaveOutermost
<1>6. /\ DOMAIN pits' = DOMAIN pits
      /\ \A p \in Pit : p # cp => outermost'[p] = outermost[p]
      /\ \A p \in DOMAIN pits : p # cp => pits'[p] = pits[p]
  <2> HIDE DEF new, out, cp
  <2> QED BY <1>5 DEF SumInv, LevelInv, TypeOK
<1>7. pits'[cp] = new /\ outermost'[cp] = out
  <2>1. cp \in DOMAIN outermost
    BY <1>2 DEF SumInv, LevelInv, TypeOK
  <2> HIDE DEF new, out, cp
  <2> QED BY <1>2, <1>5, <2>1
<1>8. \A field \in Field : \E a \in Int :
        new[field] = pits[cp][field] + a /\ out[field] = outermost[cp][field] + a
  <2> TAKE field \in Field
  <2>1. CASE field = "tsub"
    BY <1>3, <2>1
  <2>2. CASE field = "callcount"
    BY <1>3, <2>2
  <2>3. CASE field = "nonrec"
    BY <1>3, <2>3
  <2> QED BY <2>1, <2>2, <2>3 DEF Field
<1> HIDE DEF new, out, cp, e, done
<1>9. ASSUME NEW field \in Field, NEW p \in DOMAIN pits
      PROVE  pits'[p][field] = outermost'[p][field] + ByCallers(field, p)'
  <2>1. ByCallers(field, p)' = ByCallers(field, p)
    BY <1>4 DEF ByCallers, Incoming
  <2>2. pits[p][field] = outermost[p][field] + ByCallers(field, p)
    BY DEF SumInv, AddsUpIn
  <2>3. ByCallers(field, p) \in Int
    <3>1. \A c \in Incoming(p) : [x \in DOMAIN children |-> children[x][field]][c] \in Int
      BY CallersFinite, SumTypes DEF SumInv, LevelInv
    <3> QED BY <3>1, CallersFinite, SumInt DEF ByCallers
  <2>4. p \in Pit /\ outermost[p][field] \in Int
    BY SumTypes DEF SumInv, LevelInv, TypeOK
  <2>5. CASE p = cp
    <3>1. PICK a \in Int : /\ new[field] = pits[cp][field] + a
                           /\ out[field] = outermost[cp][field] + a
      BY <1>8
    <3> QED BY <1>7, <2>1, <2>2, <2>3, <2>4, <2>5, <3>1
  <2>6. CASE p # cp
    BY <1>6, <2>1, <2>2, <2>4, <2>6
  <2> QED BY <2>5, <2>6
<1>10. \A p \in Pit \ DOMAIN pits', field \in Field : outermost'[p][field] = 0
  BY <1>2, <1>6 DEF SumInv
<1> QED BY <1>4, <1>6, <1>9, <1>10 DEF SumInv, AddsUpIn

\* A function leaves to the one under it: it gains with its pair with that one, and
\* what the caller loses its own pair loses too, or the history when it has none.
LEMMA SumLeaveToParent ==
    ASSUME SumInv, LevelInv', NEW f \in Frame, NEW suspended \in BOOLEAN,
           LeaveToParent(f, suspended)
    PROVE  SumInv'
<1> DEFINE n == Len(stack)
           cp == stack[n].pit
           pp == stack[n-1].pit
           pci == <<pp, cp>>
           hasPpci == n > 2
           ppci == IF hasPpci THEN <<stack[n-2].pit, pp>> ELSE pci
           e == Elapsed(f, suspended)
           done == ~suspended
           outer == Level(pitLevel, cp) = 1
           outerPair == Level(childLevel, pci) = 1
<1>1. stack \in Seq(Entry) /\ n > 1
  BY DEF SumInv, LevelInv, TypeOK, Entry, LeaveToParent
<1>2. stack # <<>> /\ n \in 1..n /\ n - 1 \in 1..n
  <2>1. ~(0 > 1)
    OBVIOUS
  <2> QED BY <1>1, <2>1, EmptySeq, LenProperties
<1>3. cp \in Pit /\ pp \in Pit /\ pp \in DOMAIN pits
  BY <1>1, <1>2, TopEntry DEF SumInv, LevelInv, PairsRecorded
<1>4. e \in Int
  BY <1>2, ElapsedType DEF SumInv, LevelInv
<1>5. /\ pci \in DOMAIN children
      /\ ppci \in DOMAIN children
      /\ pits' = PitsOnLeave(cp, pp, e, done, outer)
      /\ children' = ChildrenOnLeave(pci, hasPpci, ppci, e, done, outer, outerPair)
      /\ outermost' = IF hasPpci THEN outermost
                      ELSE [outermost EXCEPT ![pp].tsub = outermost[pp].tsub - e]
  BY DEF LeaveToParent
<1>6. pci[2] = cp /\ (hasPpci => ppci[2] = pp) /\ hasPpci \in BOOLEAN
      /\ done \in BOOLEAN /\ outer \in BOOLEAN
  OBVIOUS
<1> HIDE DEF n, cp, pp, pci, ppci, hasPpci, e, done, outer, outerPair
<1>7. /\ DOMAIN pits' = DOMAIN pits
      /\ \A p \in DOMAIN pits :
           /\ pits'[p].callcount = pits[p].callcount + One(p = cp /\ done)
           /\ pits'[p].nonrec = pits[p].nonrec + One(p = cp /\ done /\ outer)
           /\ pits'[p].tsub = pits[p].tsub + (IF p = cp THEN e ELSE 0)
                                           - (IF p = pp THEN e ELSE 0)
  BY <1>5 DEF PitsOnLeave
<1>8. /\ DOMAIN children' = DOMAIN children
      /\ \A c \in DOMAIN children :
           /\ children'[c].callcount = children[c].callcount + One(c = pci /\ done)
           /\ children'[c].nonrec = children[c].nonrec + One(c = pci /\ done /\ outer)
           /\ children'[c].tsub = children[c].tsub + (IF c = pci THEN e ELSE 0)
                         - (IF c = ppci /\ hasPpci THEN e ELSE 0)
  BY <1>5 DEF ChildrenOnLeave
<1>9. \A p \in Pit :
        /\ outermost'[p].callcount = outermost[p].callcount
        /\ outermost'[p].nonrec = outermost[p].nonrec
        /\ outermost'[p].tsub = outermost[p].tsub - (IF p = pp /\ ~hasPpci THEN e ELSE 0)
  <2>1. outermost \in [Pit -> [callcount: Nat, nonrec: Nat, tsub: Int]]
    BY DEF SumInv, LevelInv, TypeOK
  <2>2. CASE hasPpci
    BY <1>5, <2>1, <2>2
  <2>3. CASE ~hasPpci
    <3> DEFINE new == [outermost[pp] EXCEPT !.tsub = outermost[pp].tsub - e]
    <3>1. outermost' = [outermost EXCEPT ![pp] = new]
      BY <1>5, <2>3
    <3>2. /\ new.callcount = outermost[pp].callcount
          /\ new.nonrec = outermost[pp].nonrec
          /\ new.tsub = outermost[pp].tsub - e
      BY <1>3, <2>1
    <3>3. \A p \in Pit : outermost[p].tsub \in Int
      BY <2>1
    <3> HIDE DEF new
    <3>4. \A p \in Pit : outermost'[p] = IF p = pp THEN new ELSE outermost[p]
      BY <2>1, <3>1
    <3> QED BY <2>3, <3>2, <3>3, <3>4
  <2> QED BY <2>2, <2>3
<1>10. \A field \in Field : \E a \in Int, b \in Int :
         GainsAndLoses(field, cp, pp, pci, ppci, hasPpci, a, b)
  <2>1. \A field \in Field :
          /\ \A p \in DOMAIN pits : pits[p][field] \in Int
          /\ \A c \in DOMAIN children : children[c][field] \in Int
          /\ \A p \in Pit : outermost[p][field] \in Int
    BY SumTypes DEF SumInv, LevelInv
  <2>2. GainsAndLoses("tsub", cp, pp, pci, ppci, hasPpci, e, e)
    BY <1>7, <1>8, <1>9 DEF GainsAndLoses
  <2>3. GainsAndLoses("callcount", cp, pp, pci, ppci, hasPpci, One(done), 0)
    <3>1. \A p : One(p = cp /\ done) = IF p = cp THEN One(done) ELSE 0
      BY <1>6 DEF One
    <3>2. \A c : One(c = pci /\ done) = IF c = pci THEN One(done) ELSE 0
      BY <1>6 DEF One
    <3>3. One(done) \in Int
      BY DEF One
    <3>4. "callcount" \in Field
      BY DEF Field
    <3>5. /\ \A p \in DOMAIN pits : pits[p].callcount \in Int
          /\ \A c \in DOMAIN children : children[c].callcount \in Int
          /\ \A p \in Pit : outermost[p].callcount \in Int
      BY <2>1, <3>4
    <3>6. \A p \in DOMAIN pits : pits'[p].callcount
            = pits[p].callcount + (IF p = cp THEN One(done) ELSE 0)
      BY <1>7, <3>1
    <3>7. \A c \in DOMAIN children : children'[c].callcount
            = children[c].callcount + (IF c = pci THEN One(done) ELSE 0)
      BY <1>8, <3>2
    <3> QED BY <1>9, <3>3, <3>5, <3>6, <3>7 DEF GainsAndLoses
  <2>4. GainsAndLoses("nonrec", cp, pp, pci, ppci, hasPpci, One(done /\ outer), 0)
    <3>1. \A p : One(p = cp /\ done /\ outer) = IF p = cp THEN One(done /\ outer) ELSE 0
      BY <1>6 DEF One
    <3>2. \A c : One(c = pci /\ done /\ outer) = IF c = pci THEN One(done /\ outer) ELSE 0
      BY <1>6 DEF One
    <3>3. One(done /\ outer) \in Int
      BY DEF One
    <3>4. "nonrec" \in Field
      BY DEF Field
    <3>5. /\ \A p \in DOMAIN pits : pits[p].nonrec \in Int
          /\ \A c \in DOMAIN children : children[c].nonrec \in Int
          /\ \A p \in Pit : outermost[p].nonrec \in Int
      BY <2>1, <3>4
    <3>6. \A p \in DOMAIN pits : pits'[p].nonrec
            = pits[p].nonrec + (IF p = cp THEN One(done /\ outer) ELSE 0)
      BY <1>7, <3>1
    <3>7. \A c \in DOMAIN children : children'[c].nonrec
            = children[c].nonrec + (IF c = pci THEN One(done /\ outer) ELSE 0)
      BY <1>8, <3>2
    <3> QED BY <1>9, <3>3, <3>5, <3>6, <3>7 DEF GainsAndLoses
  <2>5. One(done) \in Int /\ One(done /\ outer) \in Int /\ 0 \in Int
    BY DEF One
  <2> QED BY <1>4, <2>2, <2>3, <2>4, <2>5 DEF Field
<1>11. \A field \in Field : AddsUpIn(field)'
  <2> TAKE field \in Field
  <2>1. PICK a \in Int, b \in Int :
          GainsAndLoses(field, cp, pp, pci, ppci, hasPpci, a, b)
    BY <1>10
  <2> QED BY <1>3, <1>5, <1>6, <1>7, <1>8, <2>1, SumExchanged
<1>12. \A p \in Pit \ DOMAIN pits', field \in Field : outermost'[p][field] = 0
  <2>1. \A p \in Pit \ DOMAIN pits, field \in Field : outermost'[p][field] = outermost[p][field]
    BY <1>3, <1>9, SumTypes DEF Field, SumInv, LevelInv
  <2> QED BY <1>7, <2>1 DEF SumInv
<1> QED BY <1>7, <1>8, <1>11, <1>12 DEF SumInv

\* Other steps leave the records alone.
LEMMA SumKept ==
    ASSUME SumInv, LevelInv', pits' = pits, children' = children, outermost' = outermost
    PROVE  SumInv'
<1>1. \A field, p : ByCallers(field, p)' = ByCallers(field, p)
  BY DEF ByCallers, Incoming
<1> QED BY <1>1 DEF SumInv, AddsUpIn

\* Every step but a reading keeps the sums.
LEMMA SumStep ==
    ASSUME SumInv, [NextUnread]_vars
    PROVE  SumInv'
<1>0. LevelInv'
  <2>1. [Next]_vars
    BY DEF NextUnread, Next
  <2> QED BY <2>1, LevelStep DEF SumInv
<1>1. ASSUME NEW p \in Pit, NEW f \in Frame, CallEnter(p, f) PROVE SumInv'
  BY <1>0, <1>1, SumEnter DEF CallEnter, ChildrenOnEntry
<1>2. ASSUME NEW p \in Pit, CallEnterNoChild(p) PROVE SumInv'
  BY <1>0, <1>2, SumEnter DEF CallEnterNoChild
<1>3. ASSUME NEW p \in Pit, CallEnterNoSlot(p) PROVE SumInv'
  BY <1>0, <1>3, SumEnter DEF CallEnterNoSlot, ChildrenOnEntry
<1>4. ASSUME NEW f \in Frame, NEW suspended \in BOOLEAN, LeaveUnseen(f, suspended)
      PROVE  SumInv'
  BY <1>0, <1>4, SumKept DEF LeaveUnseen, vars
<1>5. ASSUME NEW f \in Frame, NEW suspended \in BOOLEAN, LeaveOutermost(f, suspended)
      PROVE  SumInv'
  BY <1>0, <1>5, SumLeaveOutermost
<1>6. ASSUME NEW f \in Frame, NEW suspended \in BOOLEAN, LeaveToParent(f, suspended)
      PROVE  SumInv'
  BY <1>0, <1>6, SumLeaveToParent
<1>7. CASE Tick
  BY <1>0, <1>7, SumKept DEF Tick
<1>8. CASE UNCHANGED vars
  BY <1>0, <1>8, SumKept DEF vars
<1> QED
  BY <1>1, <1>2, <1>3, <1>4, <1>5, <1>6, <1>7, <1>8 DEF NextUnread, Event, CallLeave

\* The two properties are the invariant, field by field.
LEMMA SumInvImplies == SumInv => SelfTimesAddUp /\ CallCountsAddUp
<1> SUFFICES ASSUME SumInv PROVE SelfTimesAddUp /\ CallCountsAddUp
  OBVIOUS
<1>1. AddsUpIn("tsub") /\ AddsUpIn("callcount") /\ AddsUpIn("nonrec")
  BY DEF SumInv, Field
<1> QED BY <1>1 DEF AddsUpIn, SelfTimesAddUp, CallCountsAddUp

\* No time is lost or invented between the two kinds of records, for any number of
\* functions and any stream of calls and returns, with coroutines and recursion, and
\* after failed allocations: what the records of a function's callers say of its self
\* time, plus what it did as the outermost function, is what its own record says.
THEOREM NoTimeLost == SpecUnread => []SelfTimesAddUp
BY SumInit, SumStep, SumInvImplies, PTL DEF SpecUnread

\* The same of the calls, and of the non-recursive calls: each is credited to exactly
\* one caller, or was a call from an empty stack.
THEOREM NoCallLost == SpecUnread => []CallCountsAddUp
BY SumInit, SumStep, SumInvImplies, PTL DEF SpecUnread

-----------------------------------------------------------------------------
(* What the activations on the stack are owed. *)

\* What each place of stack s is owed at a time, and the places O together.
Owing(s, time) == [i \in 1..Len(s) |->
                    (IF i = Len(s) THEN time ELSE s[i+1].t0) - s[i].t0]
OwedAt(s, O, time) == SumFunctionOnSet(Owing(s, time), O)

\* What a place is owed is a number.
LEMMA OwingInt ==
    ASSUME NEW s \in Seq(Entry), NEW time \in Nat
    PROVE  /\ Len(s) \in Nat /\ IsFiniteSet(1..Len(s))
           /\ \A i \in 1..Len(s) : Owing(s, time)[i] \in Int
           /\ \A i \in 1..Len(s) : s[i].t0 \in Nat
<1>1. Len(s) \in Nat /\ IsFiniteSet(1..Len(s))
  BY LenProperties, FS_Interval
<1>2. \A i \in 1..Len(s) : s[i].t0 \in Nat
  <2>1. CASE s = <<>>
    <3>1. 1..0 = {} /\ Len(s) = 0
      BY <2>1, EmptySeq
    <3> QED BY <3>1
  <2>2. CASE s # <<>>
    BY <2>2, TopEntry
  <2> QED BY <2>1, <2>2
<1>3. ASSUME NEW i \in 1..Len(s) PROVE Owing(s, time)[i] \in Int
  <2>1. CASE i = Len(s)
    BY <1>2, <2>1 DEF Owing
  <2>2. CASE i # Len(s)
    <3>1. i + 1 \in 1..Len(s)
      BY <1>1, <2>2
    <3>2. s[i].t0 \in Nat /\ s[i+1].t0 \in Nat
      BY <1>2, <3>1
    <3> QED BY <2>2, <3>2 DEF Owing
  <2> QED BY <2>1, <2>2
<1> QED BY <1>1, <1>2, <1>3

\* So is what some places are owed together.
LEMMA OwedInt ==
    ASSUME NEW s \in Seq(Entry), NEW time \in Nat, NEW O \in SUBSET (1..Len(s))
    PROVE  OwedAt(s, O, time) \in Int /\ IsFiniteSet(O)
<1>1. IsFiniteSet(O)
  BY OwingInt, FS_Subset
<1>2. \A i \in O : Owing(s, time)[i] \in Int
  BY OwingInt
<1> QED BY <1>1, <1>2, SumInt DEF OwedAt

\* A call event is owed nothing yet, and takes nothing from the others.
LEMMA OwedPush ==
    ASSUME NEW s \in Seq(Entry), NEW x \in Entry, NEW O \in SUBSET (1..Len(s)),
           NEW time \in Nat, x.t0 = time
    PROVE  /\ OwedAt(Append(s, x), O, time) = OwedAt(s, O, time)
           /\ OwedAt(Append(s, x), O \cup {Len(s) + 1}, time) = OwedAt(s, O, time)
<1> DEFINE n == Len(s)
           t == Append(s, x)
<1>1. n \in Nat /\ Len(t) = n + 1 /\ t[n+1] = x /\ \A i \in 1..n : t[i] = s[i]
  BY AppendProperties, LenProperties
<1>2. t \in Seq(Entry) /\ O \subseteq 1..n
  BY AppendProperties
<1>3. \A i \in 1..n : Owing(s, time)[i] \in Int /\ s[i].t0 \in Nat
  BY OwingInt
<1> HIDE DEF n, t
<1>4. ASSUME NEW i \in 1..n PROVE Owing(t, time)[i] = Owing(s, time)[i]
  <2>1. i \in 1..Len(t) /\ i # Len(t)
    BY <1>1
  <2>2. Owing(t, time)[i] = t[i+1].t0 - t[i].t0
    BY <2>1 DEF Owing
  <2>3. CASE i = n
    BY <1>1, <2>2, <2>3 DEF Owing, n
  <2>4. CASE i # n
    <3>1. i + 1 \in 1..n
      BY <1>1, <2>4
    <3> QED BY <1>1, <2>2, <2>4, <3>1 DEF Owing, n
  <2> QED BY <2>3, <2>4
<1>5. Owing(t, time)[n+1] = 0
  <2>1. n + 1 \in 1..Len(t) /\ n + 1 = Len(t)
    BY <1>1
  <2>2. Owing(t, time)[n+1] = time - t[n+1].t0
    BY <2>1 DEF Owing
  <2> QED BY <1>1, <2>2
<1>6. IsFiniteSet(O) /\ OwedAt(s, O, time) \in Int
  BY OwedInt
<1>7. OwedAt(t, O, time) = OwedAt(s, O, time)
  BY <1>2, <1>4, <1>6, SumSame DEF OwedAt
<1>8. OwedAt(t, O \cup {n + 1}, time) = 0 + OwedAt(t, O, time)
  <2>1. n + 1 \notin O
    BY <1>1, <1>2
  <2>2. \A i \in O : Owing(t, time)[i] \in Int
    BY <1>2, <1>3, <1>4
  <2>3. Owing(t, time)[n + 1] \in Int
    BY <1>5
  <2> DEFINE f == Owing(t, time)
             x1 == n + 1
  <2>4. SumFunctionOnSet(f, O \cup {x1}) = f[x1] + SumFunctionOnSet(f, O)
    <3>1. \A i \in O : f[i] \in Int
      BY <2>2
    <3>2. f[x1] \in Int /\ x1 \notin O
      BY <2>1, <2>3
    <3> HIDE DEF f, x1
    <3> QED BY <1>6, <3>1, <3>2, SumAdd
  <2> QED BY <1>5, <2>4 DEF OwedAt
<1> QED BY <1>6, <1>7, <1>8 DEF n, t

\* What was owed to the call that ends goes, and the one under it is owed as much
\* more as the one that ends has taken since its entry.
LEMMA OwedPop ==
    ASSUME NEW s \in Seq(Entry), s # <<>>, NEW O \in SUBSET (1..Len(s)),
           NEW time \in Nat, NEW e, e = time - Top(s).t0
    PROVE  OwedAt(Pop(s), O \ {Len(s)}, time)
             = OwedAt(s, O, time) - Part(Len(s), O, e) + Part(Len(s) - 1, O, e)
<1> DEFINE n == Len(s)
           t == Pop(s)
           R == O \ {n}
<1>1. n \in Nat \ {0} /\ Len(t) = n - 1 /\ t \in Seq(Entry)
      /\ \A i \in 1..(n - 1) : t[i] = s[i]
  BY PopStack
<1>2. \A i \in 1..n : Owing(s, time)[i] \in Int /\ s[i].t0 \in Nat
  BY OwingInt
<1>3. n \in 1..n /\ O \subseteq 1..n /\ Top(s) = s[n]
  BY <1>1 DEF Top
<1>4. e \in Int
  BY <1>2, <1>3
<1> HIDE DEF n, t
<1>5. \A i \in R : i \in 1..(n - 1)
  BY <1>1, <1>3
<1>6. ASSUME NEW i \in R
      PROVE  Owing(t, time)[i] = Owing(s, time)[i] + (IF i = n - 1 THEN e ELSE 0)
  <2>0. i \in 1..(n - 1) /\ i \in 1..n /\ i # n /\ i + 1 \in 1..n
    BY <1>1, <1>5
  <2>1. Owing(s, time)[i] = s[i+1].t0 - s[i].t0
    BY <2>0 DEF Owing, n
  <2>2. s[i].t0 \in Nat /\ s[i+1].t0 \in Nat
    BY <1>2, <2>0
  <2>3. CASE i = n - 1
    <3>1. Owing(t, time)[i] = time - t[i].t0
      BY <1>1, <2>0, <2>3 DEF Owing
    <3>2. i + 1 = n /\ t[i] = s[i]
      BY <1>1, <2>0, <2>3
    <3> QED BY <1>3, <2>1, <2>2, <2>3, <3>1, <3>2
  <2>4. CASE i # n - 1
    <3>1. Owing(t, time)[i] = t[i+1].t0 - t[i].t0
      BY <1>1, <2>0, <2>4 DEF Owing
    <3>2. i + 1 \in 1..(n - 1)
      BY <1>1, <2>0, <2>4
    <3>3. t[i] = s[i] /\ t[i+1] = s[i+1]
      BY <1>1, <2>0, <3>2
    <3> QED BY <2>1, <2>2, <2>4, <3>1, <3>3
  <2> QED BY <2>3, <2>4
<1>7. IsFiniteSet(O) /\ OwedAt(s, O, time) \in Int
  BY OwedInt
<1>8. IsFiniteSet(R) /\ R \subseteq O
  BY <1>7, FS_Subset
<1>9. \A i \in R : Owing(s, time)[i] \in Int
  BY <1>2, <1>3
<1>10. OwedAt(s, R, time) \in Int
  BY <1>8, <1>9, SumInt DEF OwedAt
<1>11. OwedAt(s, O, time) = OwedAt(s, R, time) + Part(n, O, e)
  <2>1. CASE n \in O
    <3>1. Owing(s, time)[n] = e
      BY <1>3 DEF Owing, n
    <3>2. \A i \in O : Owing(s, time)[i] \in Int
      BY <1>2, <1>3
    <3> DEFINE f == Owing(s, time)
    <3>3. SumFunctionOnSet(f, O) = f[n] + SumFunctionOnSet(f, O \ {n})
      <4>1. \A i \in O : f[i] \in Int
        BY <3>2
      <4> HIDE DEF f
      <4> QED BY <1>7, <2>1, <4>1, SumRemove
    <3>4. OwedAt(s, O, time) = e + OwedAt(s, R, time)
      BY <3>1, <3>3 DEF OwedAt
    <3>5. Part(n, O, e) = e
      BY <2>1 DEF Part
    <3> HIDE DEF R
    <3> QED BY <1>4, <1>10, <3>4, <3>5
  <2>2. CASE n \notin O
    <3>1. R = O
      BY <2>2
    <3>2. Part(n, O, e) = 0
      BY <2>2 DEF Part
    <3> HIDE DEF R
    <3> QED BY <1>10, <3>1, <3>2
  <2> QED BY <2>1, <2>2
<1>12. OwedAt(t, R, time) = OwedAt(s, R, time) + Part(n - 1, R, e)
  <2>1. CASE n - 1 \in R
    <3>1. Owing(t, time)[n - 1] = Owing(s, time)[n - 1] + e
      BY <1>6, <2>1
    <3>2. \A i \in R \ {n - 1} : Owing(t, time)[i] = Owing(s, time)[i]
      BY <1>6, <1>9
    <3> HIDE DEF R
    <3>3. OwedAt(t, R, time) = OwedAt(s, R, time) + e
      BY <1>4, <1>8, <1>9, <2>1, <3>1, <3>2, SumChange DEF OwedAt
    <3> QED BY <2>1, <3>3 DEF Part
  <2>2. CASE n - 1 \notin R
    <3>1. \A i \in R : Owing(t, time)[i] = Owing(s, time)[i]
      BY <1>6, <1>9, <2>2
    <3> HIDE DEF R
    <3>2. OwedAt(t, R, time) = OwedAt(s, R, time)
      BY <1>8, <3>1, SumSame DEF OwedAt
    <3> QED BY <1>10, <2>2, <3>2 DEF Part
  <2> QED BY <2>1, <2>2
<1>13. Part(n - 1, R, e) = Part(n - 1, O, e)
  <2>1. n - 1 # n
    BY <1>1
  <2> QED BY <2>1 DEF Part
<1>14. Part(n, O, e) \in Int /\ Part(n - 1, O, e) \in Int
  BY <1>4 DEF Part
<1> HIDE DEF R
<1>15. OwedAt(t, R, time) = OwedAt(s, O, time) - Part(n, O, e) + Part(n - 1, O, e)
  BY <1>10, <1>11, <1>12, <1>13, <1>14
<1> QED BY <1>15 DEF R, n, t

\* As time passes the place on top is owed it.
LEMMA OwedTick ==
    ASSUME NEW s \in Seq(Entry), NEW O \in SUBSET (1..Len(s)), NEW time \in Nat
    PROVE  OwedAt(s, O, time + 1) = OwedAt(s, O, time) + Part(Len(s), O, 1)
<1> DEFINE n == Len(s)
<1>1. n \in Nat /\ O \subseteq 1..n
  BY LenProperties
<1>2. \A i \in 1..n : Owing(s, time)[i] \in Int /\ s[i].t0 \in Nat
  BY OwingInt
<1>3. \A i \in O : /\ Owing(s, time)[i] \in Int
                   /\ Owing(s, time + 1)[i] = Owing(s, time)[i] + (IF i = n THEN 1 ELSE 0)
  <2> TAKE i \in O
  <2>1. i \in 1..n /\ Owing(s, time)[i] \in Int /\ s[i].t0 \in Nat
    BY <1>1, <1>2
  <2>2. CASE i = n
    <3>1. Owing(s, time)[i] = time - s[i].t0 /\ Owing(s, time + 1)[i] = time + 1 - s[i].t0
      BY <2>1, <2>2 DEF Owing
    <3> QED BY <2>1, <2>2, <3>1
  <2>3. CASE i # n
    <3>1. Owing(s, time + 1)[i] = Owing(s, time)[i]
      BY <2>1, <2>3 DEF Owing
    <3> QED BY <2>1, <2>3, <3>1
  <2> QED BY <2>2, <2>3
<1>4. IsFiniteSet(O) /\ OwedAt(s, O, time) \in Int
  BY OwedInt
<1> HIDE DEF n
<1>5. CASE n \in O
  <2>1. Owing(s, time + 1)[n] = Owing(s, time)[n] + 1
    BY <1>3, <1>5
  <2>2. \A i \in O \ {n} : Owing(s, time + 1)[i] = Owing(s, time)[i]
    BY <1>3
  <2>3. \A i \in O : Owing(s, time)[i] \in Int
    BY <1>3
  <2>4. OwedAt(s, O, time + 1) = OwedAt(s, O, time) + 1
    <3> DEFINE f == Owing(s, time)
               g == Owing(s, time + 1)
               one == 1
    <3>1. one \in Int /\ g[n] = f[n] + one
      BY <2>1
    <3>2. \A i \in O \ {n} : g[i] = f[i]
      BY <2>2
    <3>3. \A i \in O : f[i] \in Int
      BY <2>3
    <3>4. SumFunctionOnSet(g, O) = SumFunctionOnSet(f, O) + one
      <4> HIDE DEF f, g, one
      <4> QED BY <1>4, <1>5, <3>1, <3>2, <3>3, SumChange
    <3> QED BY <3>4 DEF OwedAt
  <2> QED BY <1>5, <2>4 DEF Part, n
<1>6. CASE n \notin O
  <2>1. \A i \in O : Owing(s, time + 1)[i] = Owing(s, time)[i]
    BY <1>3, <1>6
  <2>2. OwedAt(s, O, time + 1) = OwedAt(s, O, time)
    BY <1>4, <2>1, SumSame DEF OwedAt
  <2> QED BY <1>4, <1>6, <2>2 DEF Part, n
<1> QED BY <1>5, <1>6

-----------------------------------------------------------------------------
(* What is promised: what the records hold and what the stack is owed. *)

SelfTime(p) == Recorded(pits, p).tsub + OwedAt(stack, Occ(stack, p), now)
TotalTime(p) == Recorded(pits, p).ttotal + RunningAt(stack, Occ(stack, p), now)
PairSelfTime(c) == Recorded(children, c).tsub + OwedAt(stack, PairOcc(stack, c), now)
PairTotalTime(c) ==
    Recorded(children, c).ttotal + RunningAt(stack, PairOcc(stack, c), now)

\* Self times are never negative once what is owed is counted, and every recorded
\* function, and pair, has been called or is being called.
PromiseInv ==
    /\ TimeInv
    /\ \A p \in Pit : SelfTime(p) \in Nat
    /\ \A c \in Pair : PairSelfTime(c) \in Nat
    /\ \A p \in DOMAIN pits : pits[p].callcount # 0 \/ Occ(stack, p) # {}
    /\ \A c \in DOMAIN children : children[c].callcount # 0 \/ PairOcc(stack, c) # {}

\* These are the values that the refinement mapping gives to CallTimes.
LEMMA OwedIs ==
    /\ \A O : OwedTo(O) = OwedAt(stack, O, now)
    /\ \A O : Running(O) = RunningAt(stack, O, now)
    /\ \A O : OwedTo(O)' = OwedAt(stack', O, now')
    /\ \A O : Running(O)' = RunningAt(stack', O, now')
<1>1. [i \in 1..Len(stack) |-> Owed(i)] = Owing(stack, now)
  BY DEF Owed, Owing
<1>2. [i \in 1..Len(stack') |-> Owed(i)'] = Owing(stack', now')
  BY DEF Owed, Owing
<1> QED
  BY <1>1, <1>2 DEF OwedTo, OwedAt, Running, RunningAt

\* The mapped variables of CallTimes are the four times above.
LEMMA PromisedIs ==
    /\ \A p \in Pit : Recorded(pits, p).tsub + OwedTo(Activations(p)) = SelfTime(p)
    /\ \A p \in Pit : Recorded(pits, p).ttotal + Running(Activations(p)) = TotalTime(p)
    /\ \A c \in Pair :
         Recorded(children, c).tsub + OwedTo(PairActivations(c)) = PairSelfTime(c)
    /\ \A c \in Pair :
         Recorded(children, c).ttotal + Running(PairActivations(c)) = PairTotalTime(c)
BY OwedIs, ActivationsAreOcc DEF SelfTime, TotalTime, PairSelfTime, PairTotalTime

\* The same in the next state.
LEMMA PromisedIsNext ==
    /\ \A p \in Pit :
         /\ Recorded(pits', p).tsub + OwedTo(Activations(p))' = SelfTime(p)'
         /\ Recorded(pits', p).ttotal + Running(Activations(p))' = TotalTime(p)'
    /\ \A c \in Pair :
         /\ Recorded(children', c).tsub + OwedTo(PairActivations(c))' = PairSelfTime(c)'
         /\ Recorded(children', c).ttotal + Running(PairActivations(c))' = PairTotalTime(c)'
<1>1. /\ \A p : OwedTo(Activations(p))' = OwedAt(stack', Occ(stack', p), now')
      /\ \A p : Running(Activations(p))' = RunningAt(stack', Occ(stack', p), now')
      /\ \A c : OwedTo(PairActivations(c))' = OwedAt(stack', PairOcc(stack', c), now')
      /\ \A c : Running(PairActivations(c))' = RunningAt(stack', PairOcc(stack', c), now')
  BY OwedIs, ActivationsAreOcc DEF OwedTo, Owed, Running
<1> QED
  BY <1>1 DEF SelfTime, TotalTime, PairSelfTime, PairTotalTime

\* What a record, or the zeros of one that is not there, holds.
LEMMA RecordedTypes ==
    ASSUME TypeOK
    PROVE  /\ \A p : Recorded(pits, p) \in Counter
           /\ \A c : Recorded(children, c) \in Counter
<1>1. Zero \in Counter
  BY DEF Zero, Counter
<1> QED
  BY <1>1 DEF Recorded, TypeOK

\* A new record changes nothing.
LEMMA RecordedNew ==
    ASSUME NEW table, NEW k, NEW x
    PROVE  Recorded(WithKey(table, k, Zero), x) = Recorded(table, x)
<1>1. CASE k \in DOMAIN table
  BY <1>1 DEF WithKey
<1>2. CASE k \notin DOMAIN table
  <2>1. /\ DOMAIN WithKey(table, k, Zero) = DOMAIN table \cup {k}
        /\ \A y \in DOMAIN table \cup {k} :
             WithKey(table, k, Zero)[y] = IF y = k THEN Zero ELSE table[y]
    BY <1>2 DEF WithKey
  <2> HIDE DEF Zero
  <2> QED
    BY <1>2, <2>1 DEF Recorded
<1> QED
  BY <1>1, <1>2

\* Level 1 is the level of the only call in progress, and of no other.
LEMMA OuterIff ==
    ASSUME TimeInv, "slot" \notin MayFail, stack # <<>>
    PROVE  /\ Level(pitLevel, Top(stack).pit) = 1 <=>
                Occ(stack, Top(stack).pit) = {Len(stack)}
           /\ LET pci == <<stack[Len(stack)-1].pit, Top(stack).pit>>
              IN  Len(stack) > 1 =>
                    (Level(childLevel, pci) = 1 <=> PairOcc(stack, pci) = {Len(stack)})
<1> DEFINE cp == Top(stack).pit
           pci == <<stack[Len(stack)-1].pit, Top(stack).pit>>
<1>1. stack \in Seq(Entry) /\ cp \in Pit
  BY TimeTypes, TopEntry
<1>2. Len(stack) > 1 => pci \in Pair
  <2>1. Len(stack) > 1 => Len(stack) - 1 \in 1..Len(stack)
    BY <1>1, LenProperties
  <2>2. Len(stack) > 1 => stack[Len(stack)-1].pit \in Pit
    BY <1>1, <2>1, TopEntry
  <2> QED
    BY <1>1, <2>2 DEF Pair
<1>3. \A x : Cardinality({x}) = 1 /\ {x} # {}
  BY FS_Singleton
<1> HIDE DEF cp, pci
<1>4. ASSUME Occ(stack, cp) = {Len(stack)} PROVE Level(pitLevel, cp) = 1
  <2>1. cp \in DOMAIN pitLevel => pitLevel[cp] = Cardinality(Occ(stack, cp))
    BY <1>1, ActivationsAreOcc DEF TimeInv, LevelInv, PitLevelsExact
  <2>2. cp \notin DOMAIN pitLevel => Occ(stack, cp) = {}
    BY <1>1, ActivationsAreOcc DEF TimeInv, LevelInv, PitLevelsExact
  <2> QED
    BY <1>3, <1>4, <2>1, <2>2 DEF Level
<1>5. ASSUME Len(stack) > 1, PairOcc(stack, pci) = {Len(stack)}
      PROVE  Level(childLevel, pci) = 1
  <2>1. pci \in DOMAIN childLevel => childLevel[pci] = Cardinality(PairOcc(stack, pci))
    BY <1>2, <1>5, ActivationsAreOcc DEF TimeInv, LevelInv, PairLevelsCover
  <2>2. pci \notin DOMAIN childLevel => PairOcc(stack, pci) = {}
    BY <1>2, <1>5, ActivationsAreOcc DEF TimeInv, LevelInv, PairLevelsCover
  <2> QED
    BY <1>3, <1>5, <2>1, <2>2 DEF Level
<1> QED
  BY <1>4, <1>5, OuterIsOnly DEF cp, pci

-----------------------------------------------------------------------------
(* A return event hands over what the stack was owed to the records. *)

\* What the record at the places O is charged when a call of e ends.
Charged(was, is, O, e) ==
    /\ is.tsub = was.tsub + Part(Len(stack), O, e) - Part(Len(stack) - 1, O, e)
    /\ is.ttotal = was.ttotal + (IF O = {Len(stack)} THEN e ELSE 0)
    /\ is.callcount = was.callcount + Part(Len(stack), O, 1)

HandsOver ==
    /\ stack # <<>>
    /\ stack' = Pop(stack)
    /\ now' = now
    /\ DOMAIN pits' = DOMAIN pits
    /\ DOMAIN children' = DOMAIN children
    /\ \A p \in Pit :
         /\ Charged(Recorded(pits, p), Recorded(pits', p), Occ(stack, p),
                    now - Top(stack).t0)
         /\ Recorded(pits', p).nonrec
              = Recorded(pits, p).nonrec + (IF Occ(stack, p) = {Len(stack)} THEN 1 ELSE 0)
    /\ \A c \in Pair :
         Charged(Recorded(children, c), Recorded(children', c), PairOcc(stack, c),
                 now - Top(stack).t0)

\* The two ways to return hand over: the level tells the outermost call, the pair of
\* the caller exists just when the caller has a caller.
LEMMA LeaveOutermostHandsOver ==
    ASSUME AsyncFrame = {}, PromiseInv, NEW f \in Frame, NEW suspended \in BOOLEAN,
           LeaveOutermost(f, suspended)
    PROVE  HandsOver
<1> DEFINE cp == Top(stack).pit
           e == Elapsed(f, suspended)
           t == now - Top(stack).t0
<1>1. stack \in Seq(Entry) /\ Len(stack) = 1 /\ stack # <<>> /\ TypeOK
  <2>1. stack \in Seq(Entry) /\ Len(stack) = 1
    BY TimeTypes DEF PromiseInv, LeaveOutermost
  <2> QED
    BY <2>1, EmptySeq DEF PromiseInv, TimeInv, LevelInv
<1>2. stack' = Pop(stack) /\ now' = now /\ children' = children
  BY <1>1, SubSeqEmpty DEF LeaveOutermost, Pop
<1>3. e = t /\ e \in Int /\ suspended = FALSE
  <2>1. suspended = FALSE
    BY DEF LeaveOutermost
  <2> QED
    BY <1>1, <2>1, ElapsedPlain, ElapsedType
<1>4. cp \in Pit /\ cp \in DOMAIN pits
  <2>1. Len(stack) \in 1..Len(stack)
    BY <1>1
  <2> QED
    BY <1>1, <2>1, TopEntry DEF PromiseInv, TimeInv, LevelInv, PairsRecorded, Top
<1>5. /\ DOMAIN pits' = DOMAIN pits
      /\ \A p \in DOMAIN pits : p # cp => pits'[p] = pits[p]
      /\ pits'[cp].callcount = pits[cp].callcount + 1
      /\ pits'[cp].nonrec = pits[cp].nonrec + 1
      /\ pits'[cp].tsub = pits[cp].tsub + e
      /\ pits'[cp].ttotal = pits[cp].ttotal + e
  <2> DEFINE new == [callcount |-> pits[cp].callcount + One(~suspended),
                     nonrec    |-> pits[cp].nonrec + One(~suspended),
                     tsub      |-> pits[cp].tsub + e,
                     ttotal    |-> pits[cp].ttotal + e]
  <2>1. pits' = [pits EXCEPT ![cp] = new]
    BY DEF LeaveOutermost
  <2>2. /\ new.callcount = pits[cp].callcount + 1 /\ new.nonrec = pits[cp].nonrec + 1
        /\ new.tsub = pits[cp].tsub + e /\ new.ttotal = pits[cp].ttotal + e
    BY <1>3 DEF One
  <2> HIDE DEF new, cp, e
  <2> QED
    BY <1>4, <2>1, <2>2
<1>6. \A c : PairOcc(stack, c) = {}
  BY <1>1 DEF PairOcc
<1>7. \A p : Occ(stack, p) = IF p = cp THEN {1} ELSE {}
  BY <1>1 DEF Occ, Top
<1>8. \A p : Recorded(pits, p) \in Counter
  BY <1>1, RecordedTypes
<1>9. \A c : Recorded(children, c) \in Counter
  BY <1>1, RecordedTypes
<1> HIDE DEF cp, e, t
<1>10. ASSUME NEW p \in Pit
       PROVE  /\ Charged(Recorded(pits, p), Recorded(pits', p), Occ(stack, p), t)
              /\ Recorded(pits', p).nonrec = Recorded(pits, p).nonrec
                   + (IF Occ(stack, p) = {Len(stack)} THEN 1 ELSE 0)
  <2>1. CASE p = cp
    <3>1. Occ(stack, p) = {Len(stack)}
      BY <1>1, <1>7, <2>1
    <3>2. Recorded(pits, p) = pits[cp] /\ Recorded(pits', p) = pits'[cp]
      BY <1>4, <1>5, <2>1 DEF Recorded
    <3>3. \A a : /\ Part(Len(stack), Occ(stack, p), a) = a
                 /\ Part(Len(stack) - 1, Occ(stack, p), a) = 0
      BY <1>1, <3>1 DEF Part
    <3>4. pits[cp].tsub + e = pits[cp].tsub + e - 0
      <4>1. pits[cp] \in Counter
        BY <1>8, <3>2
      <4>2. pits[cp].tsub \in Int
        BY <4>1 DEF Counter
      <4> QED
        BY <1>3, <4>2
    <3> QED
      BY <1>3, <1>5, <3>1, <3>2, <3>3, <3>4 DEF Charged
  <2>2. CASE p # cp
    <3>1. Occ(stack, p) = {} /\ {} # {1}
      BY <1>7, <2>2
    <3>2. Recorded(pits', p) = Recorded(pits, p)
      BY <1>5, <2>2 DEF Recorded
    <3>3. \A i, a : Part(i, {}, a) = 0
      BY DEF Part
    <3> QED
      BY <1>1, <1>8, <3>1, <3>2, <3>3 DEF Charged, Counter
  <2> QED
    BY <2>1, <2>2
<1>11. ASSUME NEW c \in Pair
       PROVE  Charged(Recorded(children, c), Recorded(children', c), PairOcc(stack, c), t)
  <2>1. \A i, a : Part(i, {}, a) = 0
    BY DEF Part
  <2>2. /\ Part(Len(stack), PairOcc(stack, c), t) = 0
        /\ Part(Len(stack) - 1, PairOcc(stack, c), t) = 0
        /\ Part(Len(stack), PairOcc(stack, c), 1) = 0
        /\ PairOcc(stack, c) # {Len(stack)}
    BY <1>6, <2>1
  <2>3. Recorded(children', c) = Recorded(children, c) /\ Recorded(children, c) \in Counter
    BY <1>2, <1>9
  <2> QED
    BY <2>2, <2>3 DEF Charged, Counter
<1> QED
  BY <1>1, <1>2, <1>5, <1>10, <1>11 DEF HandsOver, t

\* A function returns to the one under it.
LEMMA LeaveToParentHandsOver ==
    ASSUME AsyncFrame = {}, MayFail = {}, PromiseInv,
           NEW f \in Frame, NEW suspended \in BOOLEAN, LeaveToParent(f, suspended)
    PROVE  HandsOver
<1> DEFINE n == Len(stack)
           cp == Top(stack).pit
           pp == stack[n-1].pit
           pci == <<pp, cp>>
           hasPpci == n > 2
           ppci == IF hasPpci THEN <<stack[n-2].pit, pp>> ELSE pci
           e == Elapsed(f, suspended)
           t == now - Top(stack).t0
           outer == Level(pitLevel, cp) = 1
           outerPair == Level(childLevel, pci) = 1
<1>1. stack \in Seq(Entry) /\ n > 1 /\ n \in Nat /\ stack # <<>> /\ TypeOK
  <2>1. stack \in Seq(Entry) /\ n > 1
    BY TimeTypes DEF PromiseInv, LeaveToParent
  <2>2. ~(0 > 1)
    OBVIOUS
  <2> QED
    BY <2>1, <2>2, EmptySeq, LenProperties DEF PromiseInv, TimeInv, LevelInv
<1>2. stack' = Pop(stack) /\ now' = now
  BY DEF LeaveToParent, StackOnLeave
<1>3. e = t /\ e \in Int /\ suspended = FALSE
  <2>1. suspended = FALSE
    BY DEF LeaveToParent
  <2> QED
    BY <1>1, <2>1, ElapsedPlain, ElapsedType
<1>4. /\ outer <=> Occ(stack, cp) = {n}
      /\ outerPair <=> PairOcc(stack, pci) = {n}
  BY <1>1, OuterIff DEF PromiseInv
<1>5. /\ pits' = PitsOnLeave(cp, pp, e, ~suspended, outer)
      /\ children' = ChildrenOnLeave(pci, hasPpci, ppci, e, ~suspended, outer, outerPair)
      /\ pci \in DOMAIN children /\ ppci \in DOMAIN children
  BY DEF LeaveToParent, Top
<1>6. cp \in DOMAIN pits /\ pp \in DOMAIN pits
  <2>1. n \in 1..n /\ n - 1 \in 1..n
    BY <1>1
  <2> QED
    BY <2>1 DEF PromiseInv, TimeInv, LevelInv, PairsRecorded, Top
<1>7. \A p : (n \in Occ(stack, p) <=> p = cp) /\ (n - 1 \in Occ(stack, p) <=> p = pp)
  <2>1. n \in 1..n /\ n - 1 \in 1..n
    BY <1>1
  <2> QED
    BY <2>1 DEF Occ, Top
<1>8. \A c \in Pair : /\ n \in PairOcc(stack, c) <=> c = pci
                      /\ n - 1 \in PairOcc(stack, c) <=> c = ppci /\ hasPpci
  <2> TAKE c \in Pair
  <2>1. c = <<c[1], c[2]>>
    BY DEF Pair
  <2>2. n \in 2..n /\ (n - 1 \in 2..n <=> hasPpci) /\ (n - 1) - 1 = n - 2
    BY <1>1
  <2>3. n \in PairOcc(stack, c) <=> pp = c[1] /\ cp = c[2]
    BY <2>2 DEF PairOcc, Top
  <2>4. n - 1 \in PairOcc(stack, c) <=> hasPpci /\ stack[n-2].pit = c[1] /\ pp = c[2]
    BY <2>2 DEF PairOcc
  <2>5. hasPpci => ppci = <<stack[n-2].pit, pp>>
    OBVIOUS
  <2> HIDE DEF n, cp, pp, ppci, hasPpci
  <2> QED
    BY <2>1, <2>3, <2>4, <2>5
<1>9. \A p : Recorded(pits, p) \in Counter
  BY <1>1, RecordedTypes
<1>10. \A c : Recorded(children, c) \in Counter
  BY <1>1, RecordedTypes
<1>11. \A p : Occ(stack, p) = {n} <=> p = cp /\ outer
  <2>1. n \in {n}
    OBVIOUS
  <2> HIDE DEF n, cp, outer
  <2> QED
    BY <1>4, <1>7, <2>1
<1>12. \A c \in Pair : PairOcc(stack, c) = {n} <=> c = pci /\ outerPair
  <2>1. n \in {n}
    OBVIOUS
  <2> HIDE DEF n, pci, outerPair
  <2> QED
    BY <1>4, <1>8, <2>1
<1> HIDE DEF n, cp, pp, pci, ppci, hasPpci, e, t, outer, outerPair
<1>13. /\ DOMAIN pits' = DOMAIN pits
       /\ \A p \in DOMAIN pits :
            /\ pits'[p].callcount = pits[p].callcount + One(p = cp)
            /\ pits'[p].nonrec = pits[p].nonrec + One(p = cp /\ outer)
            /\ pits'[p].tsub = pits[p].tsub + (IF p = cp THEN e ELSE 0)
                                            - (IF p = pp THEN e ELSE 0)
            /\ pits'[p].ttotal = pits[p].ttotal + (IF p = cp /\ outer THEN e ELSE 0)
  BY <1>3, <1>5 DEF PitsOnLeave
<1>14. /\ DOMAIN children' = DOMAIN children
       /\ \A c \in DOMAIN children :
            /\ children'[c].callcount = children[c].callcount + One(c = pci)
            /\ children'[c].tsub = children[c].tsub + (IF c = pci THEN e ELSE 0)
                                     - (IF c = ppci /\ hasPpci THEN e ELSE 0)
            /\ children'[c].ttotal = children[c].ttotal
                                       + (IF c = pci /\ outerPair THEN e ELSE 0)
  BY <1>3, <1>5 DEF ChildrenOnLeave
<1>15. ASSUME NEW p \in Pit
       PROVE  /\ Charged(Recorded(pits, p), Recorded(pits', p), Occ(stack, p), t)
              /\ Recorded(pits', p).nonrec = Recorded(pits, p).nonrec
                   + (IF Occ(stack, p) = {n} THEN 1 ELSE 0)
  <2>1. /\ \A a : Part(n, Occ(stack, p), a) = IF p = cp THEN a ELSE 0
        /\ \A a : Part(n - 1, Occ(stack, p), a) = IF p = pp THEN a ELSE 0
    BY <1>7 DEF Part
  <2>2. CASE p \in DOMAIN pits
    <3>1. Recorded(pits, p) = pits[p] /\ Recorded(pits', p) = pits'[p]
      BY <1>13, <2>2 DEF Recorded
    <3>2. pits'[p].nonrec = pits[p].nonrec + (IF Occ(stack, p) = {n} THEN 1 ELSE 0)
      BY <1>11, <1>13, <2>2 DEF One
    <3>3. pits'[p].ttotal = pits[p].ttotal + (IF Occ(stack, p) = {n} THEN e ELSE 0)
      BY <1>11, <1>13, <2>2
    <3>4. pits'[p].callcount = pits[p].callcount + Part(n, Occ(stack, p), 1)
      BY <1>13, <2>1, <2>2 DEF One
    <3>5. pits'[p].tsub = pits[p].tsub + Part(n, Occ(stack, p), e)
                                       - Part(n - 1, Occ(stack, p), e)
      BY <1>13, <2>1, <2>2
    <3> QED
      BY <1>3, <3>1, <3>2, <3>3, <3>4, <3>5 DEF Charged, n
  <2>3. CASE p \notin DOMAIN pits
    <3>1. p # cp /\ p # pp
      BY <1>6, <2>3
    <3>2. Recorded(pits', p) = Recorded(pits, p)
      BY <1>13, <2>3 DEF Recorded
    <3>3. /\ Part(n, Occ(stack, p), t) = 0 /\ Part(n - 1, Occ(stack, p), t) = 0
          /\ Part(n, Occ(stack, p), 1) = 0 /\ Occ(stack, p) # {n}
      BY <1>11, <2>1, <3>1
    <3>4. Recorded(pits, p) \in Counter
      BY <1>9
    <3> QED
      BY <3>2, <3>3, <3>4 DEF Charged, Counter, n
  <2> QED
    BY <2>2, <2>3
<1>16. ASSUME NEW c \in Pair
       PROVE  Charged(Recorded(children, c), Recorded(children', c), PairOcc(stack, c), t)
  <2>1. /\ \A a : Part(n, PairOcc(stack, c), a) = IF c = pci THEN a ELSE 0
        /\ \A a : Part(n - 1, PairOcc(stack, c), a) = IF c = ppci /\ hasPpci THEN a ELSE 0
    BY <1>8 DEF Part
  <2>2. CASE c \in DOMAIN children
    <3>1. Recorded(children, c) = children[c] /\ Recorded(children', c) = children'[c]
      BY <1>14, <2>2 DEF Recorded
    <3>2. children'[c].ttotal
            = children[c].ttotal + (IF PairOcc(stack, c) = {n} THEN e ELSE 0)
      BY <1>12, <1>14, <2>2
    <3>3. children'[c].callcount = children[c].callcount + Part(n, PairOcc(stack, c), 1)
      BY <1>14, <2>1, <2>2 DEF One
    <3>4. children'[c].tsub = children[c].tsub + Part(n, PairOcc(stack, c), e)
                                               - Part(n - 1, PairOcc(stack, c), e)
      BY <1>14, <2>1, <2>2
    <3> QED
      BY <1>3, <3>1, <3>2, <3>3, <3>4 DEF Charged, n
  <2>3. CASE c \notin DOMAIN children
    <3>1. c # pci /\ c # ppci
      BY <1>5, <2>3
    <3>2. Recorded(children', c) = Recorded(children, c)
      BY <1>14, <2>3 DEF Recorded
    <3>3. /\ Part(n, PairOcc(stack, c), t) = 0 /\ Part(n - 1, PairOcc(stack, c), t) = 0
          /\ Part(n, PairOcc(stack, c), 1) = 0 /\ PairOcc(stack, c) # {n}
      BY <1>12, <2>1, <3>1
    <3>4. Recorded(children, c) \in Counter
      BY <1>10
    <3> QED
      BY <3>2, <3>3, <3>4 DEF Charged, Counter, n
  <2> QED
    BY <2>2, <2>3
<1> QED
  BY <1>1, <1>2, <1>13, <1>14, <1>15, <1>16 DEF HandsOver, n, t

-----------------------------------------------------------------------------
(* Calls and returns change nothing that is promised; time does. *)

TimesKept ==
    /\ \A p \in Pit : SelfTime(p)' = SelfTime(p) /\ TotalTime(p)' = TotalTime(p)
    /\ \A c \in Pair : /\ PairSelfTime(c)' = PairSelfTime(c)
                       /\ PairTotalTime(c)' = PairTotalTime(c)

\* The places of a function, and of a pair, are places of the stack with a lowest.
LEMMA PlacesOf ==
    ASSUME TimeInv
    PROVE  /\ stack \in Seq(Entry) /\ now \in Nat /\ EnteredBefore(stack, now)
           /\ \A p \in Pit : /\ Occ(stack, p) \in SUBSET (1..Len(stack))
                             /\ HasLowest(Occ(stack, p))
           /\ \A c \in Pair : /\ PairOcc(stack, c) \in SUBSET (1..Len(stack))
                              /\ HasLowest(PairOcc(stack, c))
  BY TimeTypes, OccPlaces DEF TimeInv, Timely

\* A call event changes nothing that is promised.
LEMMA EnterKeeps ==
    ASSUME TimeInv, NEW p \in Pit, NEW f \in Frame, CallEnter(p, f)
    PROVE  TimesKept
<1> DEFINE x == [pit |-> p, t0 |-> now]
<1>1. /\ stack \in Seq(Entry) /\ now \in Nat
      /\ \A q \in Pit : /\ Occ(stack, q) \in SUBSET (1..Len(stack))
                        /\ HasLowest(Occ(stack, q))
      /\ \A c \in Pair : /\ PairOcc(stack, c) \in SUBSET (1..Len(stack))
                         /\ HasLowest(PairOcc(stack, c))
  BY PlacesOf
<1>2. x \in Entry /\ x.t0 = now
  BY <1>1 DEF Entry
<1>3. stack' = Append(stack, x) /\ now' = now
  BY DEF CallEnter
<1> HIDE DEF x
<1>4. /\ \A q : Recorded(pits', q) = Recorded(pits, q)
      /\ \A c : Recorded(children', c) = Recorded(children, c)
  BY RecordedNew DEF CallEnter, ChildrenOnEntry
<1>5. \A O \in SUBSET (1..Len(stack)) : \A P :
        HasLowest(O) /\ (P = O \/ P = O \cup {Len(stack) + 1}) =>
          /\ OwedAt(stack', P, now') = OwedAt(stack, O, now)
          /\ RunningAt(stack', P, now') = RunningAt(stack, O, now)
  <2> TAKE O \in SUBSET (1..Len(stack))
  <2>1. /\ OwedAt(stack', O, now) = OwedAt(stack, O, now)
        /\ OwedAt(stack', O \cup {Len(stack) + 1}, now) = OwedAt(stack, O, now)
    BY <1>1, <1>2, <1>3, OwedPush
  <2>2. HasLowest(O) =>
          /\ RunningAt(stack', O, now) = RunningAt(stack, O, now)
          /\ RunningAt(stack', O \cup {Len(stack) + 1}, now) = RunningAt(stack, O, now)
    BY <1>1, <1>2, <1>3, RunPush
  <2> QED
    BY <1>3, <2>1, <2>2
<1>6. /\ \A q \in Pit : \/ Occ(stack', q) = Occ(stack, q)
                        \/ Occ(stack', q) = Occ(stack, q) \cup {Len(stack) + 1}
      /\ \A c \in Pair : \/ PairOcc(stack', c) = PairOcc(stack, c)
                         \/ PairOcc(stack', c) = PairOcc(stack, c) \cup {Len(stack) + 1}
  BY <1>1, <1>2, <1>3, PushOcc
<1>7. \A q \in Pit : /\ OwedAt(stack', Occ(stack', q), now') = OwedAt(stack, Occ(stack, q), now)
                     /\ RunningAt(stack', Occ(stack', q), now')
                          = RunningAt(stack, Occ(stack, q), now)
  BY <1>1, <1>5, <1>6
<1>8. \A c \in Pair : /\ OwedAt(stack', PairOcc(stack', c), now')
                           = OwedAt(stack, PairOcc(stack, c), now)
                      /\ RunningAt(stack', PairOcc(stack', c), now')
                           = RunningAt(stack, PairOcc(stack, c), now)
  BY <1>1, <1>5, <1>6
<1> QED
  BY <1>4, <1>7, <1>8 DEF TimesKept, SelfTime, TotalTime, PairSelfTime, PairTotalTime

\* What a record gains its places on the stack are no longer owed.
LEMMA ChargedKeeps ==
    ASSUME TimeInv, stack # <<>>, NEW O \in SUBSET (1..Len(stack)), HasLowest(O),
           NEW was \in Counter, NEW is, Charged(was, is, O, now - Top(stack).t0)
    PROVE  /\ is.tsub + OwedAt(Pop(stack), O \ {Len(stack)}, now)
                = was.tsub + OwedAt(stack, O, now)
           /\ is.ttotal + RunningAt(Pop(stack), O \ {Len(stack)}, now)
                = was.ttotal + RunningAt(stack, O, now)
<1> DEFINE e == now - Top(stack).t0
<1>1. stack \in Seq(Entry) /\ now \in Nat /\ EnteredBefore(stack, now) /\ e \in Int
  BY PlacesOf, TopEntry
<1>2. was.tsub \in Int /\ was.ttotal \in Int
  BY DEF Counter
<1>3. OwedAt(stack, O, now) \in Int /\ RunningAt(stack, O, now) \in Int
  <2>1. OwedAt(stack, O, now) \in Int
    BY <1>1, OwedInt
  <2>2. RunningAt(stack, O, now) \in 0..now
    BY <1>1, RunningTime
  <2> QED
    BY <1>1, <2>1, <2>2
<1> HIDE DEF e
<1>4. Part(Len(stack), O, e) \in Int /\ Part(Len(stack) - 1, O, e) \in Int
  BY <1>1 DEF Part
<1>5. OwedAt(Pop(stack), O \ {Len(stack)}, now)
        = OwedAt(stack, O, now) - Part(Len(stack), O, e) + Part(Len(stack) - 1, O, e)
  <2>1. e = now - Top(stack).t0
    BY DEF e
  <2> QED
    BY <1>1, <2>1, OwedPop
<1>6. RunningAt(Pop(stack), O \ {Len(stack)}, now)
        = RunningAt(stack, O, now) - (IF O = {Len(stack)} THEN e ELSE 0)
  BY <1>1, RunPop DEF e
<1>7. /\ is.tsub = was.tsub + Part(Len(stack), O, e) - Part(Len(stack) - 1, O, e)
      /\ is.ttotal = was.ttotal + (IF O = {Len(stack)} THEN e ELSE 0)
  BY DEF Charged, e
<1>8. is.tsub + OwedAt(Pop(stack), O \ {Len(stack)}, now)
        = was.tsub + OwedAt(stack, O, now)
  BY <1>2, <1>3, <1>4, <1>5, <1>7
<1>9. is.ttotal + RunningAt(Pop(stack), O \ {Len(stack)}, now)
        = was.ttotal + RunningAt(stack, O, now)
  BY <1>1, <1>2, <1>3, <1>6, <1>7
<1> QED
  BY <1>8, <1>9

\* The places that are left after a return.
LEMMA PlacesAfterPop ==
    ASSUME TimeInv, stack # <<>>, stack' = Pop(stack)
    PROVE  /\ \A p \in Pit : Occ(stack', p) = Occ(stack, p) \ {Len(stack)}
           /\ \A c \in Pair : PairOcc(stack', c) = PairOcc(stack, c) \ {Len(stack)}
<1>1. stack \in Seq(Entry)
  BY TimeTypes
<1>2. ASSUME NEW p \in Pit PROVE Occ(stack', p) = Occ(stack, p) \ {Len(stack)}
  <2>1. CASE p = Top(stack).pit
    BY <1>1, <2>1, PopOcc
  <2>2. CASE p # Top(stack).pit
    <3>1. Len(stack) \notin Occ(stack, p)
      BY <2>2 DEF Occ, Top
    <3> QED
      BY <1>1, <2>2, <3>1, PopOcc
  <2> QED
    BY <2>1, <2>2
<1>3. ASSUME NEW c \in Pair PROVE PairOcc(stack', c) = PairOcc(stack, c) \ {Len(stack)}
  <2> DEFINE top == Len(stack) > 1 /\ c = <<stack[Len(stack)-1].pit, Top(stack).pit>>
  <2>1. PairOcc(stack', c) = IF top THEN PairOcc(stack, c) \ {Len(stack)}
                             ELSE PairOcc(stack, c)
    BY <1>1, PopOcc
  <2>2. ASSUME Len(stack) \in PairOcc(stack, c) PROVE top
    <3>1. /\ Len(stack) \in 2..Len(stack) /\ Len(stack) \in Nat
          /\ stack[Len(stack)-1].pit = c[1] /\ stack[Len(stack)].pit = c[2]
      BY <1>1, <2>2, LenProperties DEF PairOcc
    <3>2. c = <<c[1], c[2]>> /\ Len(stack) > 1
      BY <3>1 DEF Pair
    <3> QED
      BY <3>1, <3>2 DEF Top
  <2> HIDE DEF top
  <2> QED
    BY <2>1, <2>2
<1> QED
  BY <1>2, <1>3

\* A return event changes nothing that is promised.
LEMMA LeaveKeeps ==
    ASSUME TimeInv, HandsOver
    PROVE  TimesKept
<1>1. TypeOK /\ stack # <<>> /\ stack' = Pop(stack) /\ now' = now
  BY DEF TimeInv, LevelInv, HandsOver
<1>2. ASSUME NEW p \in Pit
      PROVE  SelfTime(p)' = SelfTime(p) /\ TotalTime(p)' = TotalTime(p)
  <2>1. Recorded(pits, p) \in Counter
    BY <1>1, RecordedTypes
  <2>2. Charged(Recorded(pits, p), Recorded(pits', p), Occ(stack, p), now - Top(stack).t0)
    BY DEF HandsOver
  <2>3. Occ(stack, p) \in SUBSET (1..Len(stack)) /\ HasLowest(Occ(stack, p))
    BY PlacesOf
  <2>4. Occ(stack', p) = Occ(stack, p) \ {Len(stack)}
    BY <1>1, PlacesAfterPop
  <2> DEFINE was == Recorded(pits, p)  is == Recorded(pits', p)  O == Occ(stack, p)
  <2>5. /\ SelfTime(p) = was.tsub + OwedAt(stack, O, now)
        /\ TotalTime(p) = was.ttotal + RunningAt(stack, O, now)
    BY DEF SelfTime, TotalTime
  <2>6. /\ SelfTime(p)' = is.tsub + OwedAt(Pop(stack), O \ {Len(stack)}, now)
        /\ TotalTime(p)' = is.ttotal + RunningAt(Pop(stack), O \ {Len(stack)}, now)
    BY <1>1, <2>4 DEF SelfTime, TotalTime
  <2> HIDE DEF was, is, O
  <2>7. was \in Counter /\ O \in SUBSET (1..Len(stack)) /\ HasLowest(O)
        /\ Charged(was, is, O, now - Top(stack).t0)
    BY <2>1, <2>2, <2>3 DEF was, is, O
  <2>8. /\ is.tsub + OwedAt(Pop(stack), O \ {Len(stack)}, now)
             = was.tsub + OwedAt(stack, O, now)
        /\ is.ttotal + RunningAt(Pop(stack), O \ {Len(stack)}, now)
             = was.ttotal + RunningAt(stack, O, now)
    BY <1>1, <2>7, ChargedKeeps
  <2> QED
    BY <2>5, <2>6, <2>8
<1>3. ASSUME NEW c \in Pair
      PROVE  PairSelfTime(c)' = PairSelfTime(c) /\ PairTotalTime(c)' = PairTotalTime(c)
  <2>1. Recorded(children, c) \in Counter
    BY <1>1, RecordedTypes
  <2>2. Charged(Recorded(children, c), Recorded(children', c), PairOcc(stack, c),
                now - Top(stack).t0)
    BY DEF HandsOver
  <2>3. PairOcc(stack, c) \in SUBSET (1..Len(stack)) /\ HasLowest(PairOcc(stack, c))
    BY PlacesOf
  <2>4. PairOcc(stack', c) = PairOcc(stack, c) \ {Len(stack)}
    BY <1>1, PlacesAfterPop
  <2> DEFINE was == Recorded(children, c)  is == Recorded(children', c)  O == PairOcc(stack, c)
  <2>5. /\ PairSelfTime(c) = was.tsub + OwedAt(stack, O, now)
        /\ PairTotalTime(c) = was.ttotal + RunningAt(stack, O, now)
    BY DEF PairSelfTime, PairTotalTime
  <2>6. /\ PairSelfTime(c)' = is.tsub + OwedAt(Pop(stack), O \ {Len(stack)}, now)
        /\ PairTotalTime(c)' = is.ttotal + RunningAt(Pop(stack), O \ {Len(stack)}, now)
    BY <1>1, <2>4 DEF PairSelfTime, PairTotalTime
  <2> HIDE DEF was, is, O
  <2>7. was \in Counter /\ O \in SUBSET (1..Len(stack)) /\ HasLowest(O)
        /\ Charged(was, is, O, now - Top(stack).t0)
    BY <2>1, <2>2, <2>3 DEF was, is, O
  <2>8. /\ is.tsub + OwedAt(Pop(stack), O \ {Len(stack)}, now)
             = was.tsub + OwedAt(stack, O, now)
        /\ is.ttotal + RunningAt(Pop(stack), O \ {Len(stack)}, now)
             = was.ttotal + RunningAt(stack, O, now)
    BY <1>1, <2>7, ChargedKeeps
  <2> QED
    BY <2>5, <2>6, <2>8
<1> QED
  BY <1>2, <1>3 DEF TimesKept

\* A tick is charged to what is on top and to what is on the stack.
LEMMA TickCharges ==
    ASSUME PromiseInv, Tick
    PROVE  /\ \A p \in Pit :
                /\ SelfTime(p)' = SelfTime(p) + Part(Len(stack), Occ(stack, p), 1)
                /\ TotalTime(p)' = TotalTime(p) + (IF Occ(stack, p) = {} THEN 0 ELSE 1)
           /\ \A c \in Pair :
                /\ PairSelfTime(c)' = PairSelfTime(c) + Part(Len(stack), PairOcc(stack, c), 1)
                /\ PairTotalTime(c)'
                     = PairTotalTime(c) + (IF PairOcc(stack, c) = {} THEN 0 ELSE 1)
<1>1. stack' = stack /\ now' = now + 1 /\ pits' = pits /\ children' = children
  BY DEF Tick
<1>2. TypeOK /\ stack \in Seq(Entry) /\ now \in Nat /\ EnteredBefore(stack, now)
  BY PlacesOf DEF PromiseInv, TimeInv, LevelInv
<1>3. ASSUME NEW O \in SUBSET (1..Len(stack)), HasLowest(O), NEW r \in Counter
      PROVE  /\ r.tsub + OwedAt(stack, O, now + 1)
                  = r.tsub + OwedAt(stack, O, now) + Part(Len(stack), O, 1)
             /\ r.ttotal + RunningAt(stack, O, now + 1)
                  = r.ttotal + RunningAt(stack, O, now) + (IF O = {} THEN 0 ELSE 1)
  <2>1. r.tsub \in Int /\ r.ttotal \in Int
    BY DEF Counter
  <2>2. OwedAt(stack, O, now) \in Int /\ Part(Len(stack), O, 1) \in Int
    BY <1>2, OwedInt DEF Part
  <2>3. RunningAt(stack, O, now) \in 0..now
    BY <1>2, <1>3, RunningTime
  <2>4. OwedAt(stack, O, now + 1) = OwedAt(stack, O, now) + Part(Len(stack), O, 1)
    BY <1>2, OwedTick
  <2>5. RunningAt(stack, O, now + 1)
          = RunningAt(stack, O, now) + (IF O = {} THEN 0 ELSE 1)
    BY <1>2, <1>3, RunTick
  <2>6. r.tsub + OwedAt(stack, O, now + 1)
          = r.tsub + OwedAt(stack, O, now) + Part(Len(stack), O, 1)
    BY <2>1, <2>2, <2>4
  <2>7. r.ttotal + RunningAt(stack, O, now + 1)
          = r.ttotal + RunningAt(stack, O, now) + (IF O = {} THEN 0 ELSE 1)
    BY <1>2, <2>1, <2>3, <2>5
  <2> QED
    BY <2>6, <2>7
<1>4. \A p \in Pit : /\ Recorded(pits, p) \in Counter
                     /\ Occ(stack, p) \in SUBSET (1..Len(stack))
                     /\ HasLowest(Occ(stack, p))
  BY <1>2, RecordedTypes, PlacesOf DEF PromiseInv
<1>5. \A c \in Pair : /\ Recorded(children, c) \in Counter
                      /\ PairOcc(stack, c) \in SUBSET (1..Len(stack))
                      /\ HasLowest(PairOcc(stack, c))
  BY <1>2, RecordedTypes, PlacesOf DEF PromiseInv
<1>6. \A p \in Pit :
        /\ SelfTime(p)' = SelfTime(p) + Part(Len(stack), Occ(stack, p), 1)
        /\ TotalTime(p)' = TotalTime(p) + (IF Occ(stack, p) = {} THEN 0 ELSE 1)
  BY <1>1, <1>3, <1>4 DEF SelfTime, TotalTime
<1>7. \A c \in Pair :
        /\ PairSelfTime(c)' = PairSelfTime(c) + Part(Len(stack), PairOcc(stack, c), 1)
        /\ PairTotalTime(c)' = PairTotalTime(c) + (IF PairOcc(stack, c) = {} THEN 0 ELSE 1)
  BY <1>1, <1>3, <1>5 DEF PairSelfTime, PairTotalTime
<1> QED
  BY <1>6, <1>7

-----------------------------------------------------------------------------
(* The invariant. *)

\* In a new context nothing is owed.
LEMMA PromiseInit == Init => PromiseInv
<1> SUFFICES ASSUME Init PROVE PromiseInv
  OBVIOUS
<1>1. TimeInv
  BY TimeInit
<1>2. stack = <<>> /\ Len(stack) = 0 /\ now = 0 /\ DOMAIN pits = {} /\ DOMAIN children = {}
  BY EmptySeq DEF Init
<1>3. \A p : Occ(stack, p) = {}
  BY <1>2 DEF Occ
<1>4. \A c : PairOcc(stack, c) = {}
  BY <1>2 DEF PairOcc
<1>5. \A k : Recorded(pits, k).tsub = 0 /\ Recorded(children, k).tsub = 0
  BY <1>2 DEF Recorded, Zero
<1>6. OwedAt(stack, {}, now) = 0
  BY SumOfNone DEF OwedAt
<1>7. \A p \in Pit : SelfTime(p) \in Nat
  BY <1>3, <1>5, <1>6 DEF SelfTime
<1>8. \A c \in Pair : PairSelfTime(c) \in Nat
  BY <1>4, <1>5, <1>6 DEF PairSelfTime
<1> QED
  BY <1>1, <1>2, <1>7, <1>8 DEF PromiseInv

\* Once every call has returned there is nothing to normalise.
LEMMA Settled == ASSUME PromiseInv PROVE SettledAtRest
<1> SUFFICES ASSUME stack = <<>>
             PROVE  /\ \A p \in DOMAIN pits : Normalised(pits[p]) = pits[p]
                    /\ \A c \in DOMAIN children : Normalised(children[c]) = children[c]
  BY DEF SettledAtRest
<1>1. TypeOK /\ Len(stack) = 0
  BY EmptySeq DEF PromiseInv, TimeInv, LevelInv
<1>2. \A p : Occ(stack, p) = {}
  BY <1>1 DEF Occ
<1>3. \A c : PairOcc(stack, c) = {}
  BY <1>1 DEF PairOcc
<1>4. OwedAt(stack, {}, now) = 0
  BY SumOfNone DEF OwedAt
<1>5. ASSUME NEW r \in Counter, r.callcount # 0, r.tsub \in Nat PROVE Normalised(r) = r
  <2>1. Normalised(r) = [r EXCEPT !.callcount = r.callcount, !.tsub = r.tsub]
    <3>1. (IF r.callcount = 0 THEN 1 ELSE r.callcount) = r.callcount
      BY <1>5
    <3>2. (IF r.tsub < 0 THEN 0 ELSE r.tsub) = r.tsub
      BY <1>5
    <3> QED
      BY <3>1, <3>2 DEF Normalised
  <2> QED
    BY <2>1 DEF Counter
<1>6. ASSUME NEW p \in DOMAIN pits PROVE Normalised(pits[p]) = pits[p]
  <2>1. p \in Pit /\ pits[p] \in Counter
    BY <1>1 DEF TypeOK
  <2>2. SelfTime(p) \in Nat /\ pits[p].callcount # 0
    BY <1>2, <2>1 DEF PromiseInv
  <2>3. SelfTime(p) = pits[p].tsub + 0
    BY <1>2, <1>4 DEF SelfTime, Recorded
  <2>4. pits[p].tsub \in Int
    BY <2>1 DEF Counter
  <2> QED
    BY <1>5, <2>1, <2>2, <2>3, <2>4
<1>7. ASSUME NEW c \in DOMAIN children PROVE Normalised(children[c]) = children[c]
  <2>1. c \in Pair /\ children[c] \in Counter
    BY <1>1 DEF TypeOK
  <2>2. PairSelfTime(c) \in Nat /\ children[c].callcount # 0
    BY <1>3, <2>1 DEF PromiseInv
  <2>3. PairSelfTime(c) = children[c].tsub + 0
    BY <1>3, <1>4 DEF PairSelfTime, Recorded
  <2>4. children[c].tsub \in Int
    BY <2>1 DEF Counter
  <2> QED
    BY <1>5, <2>1, <2>2, <2>3, <2>4
<1> QED
  BY <1>6, <1>7

\* A call event: what gets a record is on the stack.
LEMMA EnterCounted ==
    ASSUME PromiseInv, TimeInv', NEW p \in Pit, NEW f \in Frame, CallEnter(p, f)
    PROVE  PromiseInv'
<1> DEFINE x == [pit |-> p, t0 |-> now]
           pci == <<Top(stack).pit, p>>
<1>1. TimesKept
  BY EnterKeeps DEF PromiseInv
<1>2. stack \in Seq(Entry) /\ now \in Nat /\ TypeOK
  BY TimeTypes DEF PromiseInv, TimeInv, LevelInv
<1>3. x \in Entry /\ x.pit = p /\ stack' = Append(stack, x)
  BY <1>2 DEF Entry, CallEnter
<1>4. stack # <<>> => pci \in Pair
  BY <1>2, TopEntry DEF Pair
<1> HIDE DEF x, pci
<1>5. /\ \A q \in Pit : Occ(stack', q) = IF q = p THEN Occ(stack, q) \cup {Len(stack) + 1}
                                         ELSE Occ(stack, q)
      /\ \A c \in Pair : PairOcc(stack', c) =
           IF stack # <<>> /\ c = pci THEN PairOcc(stack, c) \cup {Len(stack) + 1}
           ELSE PairOcc(stack, c)
  BY <1>2, <1>3, PushOcc DEF pci
<1>6. ASSUME NEW q \in DOMAIN pits' PROVE pits'[q].callcount # 0 \/ Occ(stack', q) # {}
  <2>1. pits' = WithKey(pits, p, Zero)
    BY DEF CallEnter
  <2>2. CASE q = p
    BY <1>5, <2>2
  <2>3. CASE q # p
    <3>1. q \in DOMAIN pits /\ pits'[q] = pits[q]
      BY <2>1, <2>3 DEF WithKey
    <3>2. q \in Pit
      BY <1>2, <3>1 DEF TypeOK
    <3> QED
      BY <1>5, <2>3, <3>1, <3>2 DEF PromiseInv
  <2> QED
    BY <2>2, <2>3
<1>7. ASSUME NEW c \in DOMAIN children'
      PROVE  children'[c].callcount # 0 \/ PairOcc(stack', c) # {}
  <2>1. children' = IF stack = <<>> THEN children ELSE WithKey(children, pci, Zero)
    BY DEF CallEnter, ChildrenOnEntry, pci
  <2>2. CASE stack # <<>> /\ c = pci
    BY <1>4, <1>5, <2>2
  <2>3. CASE ~(stack # <<>> /\ c = pci)
    <3>1. c \in DOMAIN children /\ children'[c] = children[c]
      BY <2>1, <2>3 DEF WithKey
    <3>2. c \in Pair
      BY <1>2, <3>1 DEF TypeOK
    <3> QED
      BY <1>5, <2>3, <3>1, <3>2 DEF PromiseInv
  <2> QED
    BY <2>2, <2>3
<1> QED
  BY <1>1, <1>6, <1>7 DEF PromiseInv, TimesKept

\* A return event: what leaves the stack has been called.
LEMMA LeaveCounted ==
    ASSUME PromiseInv, TimeInv', HandsOver
    PROVE  PromiseInv'
<1>1. TimesKept
  BY LeaveKeeps DEF PromiseInv
<1>2. TypeOK /\ stack # <<>> /\ stack' = Pop(stack)
      /\ DOMAIN pits' = DOMAIN pits /\ DOMAIN children' = DOMAIN children
  BY DEF PromiseInv, TimeInv, LevelInv, HandsOver
<1>3. ASSUME NEW O, NEW was \in Counter, NEW is, NEW e, Charged(was, is, O, e),
             was.callcount # 0 \/ O # {}
      PROVE  is.callcount # 0 \/ O \ {Len(stack)} # {}
  <2>1. was.callcount \in Nat /\ is.callcount = was.callcount + Part(Len(stack), O, 1)
    BY <1>3 DEF Counter, Charged
  <2>2. CASE Len(stack) \in O
    BY <2>1, <2>2 DEF Part
  <2>3. CASE Len(stack) \notin O
    <3>1. is.callcount = was.callcount /\ O \ {Len(stack)} = O
      BY <2>1, <2>3 DEF Part
    <3> QED
      BY <1>3, <3>1
  <2> QED
    BY <2>2, <2>3
<1>4. ASSUME NEW p \in DOMAIN pits' PROVE pits'[p].callcount # 0 \/ Occ(stack', p) # {}
  <2>1. p \in Pit /\ pits[p] \in Counter
    BY <1>2 DEF TypeOK
  <2>2. Charged(pits[p], pits'[p], Occ(stack, p), now - Top(stack).t0)
    BY <1>2, <2>1 DEF HandsOver, Recorded
  <2>3. pits[p].callcount # 0 \/ Occ(stack, p) # {}
    BY <1>2 DEF PromiseInv
  <2>4. Occ(stack', p) = Occ(stack, p) \ {Len(stack)}
    BY <1>2, <2>1, PlacesAfterPop DEF PromiseInv
  <2> QED
    BY <1>3, <2>1, <2>2, <2>3, <2>4
<1>5. ASSUME NEW c \in DOMAIN children'
      PROVE  children'[c].callcount # 0 \/ PairOcc(stack', c) # {}
  <2>1. c \in Pair /\ children[c] \in Counter
    BY <1>2 DEF TypeOK
  <2>2. Charged(children[c], children'[c], PairOcc(stack, c), now - Top(stack).t0)
    BY <1>2, <2>1 DEF HandsOver, Recorded
  <2>3. children[c].callcount # 0 \/ PairOcc(stack, c) # {}
    BY <1>2 DEF PromiseInv
  <2>4. PairOcc(stack', c) = PairOcc(stack, c) \ {Len(stack)}
    BY <1>2, <2>1, PlacesAfterPop DEF PromiseInv
  <2> QED
    BY <1>3, <2>1, <2>2, <2>3, <2>4
<1> QED
  BY <1>1, <1>4, <1>5 DEF PromiseInv, TimesKept

\* The clock: what is owed grows.
LEMMA TickCounted ==
    ASSUME PromiseInv, TimeInv', Tick
    PROVE  PromiseInv'
<1>1. stack' = stack /\ pits' = pits /\ children' = children
  BY DEF Tick
<1>2. \A O : Part(Len(stack), O, 1) \in Nat
  BY DEF Part
<1>3. ASSUME NEW p \in Pit PROVE SelfTime(p)' \in Nat
  <2>1. SelfTime(p) \in Nat
    BY DEF PromiseInv
  <2>2. SelfTime(p)' = SelfTime(p) + Part(Len(stack), Occ(stack, p), 1)
    BY TickCharges
  <2> QED
    BY <1>2, <2>1, <2>2
<1>4. ASSUME NEW c \in Pair PROVE PairSelfTime(c)' \in Nat
  <2>1. PairSelfTime(c) \in Nat
    BY DEF PromiseInv
  <2>2. PairSelfTime(c)' = PairSelfTime(c) + Part(Len(stack), PairOcc(stack, c), 1)
    BY TickCharges
  <2> QED
    BY <1>2, <2>1, <2>2
<1> QED
  BY <1>1, <1>3, <1>4 DEF PromiseInv

\* Statistics that are read while nothing is called are not changed by it.
LEMMA ReadAtRest ==
    ASSUME PromiseInv, EnumerateAtRest
    PROVE  /\ pits' = pits /\ children' = children /\ stack' = stack /\ now' = now
           /\ UNCHANGED <<pitLevel, childLevel, coroutines, lastSeen, calls, outermost>>
<1>1. /\ \A p \in DOMAIN pits : Normalised(pits[p]) = pits[p]
      /\ \A c \in DOMAIN children : Normalised(children[c]) = children[c]
  BY Settled DEF SettledAtRest, EnumerateAtRest
<1>2. pits = [p \in DOMAIN pits |-> pits[p]]
      /\ children = [c \in DOMAIN children |-> children[c]]
  BY DEF PromiseInv, TimeInv, LevelInv, TypeOK
<1> QED
  BY <1>1, <1>2 DEF EnumerateAtRest, Enumerate

\* Every step keeps the invariant; that allocations do not fail keeps out records
\* of functions that are never called.
LEMMA PromiseStep ==
    ASSUME AsyncFrame = {}, MayFail = {}, PromiseInv, [NextAtRest]_vars
    PROVE  PromiseInv'
<1>1. TimeInv'
  <2>1. [Next]_vars
    BY DEF NextAtRest, Next, EnumerateAtRest
  <2> QED
    BY <2>1, TimeStep DEF PromiseInv
<1>2. ASSUME NEW p \in Pit, NEW f \in Frame, CallEnter(p, f) PROVE PromiseInv'
  BY <1>1, <1>2, EnterCounted
<1>3. ASSUME NEW p \in Pit, CallEnterNoChild(p) \/ CallEnterNoSlot(p) PROVE PromiseInv'
  BY <1>3 DEF CallEnterNoChild, CallEnterNoSlot
<1>4. ASSUME NEW f \in Frame, NEW suspended \in BOOLEAN, LeaveOutermost(f, suspended)
      PROVE  PromiseInv'
  BY <1>1, <1>4, LeaveOutermostHandsOver, LeaveCounted
<1>5. ASSUME NEW f \in Frame, NEW suspended \in BOOLEAN, LeaveToParent(f, suspended)
      PROVE  PromiseInv'
  BY <1>1, <1>5, LeaveToParentHandsOver, LeaveCounted
<1>6. CASE Tick
  BY <1>1, <1>6, TickCounted
<1>7. CASE EnumerateAtRest \/ UNCHANGED vars \/ \E f \in Frame, suspended \in BOOLEAN :
                                                  LeaveUnseen(f, suspended)
  <2>1. pits' = pits /\ children' = children /\ stack' = stack /\ now' = now
    BY <1>7, ReadAtRest DEF LeaveUnseen, vars
  <2> QED
    BY <1>1, <2>1 DEF PromiseInv, SelfTime, PairSelfTime
<1> QED
  BY <1>2, <1>3, <1>4, <1>5, <1>6, <1>7 DEF NextAtRest, Event, CallLeave

-----------------------------------------------------------------------------
(* The steps of the promise. *)

\* The functions of a stack.
FnsOf(s) == [i \in 1..Len(s) |-> s[i].pit]

\* They are a sequence as long as the stack.
LEMMA FnsSeq ==
    ASSUME NEW s \in Seq(Entry)
    PROVE  /\ FnsOf(s) \in Seq(Pit)
           /\ Len(FnsOf(s)) = Len(s)
           /\ \A i \in 1..Len(s) : FnsOf(s)[i] = s[i].pit
<1>1. Len(s) \in Nat
  BY LenProperties
<1>2. \A i \in 1..Len(s) : s[i].pit \in Pit
  <2>1. \A i \in 1..Len(s) : s[i] \in Entry
    BY ElementOfSeq
  <2> QED
    BY <2>1 DEF Entry
<1>3. FnsOf(s) \in [1..Len(s) -> Pit]
  BY <1>2 DEF FnsOf
<1>4. FnsOf(s) \in Seq(Pit)
  BY <1>1, <1>3, SeqDef
<1>5. Len(FnsOf(s)) \in Nat /\ 1..Len(FnsOf(s)) = 1..Len(s)
  BY <1>3, <1>4, LenProperties
<1>6. Len(FnsOf(s)) = Len(s)
  <2> DEFINE a == Len(FnsOf(s))
             b == Len(s)
  <2>1. a \in Nat /\ b \in Nat /\ \A i : i \in 1..a <=> i \in 1..b
    BY <1>1, <1>5
  <2> HIDE DEF a, b
  <2>2. a <= b
    <3>1. CASE a = 0
      BY <2>1, <3>1
    <3>2. CASE a # 0
      <4>1. a \in 1..a
        BY <2>1, <3>2
      <4> QED
        BY <2>1, <4>1
    <3> QED
      BY <3>1, <3>2
  <2>3. b <= a
    <3>1. CASE b = 0
      BY <2>1, <3>1
    <3>2. CASE b # 0
      <4>1. b \in 1..b
        BY <2>1, <3>2
      <4> QED
        BY <2>1, <4>1
    <3> QED
      BY <3>1, <3>2
  <2>4. a = b
    BY <2>1, <2>2, <2>3
  <2> QED
    BY <2>4 DEF a, b
<1> QED
  BY <1>4, <1>6 DEF FnsOf

\* A push appends the function.
LEMMA FnsPush ==
    ASSUME NEW s \in Seq(Entry), NEW x \in Entry
    PROVE  FnsOf(Append(s, x)) = Append(FnsOf(s), x.pit)
<1> DEFINE a == FnsOf(Append(s, x))
           b == Append(FnsOf(s), x.pit)
<1>1. x.pit \in Pit /\ Append(s, x) \in Seq(Entry) /\ Len(s) \in Nat
      /\ Len(Append(s, x)) = Len(s) + 1 /\ Append(s, x)[Len(s) + 1] = x
      /\ \A i \in 1..Len(s) : Append(s, x)[i] = s[i]
  BY AppendProperties, LenProperties DEF Entry
<1>2. FnsOf(s) \in Seq(Pit) /\ Len(FnsOf(s)) = Len(s)
      /\ \A i \in 1..Len(s) : FnsOf(s)[i] = s[i].pit
  BY FnsSeq
<1>3. a \in Seq(Pit) /\ Len(a) = Len(s) + 1
      /\ \A i \in 1..(Len(s) + 1) : a[i] = Append(s, x)[i].pit
  BY <1>1, FnsSeq
<1>4. b \in Seq(Pit) /\ Len(b) = Len(s) + 1 /\ b[Len(s) + 1] = x.pit
      /\ \A i \in 1..Len(s) : b[i] = FnsOf(s)[i]
  BY <1>1, <1>2, AppendProperties
<1>5. \A i \in 1..Len(a) : a[i] = b[i]
  BY <1>1, <1>2, <1>3, <1>4
<1> HIDE DEF a, b
<1>6. a = b
  BY <1>3, <1>4, <1>5, SeqEqual
<1> QED
  BY <1>6 DEF a, b

\* A pop takes the last one away.
LEMMA FnsPop ==
    ASSUME NEW s \in Seq(Entry), s # <<>>
    PROVE  FnsOf(Pop(s)) = SubSeq(FnsOf(s), 1, Len(FnsOf(s)) - 1)
<1> DEFINE m == Len(s) - 1
           a == FnsOf(Pop(s))
           b == SubSeq(FnsOf(s), 1, m)
<1>1. Pop(s) \in Seq(Entry) /\ Len(Pop(s)) = m /\ m \in Nat
      /\ \A i \in 1..m : Pop(s)[i] = s[i] /\ i \in 1..Len(s)
  BY PopStack
<1>2. FnsOf(s) \in Seq(Pit) /\ Len(FnsOf(s)) = Len(s)
      /\ \A i \in 1..Len(s) : FnsOf(s)[i] = s[i].pit
  BY FnsSeq
<1>3. a \in Seq(Pit) /\ Len(a) = m /\ \A i \in 1..m : a[i] = Pop(s)[i].pit
  BY <1>1, FnsSeq
<1>4. \A i \in 1..m : FnsOf(s)[i] \in Pit
  BY <1>1, <1>2, ElementOfSeq
<1> HIDE DEF m
<1>5. b \in Seq(Pit) /\ Len(b) = m /\ \A i \in 1..m : b[i] = FnsOf(s)[i]
  <2>1. /\ b \in Seq(Pit)
        /\ Len(b) = IF 1 <= m THEN m - 1 + 1 ELSE 0
        /\ \A i \in 1..(m - 1 + 1) : b[i] = FnsOf(s)[1 + i - 1]
    <3>1. m \in Int /\ 1 \in Int
      BY <1>1
    <3> QED
      BY <1>4, <3>1, SubSeqProperties
  <2>2. m - 1 + 1 = m /\ (~(1 <= m) => m = 0) /\ \A i \in 1..m : 1 + i - 1 = i
    BY <1>1
  <2> HIDE DEF b
  <2> QED
    BY <2>1, <2>2
<1>6. \A i \in 1..Len(a) : a[i] = b[i]
  BY <1>1, <1>2, <1>3, <1>5
<1> HIDE DEF a, b
<1>7. a = b
  BY <1>3, <1>5, <1>6, SeqEqual
<1> QED
  BY <1>2, <1>7 DEF a, b, m

\* The initial states map to the initial states of CallTimes.
LEMMA PromisedInit == Init => Promised!Init
<1> SUFFICES ASSUME Init PROVE Promised!Init
  OBVIOUS
<1>1. stack = <<>> /\ Len(stack) = 0 /\ now = 0 /\ DOMAIN pits = {} /\ DOMAIN children = {}
  BY EmptySeq DEF Init
<1>2. FnsOf(stack) = <<>>
  BY <1>1, FnsSeq, EmptySeq DEF FnsOf
<1>3. /\ \A p : Recorded(pits, p) = Zero /\ Activations(p) = {}
      /\ \A c : Recorded(children, c) = Zero /\ PairActivations(c) = {}
  BY <1>1 DEF Recorded, Activations, PairActivations
<1>4. OwedTo({}) = 0 /\ Running({}) = 0
  BY SumOfNone DEF OwedTo, Running
<1>5. Zero.tsub = 0 /\ Zero.ttotal = 0 /\ Zero.callcount = 0 /\ Zero.nonrec = 0
  BY DEF Zero
<1>6. \A p : /\ Recorded(pits, p).tsub + OwedTo(Activations(p)) = 0
             /\ Recorded(pits, p).ttotal + Running(Activations(p)) = 0
             /\ Recorded(pits, p).callcount = 0 /\ Recorded(pits, p).nonrec = 0
  BY <1>3, <1>4, <1>5
<1>7. \A c : /\ Recorded(children, c).tsub + OwedTo(PairActivations(c)) = 0
             /\ Recorded(children, c).ttotal + Running(PairActivations(c)) = 0
  BY <1>3, <1>4, <1>5
<1> QED
  BY <1>2, <1>6, <1>7 DEF Promised!Init, FnsOf, Pair

\* What was promised stays as it was.
LEMMA PromisedKept ==
    ASSUME TimesKept
    PROVE  /\ \A p \in Pit :
                /\ Recorded(pits', p).tsub + OwedTo(Activations(p))'
                     = Recorded(pits, p).tsub + OwedTo(Activations(p))
                /\ Recorded(pits', p).ttotal + Running(Activations(p))'
                     = Recorded(pits, p).ttotal + Running(Activations(p))
           /\ \A c \in Pair :
                /\ Recorded(children', c).tsub + OwedTo(PairActivations(c))'
                     = Recorded(children, c).tsub + OwedTo(PairActivations(c))
                /\ Recorded(children', c).ttotal + Running(PairActivations(c))'
                     = Recorded(children, c).ttotal + Running(PairActivations(c))
BY PromisedIs, PromisedIsNext DEF TimesKept

\* A call event is a Call.
LEMMA PromisedEnter ==
    ASSUME PromiseInv, NEW p \in Pit, NEW f \in Frame, CallEnter(p, f)
    PROVE  Promised!Call(p)
<1> DEFINE x == [pit |-> p, t0 |-> now]
<1>1. stack \in Seq(Entry) /\ now \in Nat
  BY TimeTypes DEF PromiseInv
<1>2. x \in Entry /\ x.pit = p /\ stack' = Append(stack, x)
  BY <1>1 DEF Entry, CallEnter
<1> HIDE DEF x
<1>3. FnsOf(stack') = Append(FnsOf(stack), p)
  BY <1>1, <1>2, FnsPush
<1>4. TimesKept
  BY EnterKeeps DEF PromiseInv
<1>5. /\ \A q : Recorded(pits', q) = Recorded(pits, q)
      /\ \A c : Recorded(children', c) = Recorded(children, c)
  BY RecordedNew DEF CallEnter, ChildrenOnEntry
<1> QED
  BY <1>3, <1>4, <1>5, PromisedKept DEF Promised!Call, FnsOf

\* A return event is a Return.
LEMMA PromisedReturn ==
    ASSUME PromiseInv, HandsOver
    PROVE  Promised!Return
<1> DEFINE n == Len(stack)
           fns == FnsOf(stack)
<1>1. stack \in Seq(Entry) /\ stack # <<>> /\ stack' = Pop(stack) /\ TypeOK /\ n \in Nat \ {0}
  BY TimeTypes, EmptySeq DEF PromiseInv, TimeInv, LevelInv, HandsOver
<1>2. fns \in Seq(Pit) /\ Len(fns) = n /\ \A i \in 1..n : fns[i] = stack[i].pit
  BY <1>1, FnsSeq
<1>3. fns # <<>>
  BY <1>1, <1>2, EmptySeq
<1>4. FnsOf(stack') = SubSeq(fns, 1, Len(fns) - 1)
  BY <1>1, FnsPop
<1>5. TimesKept
  BY LeaveKeeps DEF PromiseInv
<1>6. n \in 1..n /\ fns[Len(fns)] = Top(stack).pit /\ Top(stack).pit \in Pit
  BY <1>1, <1>2, TopEntry DEF Top
<1>7. ASSUME NEW p \in Pit
      PROVE  /\ Recorded(pits', p).callcount = Recorded(pits, p).callcount
                  + (IF p = fns[Len(fns)] THEN 1 ELSE 0)
             /\ Recorded(pits', p).nonrec = Recorded(pits, p).nonrec
                  + (IF p = fns[Len(fns)] /\ \A i \in 1..(Len(fns) - 1) : fns[i] # fns[Len(fns)]
                     THEN 1 ELSE 0)
  <2>1. n \in Occ(stack, p) <=> p = fns[Len(fns)]
    BY <1>6 DEF Occ, Top
  <2>2. Recorded(pits', p).callcount = Recorded(pits, p).callcount + Part(n, Occ(stack, p), 1)
    BY DEF HandsOver, Charged
  <2>3. Occ(stack, p) = {n} <=>
          p = fns[Len(fns)] /\ \A i \in 1..(Len(fns) - 1) : fns[i] # fns[Len(fns)]
    <3>1. ASSUME Occ(stack, p) = {n}
          PROVE  p = fns[Len(fns)] /\ \A i \in 1..(Len(fns) - 1) : fns[i] # fns[Len(fns)]
      <4>1. p = fns[Len(fns)]
        BY <2>1, <3>1
      <4>2. \A i \in 1..(n - 1) : i \in 1..n /\ i # n /\ fns[i] = stack[i].pit
        BY <1>1, <1>2
      <4> QED
        BY <1>2, <3>1, <4>1, <4>2 DEF Occ
    <3>2. ASSUME p = fns[Len(fns)], \A i \in 1..(Len(fns) - 1) : fns[i] # fns[Len(fns)]
          PROVE  Occ(stack, p) = {n}
      <4>1. \A i \in 1..n : i = n \/ i \in 1..(n - 1)
        BY <1>1
      <4>2. \A i \in Occ(stack, p) : i \in 1..n /\ fns[i] = p
        BY <1>2 DEF Occ
      <4>3. \A i \in Occ(stack, p) : i = n
        BY <1>2, <3>2, <4>1, <4>2
      <4> QED
        BY <2>1, <3>2, <4>3
    <3> QED
      BY <3>1, <3>2
  <2>4. Recorded(pits', p).nonrec = Recorded(pits, p).nonrec
          + (IF Occ(stack, p) = {n} THEN 1 ELSE 0)
    BY DEF HandsOver
  <2> QED
    BY <2>1, <2>2, <2>3, <2>4 DEF Part
<1> DEFINE ncall == [p \in Pit |-> Recorded(pits, p).callcount]
           nactual == [p \in Pit |-> Recorded(pits, p).nonrec]
           inner == fns[Len(fns)]
           outer == \A i \in 1..(Len(fns) - 1) : fns[i] # inner
<1>8. inner \in Pit /\ \A p : Recorded(pits, p) \in Counter
  BY <1>1, <1>6, RecordedTypes
<1>9. \A p \in Pit : ncall[p] \in Nat /\ nactual[p] \in Nat
  BY <1>8 DEF Counter
<1>10. ncall' = [ncall EXCEPT ![inner] = ncall[inner] + 1]
  <2>1. \A p \in Pit : ncall'[p] = ncall[p] + (IF p = inner THEN 1 ELSE 0)
    BY <1>7
  <2>2. DOMAIN ncall' = Pit /\ DOMAIN ncall = Pit /\ ncall' = [p \in Pit |-> ncall'[p]]
    OBVIOUS
  <2> HIDE DEF ncall, inner
  <2> QED
    BY <1>8, <1>9, <2>1, <2>2
<1>11. nactual' = [nactual EXCEPT ![inner] = nactual[inner] + (IF outer THEN 1 ELSE 0)]
  <2>1. \A p \in Pit : nactual'[p] = nactual[p] + (IF p = inner /\ outer THEN 1 ELSE 0)
    BY <1>7
  <2>2. DOMAIN nactual' = Pit /\ DOMAIN nactual = Pit /\ nactual' = [p \in Pit |-> nactual'[p]]
    OBVIOUS
  <2>3. outer \in BOOLEAN
    OBVIOUS
  <2> HIDE DEF nactual, inner, outer
  <2> QED
    BY <1>8, <1>9, <2>1, <2>2, <2>3
<1> QED
  BY <1>3, <1>4, <1>5, <1>10, <1>11, PromisedKept
  DEF Promised!Return, Promised!Innermost, Promised!One, FnsOf, Pair

\* A tick is an Elapse.
LEMMA PromisedElapse ==
    ASSUME PromiseInv, Tick
    PROVE  Promised!Elapse
<1> DEFINE n == Len(stack)
           fns == FnsOf(stack)
<1>1. stack \in Seq(Entry) /\ n \in Nat
  BY TimeTypes, LenProperties DEF PromiseInv
<1>2. fns \in Seq(Pit) /\ Len(fns) = n /\ \A i \in 1..n : fns[i] = stack[i].pit
  BY <1>1, FnsSeq
<1>3. stack' = stack /\ pits' = pits /\ children' = children
  BY DEF Tick
<1>4. fns # <<>> <=> n # 0
  BY <1>1, <1>2, EmptySeq
<1>5. ASSUME NEW p \in Pit
      PROVE  /\ n \in Occ(stack, p) <=> fns # <<>> /\ p = fns[Len(fns)]
             /\ Occ(stack, p) # {} <=> p \in {fns[i] : i \in 1..Len(fns)}
  <2>1. n # 0 => n \in 1..n
    BY <1>1
  <2>2. n \in Occ(stack, p) <=> fns # <<>> /\ p = fns[Len(fns)]
    BY <1>1, <1>2, <1>4, <2>1 DEF Occ
  <2>3. Occ(stack, p) # {} <=> \E i \in 1..n : fns[i] = p
    BY <1>2 DEF Occ
  <2> QED
    BY <1>2, <2>2, <2>3
<1>6. ASSUME NEW c \in Pair
      PROVE  /\ n \in PairOcc(stack, c) <=>
                  Len(fns) > 1 /\ c = <<fns[Len(fns) - 1], fns[Len(fns)]>>
             /\ PairOcc(stack, c) # {} <=> c \in {<<fns[i-1], fns[i]>> : i \in 2..Len(fns)}
  <2>1. c = <<c[1], c[2]>>
    BY DEF Pair
  <2>2. \A i \in 2..n : i \in 1..n /\ i - 1 \in 1..n
    BY <1>1
  <2>3. \A i \in 2..n : (i \in PairOcc(stack, c) <=> c = <<fns[i-1], fns[i]>>)
    BY <1>2, <2>1, <2>2 DEF PairOcc
  <2>4. PairOcc(stack, c) \subseteq 2..n /\ (n \in 2..n <=> n > 1)
    BY <1>1 DEF PairOcc
  <2> HIDE DEF n, fns
  <2>5. n \in PairOcc(stack, c) <=> n > 1 /\ c = <<fns[n - 1], fns[n]>>
    BY <2>3, <2>4
  <2>6. PairOcc(stack, c) # {} <=> \E i \in 2..n : c = <<fns[i-1], fns[i]>>
    BY <2>3, <2>4
  <2> QED
    BY <1>2, <2>5, <2>6
<1>7. /\ \A p \in Pit :
           /\ SelfTime(p)' = SelfTime(p) + (IF fns # <<>> /\ p = fns[Len(fns)] THEN 1 ELSE 0)
           /\ TotalTime(p)'
                = TotalTime(p) + (IF p \in {fns[i] : i \in 1..Len(fns)} THEN 1 ELSE 0)
      /\ \A c \in Pair :
           /\ PairSelfTime(c)' = PairSelfTime(c)
                + (IF Len(fns) > 1 /\ c = <<fns[Len(fns) - 1], fns[Len(fns)]>> THEN 1 ELSE 0)
           /\ PairTotalTime(c)' = PairTotalTime(c)
                + (IF c \in {<<fns[i-1], fns[i]>> : i \in 2..Len(fns)} THEN 1 ELSE 0)
  <2> HIDE DEF fns
  <2>1. ASSUME NEW p \in Pit
        PROVE  /\ SelfTime(p)' = SelfTime(p)
                    + (IF fns # <<>> /\ p = fns[Len(fns)] THEN 1 ELSE 0)
               /\ TotalTime(p)'
                    = TotalTime(p) + (IF p \in {fns[i] : i \in 1..Len(fns)} THEN 1 ELSE 0)
    BY <1>5, TickCharges DEF Part
  <2>2. ASSUME NEW c \in Pair
        PROVE  /\ PairSelfTime(c)' = PairSelfTime(c)
                    + (IF Len(fns) > 1 /\ c = <<fns[Len(fns) - 1], fns[Len(fns)]>> THEN 1 ELSE 0)
               /\ PairTotalTime(c)' = PairTotalTime(c)
                    + (IF c \in {<<fns[i-1], fns[i]>> : i \in 2..Len(fns)} THEN 1 ELSE 0)
    BY <1>6, TickCharges DEF Part
  <2> QED
    BY <2>1, <2>2
<1>8. /\ \A p \in Pit :
           /\ Recorded(pits', p).tsub + OwedTo(Activations(p))'
                = Recorded(pits, p).tsub + OwedTo(Activations(p))
                    + (IF fns # <<>> /\ p = fns[Len(fns)] THEN 1 ELSE 0)
           /\ Recorded(pits', p).ttotal + Running(Activations(p))'
                = Recorded(pits, p).ttotal + Running(Activations(p))
                    + (IF p \in {fns[i] : i \in 1..Len(fns)} THEN 1 ELSE 0)
      /\ \A c \in Pair :
           /\ Recorded(children', c).tsub + OwedTo(PairActivations(c))'
                = Recorded(children, c).tsub + OwedTo(PairActivations(c))
                + (IF Len(fns) > 1 /\ c = <<fns[Len(fns) - 1], fns[Len(fns)]>> THEN 1 ELSE 0)
           /\ Recorded(children', c).ttotal + Running(PairActivations(c))'
                = Recorded(children, c).ttotal + Running(PairActivations(c))
                + (IF c \in {<<fns[i-1], fns[i]>> : i \in 2..Len(fns)} THEN 1 ELSE 0)
  <2>1. \A p \in Pit :
          /\ Recorded(pits', p).tsub + OwedTo(Activations(p))' = SelfTime(p)'
          /\ Recorded(pits', p).ttotal + Running(Activations(p))' = TotalTime(p)'
          /\ Recorded(pits, p).tsub + OwedTo(Activations(p)) = SelfTime(p)
          /\ Recorded(pits, p).ttotal + Running(Activations(p)) = TotalTime(p)
    BY PromisedIs, PromisedIsNext
  <2>2. \A c \in Pair :
          /\ Recorded(children', c).tsub + OwedTo(PairActivations(c))' = PairSelfTime(c)'
          /\ Recorded(children', c).ttotal + Running(PairActivations(c))' = PairTotalTime(c)'
          /\ Recorded(children, c).tsub + OwedTo(PairActivations(c)) = PairSelfTime(c)
          /\ Recorded(children, c).ttotal + Running(PairActivations(c)) = PairTotalTime(c)
    BY PromisedIs, PromisedIsNext
  <2> HIDE DEF fns
  <2> QED
    BY <1>7, <2>1, <2>2
<1> QED
  BY <1>3, <1>8
  DEF Promised!Elapse, Promised!One, Promised!Innermost, Promised!InProgress,
      Promised!InnermostPair, Promised!PairsInProgress, FnsOf, Pair

\* Every step maps to a step of CallTimes or changes nothing there.
LEMMA PromisedStep ==
    ASSUME AsyncFrame = {}, MayFail = {}, PromiseInv, [NextAtRest]_vars
    PROVE  [Promised!Next]_Promised!vars
<1>1. ASSUME NEW p \in Pit, NEW f \in Frame, CallEnter(p, f) PROVE Promised!Next
  BY <1>1, PromisedEnter DEF Promised!Next
<1>2. ASSUME NEW p \in Pit, CallEnterNoChild(p) \/ CallEnterNoSlot(p) PROVE FALSE
  BY <1>2 DEF CallEnterNoChild, CallEnterNoSlot
<1>3. ASSUME NEW f \in Frame, NEW suspended \in BOOLEAN, LeaveOutermost(f, suspended)
      PROVE  Promised!Next
  BY <1>3, LeaveOutermostHandsOver, PromisedReturn DEF Promised!Next
<1>4. ASSUME NEW f \in Frame, NEW suspended \in BOOLEAN, LeaveToParent(f, suspended)
      PROVE  Promised!Next
  BY <1>4, LeaveToParentHandsOver, PromisedReturn DEF Promised!Next
<1>5. CASE Tick
  BY <1>5, PromisedElapse DEF Promised!Next
<1>6. CASE EnumerateAtRest \/ UNCHANGED vars \/ \E f \in Frame, suspended \in BOOLEAN :
                                                  LeaveUnseen(f, suspended)
  <2>1. pits' = pits /\ children' = children /\ stack' = stack /\ now' = now
    BY <1>6, ReadAtRest DEF LeaveUnseen, vars
  <2>2. /\ \A O : OwedTo(O)' = OwedTo(O) /\ Running(O)' = Running(O)
        /\ \A p : Activations(p)' = Activations(p)
        /\ \A c : PairActivations(c)' = PairActivations(c)
    BY <2>1 DEF OwedTo, Owed, Running, Activations, PairActivations
  <2> QED
    BY <2>1, <2>2 DEF Promised!vars
<1> QED
  BY <1>1, <1>2, <1>3, <1>4, <1>5, <1>6 DEF NextAtRest, Event, CallLeave

\* When ordinary functions only are profiled, and memory does not run out, the
\* statistics need no repair once every call has returned: no self time is
\* negative, and every record is of a function that has been called, so reading
\* them with _pitenumstat changes nothing.
THEOREM NothingToRepair ==
    ASSUME AsyncFrame = {}, MayFail = {}
    PROVE  SpecAtRest => []SettledAtRest
<1>1. Init => PromiseInv
  BY PromiseInit
<1>2. PromiseInv /\ [NextAtRest]_vars => PromiseInv'
  BY PromiseStep
<1>3. PromiseInv => SettledAtRest
  BY Settled
<1> QED
  BY <1>1, <1>2, <1>3, PTL DEF SpecAtRest

\* The accounting implements its promise: with a stack of entry times, levels and
\* times taken back out of the callers, _call_enter and _call_leave charge every
\* unit of time that passes to the self time of the function that is running, to
\* its pair with its caller, and once to every function and pair that is being
\* executed, and count a call when it returns, for every stream of calls and
\* returns of ordinary functions.
THEOREM ChargedAsPromised ==
    ASSUME AsyncFrame = {}, MayFail = {}
    PROVE  SpecAtRest => ChargesAsPromised
<1>1. Init => PromiseInv /\ Promised!Init
  BY PromiseInit, PromisedInit
<1>2. PromiseInv /\ [NextAtRest]_vars => PromiseInv' /\ [Promised!Next]_Promised!vars
  BY PromiseStep, PromisedStep
<1> QED
  BY <1>1, <1>2, PTL DEF SpecAtRest, ChargesAsPromised, Promised!Spec
===============================================================================
