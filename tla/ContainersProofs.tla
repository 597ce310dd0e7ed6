--------------------------- MODULE ContainersProofs ---------------------------
(***************************************************************************)
(* Proofs about the containers of yappi: that the array of callstack.c     *)
(* implements a stack of calls, at every depth and from every initial      *)
(* size; that, for every size of a pool of freelist.c and however often it *)
(* grows, no two owners share a chunk and every chunk is freed once; and   *)
(* that the hash table of hashtab.c is a partial map, for every hash       *)
(* function, every set of keys and at every moment of a growth.            *)
(***************************************************************************)
EXTENDS CallStack, FreeList, HashTab, SequenceTheorems, FiniteSetTheorems,
        WellFoundedInduction, TLAPS

-----------------------------------------------------------------------------
(* The stack of calls. *)

Call == [key: CKey, t0: Time]

\* The inductive invariant: the array is a function on the slots that are
\* allocated, there is one at least, and those up to head hold calls.
StackInv ==
    /\ size \in Int /\ size > 0
    /\ head \in Int /\ head >= -1 /\ head < size
    /\ items = [i \in 0..(size - 1) |-> items[i]]
    /\ \A i \in 0..head : items[i] \in Call

LEMMA StackInvInit == StackInit => StackInv
  BY StackAssumption DEF StackInit, StackInv

LEMMA StackInvType == StackInv => StackTypeOK
<1> SUFFICES ASSUME StackInv PROVE StackTypeOK
  OBVIOUS
<1>1. size \in Nat /\ head \in -1..(size - 1)
  BY DEF StackInv
<1>2. DOMAIN items = 0..(size - 1)
  BY DEF StackInv
<1>3. \A i \in 0..head : items[i] \in [key: CKey, t0: Time]
  BY DEF StackInv, Call
<1> QED
  BY <1>1, <1>2, <1>3 DEF StackTypeOK

LEMMA SlotsBelow ==
    ASSUME NEW h \in Int, NEW n \in Int, h >= -1, h + 1 < n
    PROVE  /\ h + 1 \in 0..(n - 1)
           /\ \A i \in 0..h : i \in 0..(n - 1) /\ i # h + 1
  OBVIOUS

\* spush leaves a slot for the new call, and the slots below it as they were.
LEMMA EnterStep ==
    ASSUME StackInv, NEW k \in CKey, NEW t \in Time, Enter(k, t)
    PROVE  /\ StackInv'
           /\ head' = head + 1
           /\ items'[head + 1] = [key |-> k, t0 |-> t]
           /\ \A i \in 0..head : items'[i] = items[i]
<1>1. size \in Int /\ size > 0 /\ head \in Int /\ head >= -1 /\ head < size
  BY DEF StackInv
<1>2. head' = head + 1 /\ size' = IF head >= size - 1 THEN 2 * size ELSE size
  BY DEF Enter
<1>3. size' \in Int /\ size' > 0 /\ head + 1 < size'
  BY <1>1, <1>2
<1>4. /\ DOMAIN Room = 0..(size' - 1)
      /\ \A i \in 0..head : Room[i] = items[i]
  <2>1. CASE head >= size - 1
    <3>1. Room = [i \in 0..(2 * size - 1) |-> IF i < size THEN items[i] ELSE Blank]
      BY <2>1 DEF Room
    <3>2. \A i \in 0..head : i \in 0..(2 * size - 1) /\ i < size
      BY <1>1
    <3> QED
      BY <1>2, <2>1, <3>1, <3>2
  <2>2. CASE ~(head >= size - 1)
    <3>1. Room = items
      BY <2>2 DEF Room
    <3>2. DOMAIN items = 0..(size - 1)
      BY DEF StackInv
    <3> QED
      BY <1>2, <2>2, <3>1, <3>2
  <2> QED
    BY <2>1, <2>2
<1>5. /\ head + 1 \in 0..(size' - 1)
      /\ \A i \in 0..head : i \in 0..(size' - 1) /\ i # head + 1
  BY <1>1, <1>3, SlotsBelow
<1>6. items' = [i \in 0..(size' - 1) |->
                  IF i = head + 1 THEN [key |-> k, t0 |-> t] ELSE Room[i]]
  <2>1. items' = [i \in DOMAIN Room \cup {head + 1} |->
                    IF i = head + 1 THEN [key |-> k, t0 |-> t] ELSE Room[i]]
    BY DEF Enter
  <2>2. DOMAIN Room \cup {head + 1} = 0..(size' - 1)
    BY <1>4, <1>5
  <2> QED
    BY <2>1, <2>2
<1>7. items'[head + 1] = [key |-> k, t0 |-> t]
  BY <1>5, <1>6
<1>8. ASSUME NEW i \in 0..head PROVE items'[i] = items[i]
  BY <1>4, <1>5, <1>6
<1>9. \A i \in 0..head' : items'[i] \in Call
  <2>1. \A i \in 0..head' : i \in 0..head \/ i = head + 1
    BY <1>1, <1>2
  <2>2. \A i \in 0..head : items'[i] \in Call
    BY <1>8 DEF StackInv
  <2>3. items'[head + 1] \in Call
    BY <1>7 DEF Call
  <2> QED
    BY <2>1, <2>2, <2>3
<1>10. items' = [i \in 0..(size' - 1) |-> items'[i]]
  BY <1>6
<1>11. StackInv'
  BY <1>1, <1>2, <1>3, <1>9, <1>10 DEF StackInv
<1> QED
  BY <1>2, <1>7, <1>8, <1>11

\* _call_leave: one call less, the others as they were.
LEMMA LeaveStep ==
    ASSUME StackInv, LeaveLast \/ LeaveToCaller
    PROVE  /\ StackInv'
           /\ head >= 0 /\ head' = head - 1
           /\ items' = items
<1>1. head >= 0 /\ head' = head - 1 /\ size' = size
  BY DEF LeaveLast, LeaveToCaller, StackInv
<1>2. items' = items
  <2>1. CASE LeaveLast
    BY <2>1 DEF LeaveLast
  <2>2. CASE LeaveToCaller
    <3>1. head - 1 \in 0..head /\ head - 1 \in 0..(size - 1)
      BY <2>2 DEF LeaveToCaller, StackInv
    <3>2. items[head - 1] \in Call
      BY <3>1 DEF StackInv
    <3>3. [items[head - 1] EXCEPT !.key = items[head - 1].key] = items[head - 1]
      BY <3>2 DEF Call
    <3>4. items' = [items EXCEPT ![head - 1] = items[head - 1]]
      BY <2>2, <3>3 DEF LeaveToCaller, PushedBack
    <3>5. items = [i \in 0..(size - 1) |-> items[i]]
      BY DEF StackInv
    <3> QED
      BY <3>4, <3>5
  <2> QED
    BY <2>1, <2>2
<1>3. \A i \in 0..head' : i \in 0..head
  BY <1>1 DEF StackInv
<1>4. items' = [i \in 0..(size' - 1) |-> items'[i]]
  BY <1>1, <1>2 DEF StackInv
<1>5. \A i \in 0..head' : items'[i] \in Call
  BY <1>2, <1>3 DEF StackInv
<1>6. size' \in Int /\ size' > 0 /\ head' \in Int /\ head' >= -1 /\ head' < size'
  BY <1>1 DEF StackInv
<1> QED
  BY <1>1, <1>2, <1>4, <1>5, <1>6 DEF StackInv

LEMMA StackInvStep == StackInv /\ [StackNext]_stackVars => StackInv'
<1> SUFFICES ASSUME StackInv, [StackNext]_stackVars PROVE StackInv'
  OBVIOUS
<1>1. CASE LeaveLast \/ LeaveToCaller
  BY <1>1, LeaveStep
<1>2. ASSUME NEW k \in CKey, NEW t \in Time, Enter(k, t) PROVE StackInv'
  BY <1>2, EnterStep
<1>3. CASE UNCHANGED stackVars
  BY <1>3 DEF stackVars, StackInv
<1> QED
  BY <1>1, <1>2, <1>3 DEF StackNext

\* The sequence of calls that an array with n slots in use holds.
CallsOf(a, n) == [i \in 1..n |-> a[i - 1]]

LEMMA CallsOfProperties ==
    ASSUME NEW a, NEW n \in Nat, \A i \in 0..(n - 1) : a[i] \in Call
    PROVE  /\ CallsOf(a, n) \in Seq(Call)
           /\ Len(CallsOf(a, n)) = n
           /\ \A i \in 1..n : CallsOf(a, n)[i] = a[i - 1]
<1>1. ASSUME NEW i \in 1..n PROVE a[i - 1] \in Call
  <2>1. i - 1 \in 0..(n - 1)
    OBVIOUS
  <2> QED
    BY <2>1
<1>2. CallsOf(a, n) \in [1..n -> Call]
  BY <1>1 DEF CallsOf
<1> QED
  BY <1>2, IsASeq, LenProperties DEF CallsOf

\* A call stored above the n slots in use is appended to the calls they hold.
LEMMA CallsOfAppended ==
    ASSUME NEW a, NEW b, NEW n \in Nat, NEW c \in Call,
           \A i \in 0..(n - 1) : a[i] \in Call,
           \A i \in 0..(n - 1) : b[i] = a[i],
           b[n] = c
    PROVE  CallsOf(b, n + 1) = Append(CallsOf(a, n), c)
<1>1. \A i \in 0..((n + 1) - 1) : b[i] \in Call
  OBVIOUS
<1>2. /\ CallsOf(b, n + 1) \in Seq(Call)
      /\ Len(CallsOf(b, n + 1)) = n + 1
      /\ \A i \in 1..(n + 1) : CallsOf(b, n + 1)[i] = b[i - 1]
  BY <1>1, n + 1 \in Nat, CallsOfProperties
<1>3. /\ CallsOf(a, n) \in Seq(Call)
      /\ Len(CallsOf(a, n)) = n
      /\ \A i \in 1..n : CallsOf(a, n)[i] = a[i - 1]
  BY CallsOfProperties
<1>4. /\ Append(CallsOf(a, n), c) \in Seq(Call)
      /\ Len(Append(CallsOf(a, n), c)) = n + 1
      /\ \A i \in 1..n : Append(CallsOf(a, n), c)[i] = CallsOf(a, n)[i]
      /\ Append(CallsOf(a, n), c)[n + 1] = c
  BY <1>3, AppendProperties
<1>5. ASSUME NEW i \in 1..(n + 1)
      PROVE  CallsOf(b, n + 1)[i] = Append(CallsOf(a, n), c)[i]
  <2>1. CASE i = n + 1
    BY <1>2, <1>4, <2>1
  <2>2. CASE i \in 1..n
    <3>1. i - 1 \in 0..(n - 1)
      BY <2>2
    <3> QED
      BY <1>2, <1>3, <1>4, <2>2, <3>1
  <2>3. i = n + 1 \/ i \in 1..n
    OBVIOUS
  <2> QED
    BY <2>1, <2>2, <2>3
<1> QED
  BY <1>2, <1>4, <1>5, SeqEqual

\* Without the uppermost slot, the calls are those but the last.
LEMMA CallsOfShortened ==
    ASSUME NEW a, NEW n \in Nat, n > 0, \A i \in 0..(n - 1) : a[i] \in Call
    PROVE  /\ CallsOf(a, n) # <<>>
           /\ CallsOf(a, n - 1)
                = SubSeq(CallsOf(a, n), 1, Len(CallsOf(a, n)) - 1)
<1>1. /\ CallsOf(a, n) \in Seq(Call)
      /\ Len(CallsOf(a, n)) = n
      /\ \A i \in 1..n : CallsOf(a, n)[i] = a[i - 1]
  BY CallsOfProperties
<1>2. SubSeq(CallsOf(a, n), 1, n - 1) = [i \in 1..(n - 1) |-> CallsOf(a, n)[i]]
  BY <1>1
<1>3. \A i \in 1..(n - 1) : CallsOf(a, n)[i] = a[i - 1]
  BY <1>1
<1>4. CallsOf(a, n - 1) = [i \in 1..(n - 1) |-> a[i - 1]]
  BY DEF CallsOf
<1>5. CallsOf(a, n - 1) = SubSeq(CallsOf(a, n), 1, n - 1)
  BY <1>2, <1>3, <1>4
<1> QED
  BY <1>1, <1>5

Calls == CallsOf(items, head + 1)

\* _call_enter pushes a call.
LEMMA EnterPushes ==
    ASSUME StackInv, NEW k \in CKey, NEW t \in Time, Enter(k, t)
    PROVE  Calls' = Append(Calls, [key |-> k, t0 |-> t])
<1>1. head + 1 \in Nat /\ (head + 1) - 1 = head
  BY DEF StackInv
<1>2. [key |-> k, t0 |-> t] \in Call
  BY DEF Call
<1>3. /\ \A i \in 0..((head + 1) - 1) : items[i] \in Call /\ items'[i] = items[i]
      /\ items'[head + 1] = [key |-> k, t0 |-> t]
  BY <1>1, EnterStep DEF StackInv
<1>4. head' = head + 1
  BY EnterStep
<1>5. CallsOf(items', (head + 1) + 1)
        = Append(CallsOf(items, head + 1), [key |-> k, t0 |-> t])
  BY <1>1, <1>2, <1>3, CallsOfAppended
<1> QED
  BY <1>4, <1>5 DEF Calls, CallsOf

\* _call_leave pops a call.
LEMMA LeavePops ==
    ASSUME StackInv, LeaveLast \/ LeaveToCaller
    PROVE  Calls # <<>> /\ Calls' = SubSeq(Calls, 1, Len(Calls) - 1)
<1>1. head >= 0 /\ head' = head - 1 /\ items' = items
  BY LeaveStep
<1>2. head + 1 \in Nat /\ head + 1 > 0 /\ (head + 1) - 1 = head
      /\ (head - 1) + 1 = head
  BY <1>1 DEF StackInv
<1>3. \A i \in 0..((head + 1) - 1) : items[i] \in Call
  BY <1>2 DEF StackInv
<1>4. /\ CallsOf(items, head + 1) # <<>>
      /\ CallsOf(items, (head + 1) - 1)
           = SubSeq(CallsOf(items, head + 1), 1, Len(CallsOf(items, head + 1)) - 1)
  BY <1>2, <1>3, CallsOfShortened
<1>5. Calls' = CallsOf(items, head)
  BY <1>1, <1>2 DEF Calls, CallsOf
<1> QED
  BY <1>2, <1>4, <1>5 DEF Calls

\* The slots up to head are allocated and hold calls (callstack.c).
THEOREM StackTypeCorrect == StackSpec => []StackTypeOK
  BY StackInvInit, StackInvStep, StackInvType, PTL DEF StackSpec

\* The array of callstack.c, as _call_enter and _call_leave use it, implements
\* a stack that keeps the time of every call in progress: what CallStats takes
\* for granted.
THEOREM StackRefined == StackSpec => IsStack
<1>1. StackInit => Abstract!Init
  BY DEF StackInit, Abstract!Init
<1>2. StackInv /\ [StackNext]_stackVars => [Abstract!Next]_Calls
  <2> SUFFICES ASSUME StackInv, [StackNext]_stackVars PROVE [Abstract!Next]_Calls
    OBVIOUS
  <2>1. ASSUME NEW k \in CKey, NEW t \in Time, Enter(k, t) PROVE Abstract!Next
    BY <2>1, EnterPushes DEF Abstract!Next, Abstract!Push, Calls, CallsOf
  <2>2. CASE LeaveLast \/ LeaveToCaller
    BY <2>2, LeavePops DEF Abstract!Next, Abstract!Pop, Calls, CallsOf
  <2>3. CASE UNCHANGED stackVars
    BY <2>3 DEF stackVars, Calls, CallsOf
  <2> QED
    BY <2>1, <2>2, <2>3 DEF StackNext
<1> QED
  BY <1>1, <1>2, StackInvInit, StackInvStep, PTL
  DEF StackSpec, IsStack, Abstract!Spec, Calls, CallsOf

-----------------------------------------------------------------------------
(* The pool. *)

\* The numbers of a pool.
Shape ==
    /\ flsize \in Nat /\ flsize > 0
    /\ flhead \in Int /\ flhead >= -1 /\ flhead < flsize
    /\ allocated = flsize

\* Every slot of the array holds a chunk, and one of its own.
OwnChunks ==
    /\ flitems \in [0..(flsize - 1) -> 0..(flsize - 1)]
    /\ \A i, j \in 0..(flsize - 1) : flitems[i] = flitems[j] => i = j

\* All chunks are in the array.
AllChunks == \A c \in 0..(flsize - 1) : \E i \in 0..(flsize - 1) : flitems[i] = c

\* The chunks above the head are those that have an owner.
OwnedAbove == \A c : c \in owned <=> \E i \in (flhead + 1)..(flsize - 1) : flitems[i] = c

PoolInv == Shape /\ OwnChunks /\ AllChunks /\ OwnedAbove

\* A pool as flcreate makes it.
LEMMA PoolInvInit == PoolInit => PoolInv
<1> SUFFICES ASSUME PoolInit PROVE PoolInv
  OBVIOUS
<1>1. Shape
  BY PoolAssumption DEF PoolInit, Shape
<1>2. OwnChunks
  BY PoolAssumption DEF PoolInit, OwnChunks
<1>3. AllChunks
  BY PoolAssumption DEF PoolInit, AllChunks
<1>4. OwnedAbove
  BY PoolAssumption DEF PoolInit, OwnedAbove
<1> QED
  BY <1>1, <1>2, <1>3, <1>4 DEF PoolInv

\* flget from a pool with a free chunk: the chunk at the head gets an owner.
LEMMA TakeKeepsPoolInv == PoolInv /\ Take => PoolInv'
<1> SUFFICES ASSUME PoolInv, Take PROVE PoolInv'
  OBVIOUS
<1>1. Shape'
  BY DEF PoolInv, Shape, Take
<1>2. OwnChunks' /\ AllChunks'
  BY DEF PoolInv, OwnChunks, AllChunks, Take
<1>3. OwnedAbove'
  BY DEF PoolInv, Shape, OwnedAbove, Take
<1> QED
  BY <1>1, <1>2, <1>3 DEF PoolInv

\* The pool grows: fresh chunks are numbered above the old ones.
LEMMA DoubledItems ==
    ASSUME Shape
    PROVE  \A i \in 0..(2 * flsize - 1) :
             Doubled[i] = IF i < flsize THEN flsize + i ELSE flitems[i - flsize]
  BY DEF Doubled, Fresh, Shape

\* Every chunk of the array that has grown has a slot of its own.
LEMMA DoubledOwnChunks ==
    ASSUME Shape, OwnChunks
    PROVE  /\ Doubled \in [0..(2 * flsize - 1) -> 0..(2 * flsize - 1)]
           /\ \A i, j \in 0..(2 * flsize - 1) : Doubled[i] = Doubled[j] => i = j
<1>1. ASSUME NEW i \in 0..(2 * flsize - 1), i >= flsize
      PROVE  /\ i - flsize \in 0..(flsize - 1)
             /\ Doubled[i] = flitems[i - flsize]
             /\ Doubled[i] \in 0..(flsize - 1)
  BY <1>1, DoubledItems DEF Shape, OwnChunks
<1>2. ASSUME NEW i \in 0..(2 * flsize - 1), i < flsize
      PROVE  Doubled[i] = flsize + i
  BY <1>2, DoubledItems
<1>3. ASSUME NEW i \in 0..(2 * flsize - 1)
      PROVE  Doubled[i] \in 0..(2 * flsize - 1)
  BY <1>1, <1>2 DEF Shape
<1>4. ASSUME NEW i \in 0..(2 * flsize - 1), NEW j \in 0..(2 * flsize - 1),
             Doubled[i] = Doubled[j]
      PROVE  i = j
  <2>1. CASE i < flsize /\ j < flsize
    BY <1>2, <1>4, <2>1 DEF Shape
  <2>2. CASE i >= flsize /\ j >= flsize
    <3>1. i - flsize = j - flsize
      BY <1>1, <1>4, <2>2 DEF OwnChunks
    <3> QED
      BY <3>1 DEF Shape
  <2>3. CASE (i < flsize /\ j >= flsize) \/ (i >= flsize /\ j < flsize)
    BY <1>1, <1>2, <1>4, <2>3 DEF Shape
  <2> QED
    BY <2>1, <2>2, <2>3 DEF Shape
<1>5. Doubled \in [0..(2 * flsize - 1) -> 0..(2 * flsize - 1)]
  BY <1>3 DEF Doubled
<1> QED
  BY <1>4, <1>5

\* Every chunk, old or fresh, is in the array that has grown.
LEMMA DoubledAllChunks ==
    ASSUME Shape, AllChunks, NEW c \in 0..(2 * flsize - 1)
    PROVE  \E i \in 0..(2 * flsize - 1) : Doubled[i] = c
<1>1. CASE c >= flsize
  <2>1. c - flsize \in 0..(2 * flsize - 1) /\ c - flsize < flsize
        /\ flsize + (c - flsize) = c
    BY <1>1 DEF Shape
  <2> QED
    BY <2>1, DoubledItems
<1>2. CASE c < flsize
  <2>1. PICK i \in 0..(flsize - 1) : flitems[i] = c
    BY <1>2 DEF Shape, AllChunks
  <2>2. i + flsize \in 0..(2 * flsize - 1) /\ ~(i + flsize < flsize)
        /\ (i + flsize) - flsize = i
    BY DEF Shape
  <2> QED
    BY <2>1, <2>2, DoubledItems
<1> QED
  BY <1>1, <1>2 DEF Shape

\* flget from an empty pool: every old chunk had an owner, and the chunk handed
\* out is a fresh one.
LEMMA GrowKeepsPoolInv == PoolInv /\ GrowAndTake => PoolInv'
<1> SUFFICES ASSUME PoolInv, GrowAndTake PROVE PoolInv'
  OBVIOUS
<1>1. flitems' = Doubled /\ flsize' = 2 * flsize /\ allocated' = 2 * flsize
      /\ flhead' = flsize - 2 /\ flhead = -1
  BY DEF PoolInv, Shape, GrowAndTake
<1>2. Shape'
  BY <1>1 DEF PoolInv, Shape
<1>3. OwnChunks'
  BY <1>1, DoubledOwnChunks DEF PoolInv, OwnChunks
<1>4. AllChunks'
  BY <1>1, DoubledAllChunks DEF PoolInv, AllChunks
<1>5. OwnedAbove'
  <2>1. owned' = owned \cup {Doubled[flsize - 1]}
    BY <1>1 DEF GrowAndTake
  <2>2. ASSUME NEW i \in (flsize - 1)..(2 * flsize - 1) PROVE Doubled[i] \in owned'
    <3>1. CASE i = flsize - 1
      BY <2>1, <3>1
    <3>2. CASE i >= flsize
      <4>1. i - flsize \in 0..(flsize - 1) /\ i \in 0..(2 * flsize - 1) /\ ~(i < flsize)
        BY <3>2 DEF PoolInv, Shape
      <4>2. Doubled[i] = flitems[i - flsize]
        BY <4>1, DoubledItems DEF PoolInv
      <4> QED
        BY <1>1, <2>1, <4>1, <4>2 DEF PoolInv, OwnedAbove
    <3> QED
      BY <3>1, <3>2 DEF PoolInv, Shape
  <2>3. ASSUME NEW c \in owned'
        PROVE  \E i \in (flsize - 1)..(2 * flsize - 1) : Doubled[i] = c
    <3>1. CASE c = Doubled[flsize - 1]
      BY <3>1 DEF PoolInv, Shape
    <3>2. CASE c \in owned
      <4>1. PICK k \in 0..(flsize - 1) : flitems[k] = c
        BY <1>1, <3>2 DEF PoolInv, OwnedAbove
      <4>2. k + flsize \in (flsize - 1)..(2 * flsize - 1)
            /\ k + flsize \in 0..(2 * flsize - 1)
            /\ ~(k + flsize < flsize) /\ (k + flsize) - flsize = k
        BY DEF PoolInv, Shape
      <4> QED
        BY <4>1, <4>2, DoubledItems DEF PoolInv
    <3> QED
      BY <2>1, <3>1, <3>2
  <2>4. flhead' + 1 = flsize - 1 /\ flsize' - 1 = 2 * flsize - 1
    BY <1>1 DEF PoolInv, Shape
  <2> QED
    BY <1>1, <2>2, <2>3, <2>4 DEF OwnedAbove
<1> QED
  BY <1>2, <1>3, <1>4, <1>5 DEF PoolInv

\* flput: the chunk above the head has no owner any more, since no other slot
\* holds it.
LEMMA GiveBackKeepsPoolInv == PoolInv /\ GiveBack => PoolInv'
<1> SUFFICES ASSUME PoolInv, GiveBack PROVE PoolInv'
  OBVIOUS
<1>1. flhead + 1 \in 0..(flsize - 1)
  BY DEF PoolInv, Shape, GiveBack
<1>2. flitems' = flitems /\ flsize' = flsize /\ flhead' = flhead + 1
      /\ allocated' = allocated
  BY <1>1 DEF PoolInv, OwnChunks, GiveBack
<1>3. owned' = owned \ {flitems[flhead + 1]}
  BY DEF GiveBack
<1>4. Shape'
  BY <1>1, <1>2 DEF PoolInv, Shape
<1>5. OwnChunks' /\ AllChunks'
  BY <1>2 DEF PoolInv, OwnChunks, AllChunks
<1>6. ASSUME NEW i \in (flhead + 2)..(flsize - 1)
      PROVE  flitems[i] # flitems[flhead + 1] /\ i \in (flhead + 1)..(flsize - 1)
  <2>1. i \in 0..(flsize - 1) /\ i # flhead + 1 /\ i \in (flhead + 1)..(flsize - 1)
    BY DEF PoolInv, Shape
  <2> QED
    BY <1>1, <2>1 DEF PoolInv, OwnChunks
<1>7. ASSUME NEW i \in (flhead + 1)..(flsize - 1), i # flhead + 1
      PROVE  i \in (flhead + 2)..(flsize - 1)
  BY <1>7 DEF PoolInv, Shape
<1>8. flhead' + 1 = flhead + 2
  BY <1>2 DEF PoolInv, Shape
<1>9. OwnedAbove'
  BY <1>2, <1>3, <1>6, <1>7, <1>8 DEF PoolInv, OwnedAbove
<1> QED
  BY <1>4, <1>5, <1>9 DEF PoolInv

LEMMA PoolInvStep == PoolInv /\ [PoolNext]_poolVars => PoolInv'
<1> SUFFICES ASSUME PoolInv, [PoolNext]_poolVars PROVE PoolInv'
  OBVIOUS
<1>1. CASE Take
  BY <1>1, TakeKeepsPoolInv
<1>2. CASE GrowAndTake
  BY <1>2, GrowKeepsPoolInv
<1>3. CASE GiveBack
  BY <1>3, GiveBackKeepsPoolInv
<1>4. CASE UNCHANGED poolVars
  <2> USE <1>4 DEF poolVars, PoolInv
  <2>1. Shape'
    BY DEF Shape
  <2>2. OwnChunks' /\ AllChunks'
    BY DEF OwnChunks, AllChunks
  <2>3. OwnedAbove'
    BY DEF OwnedAbove
  <2> QED
    BY <2>1, <2>2, <2>3
<1> QED
  BY <1>1, <1>2, <1>3, <1>4 DEF PoolNext

\* Whatever the size of the pool and however often it grows, flget hands out
\* chunks that nobody has (freelist.c: flget, _flgrow, flput).
THEOREM ChunksHaveOneOwner == PoolSpec => []FreeChunksUnowned
<1>1. PoolInv => FreeChunksUnowned
  <2> SUFFICES ASSUME PoolInv PROVE FreeChunksUnowned
    OBVIOUS
  <2>1. ASSUME NEW i \in 0..flhead PROVE i \in 0..(flsize - 1)
    BY DEF PoolInv, Shape
  <2>2. ASSUME NEW i \in 0..flhead PROVE flitems[i] \notin owned
    <3>1. ASSUME NEW j \in (flhead + 1)..(flsize - 1) PROVE flitems[j] # flitems[i]
      <4>1. j \in 0..(flsize - 1) /\ i # j
        BY DEF PoolInv, Shape
      <4> QED
        BY <2>1, <4>1 DEF PoolInv, OwnChunks
    <3> QED
      BY <3>1 DEF PoolInv, OwnedAbove
  <2> QED
    BY <2>1, <2>2 DEF PoolInv, OwnChunks, FreeChunksUnowned
<1> QED
  BY <1>1, PoolInvInit, PoolInvStep, PTL DEF PoolSpec

\* fldestroy frees every chunk once, also those that are still in use.
THEOREM PoolIsFreedOnce == PoolSpec => []DestroyFreesAll
<1>1. PoolInv => DestroyFreesAll
  <2> SUFFICES ASSUME PoolInv PROVE DestroyFreesAll
    OBVIOUS
  <2>1. allocated = flsize
    BY DEF PoolInv, Shape
  <2>2. ASSUME NEW i \in 0..(flsize - 1) PROVE flitems[i] \in 0..(flsize - 1)
    BY DEF PoolInv, OwnChunks
  <2>3. \A c \in 0..(flsize - 1) : \E i \in 0..(flsize - 1) : flitems[i] = c
    BY DEF PoolInv, AllChunks
  <2>4. {flitems[i] : i \in 0..(flsize - 1)} = 0..(flsize - 1)
    BY <2>2, <2>3
  <2>5. \A i, j \in 0..(flsize - 1) : flitems[i] = flitems[j] => i = j
    BY DEF PoolInv, OwnChunks
  <2> QED
    BY <2>1, <2>4, <2>5 DEF DestroyFreesAll
<1> QED
  BY <1>1, PoolInvInit, PoolInvStep, PTL DEF PoolSpec

-----------------------------------------------------------------------------
(* The hash table.  hfree leaves the key in the item it marks, so an item   *)
(* that is free may have the key of one in use.  But hadd recycles the free *)
(* item that was linked first: the one in use was linked before the others  *)
(* of its key, and _hgrow, which walks from the last, moves it after them.  *)

\* Of the items of a key that is in use the one in use was linked first.
Tidy(b) ==
    \A i, j \in DOMAIN b :
        i # j /\ b[i].key = b[j].key /\ ~b[j].free => b[i].free /\ i > j

LEMMA LeastNat ==
    ASSUME NEW T \in SUBSET Nat, T # {}
    PROVE  \E x \in T : \A y \in T : x <= y
<1>1. IsWellFoundedOn(OpToRel(<, Nat), Nat)
  BY NatLessThanWellFounded
<1>2. \E x \in T : \A y \in T : ~ (<<y, x>> \in OpToRel(<, Nat))
  BY <1>1, WFMin
<1>3. PICK x \in T : \A y \in T : ~ (<<y, x>> \in OpToRel(<, Nat))
  BY <1>2
<1>4. ASSUME NEW y \in T PROVE x <= y
  <2>1. ~ (<<y, x>> \in OpToRel(<, Nat))
    BY <1>3
  <2>2. ~ (y < x)
    BY <2>1 DEF OpToRel
  <2> QED BY <2>2
<1> QED BY <1>4

\* hadd recycles the free item that was linked before all others.
LEMMA RecycledIsOldest ==
    ASSUME NEW b \in Seq(Item), Recyclable(b) # {}
    PROVE  /\ Recycled(b) \in DOMAIN b /\ b[Recycled(b)].free
           /\ \A j \in DOMAIN b : b[j].free => Recycled(b) <= j
<1>1. Recyclable(b) \in SUBSET Nat
  BY DEF Recyclable
<1>2. \E x \in Recyclable(b) : \A y \in Recyclable(b) : x <= y
  BY <1>1, LeastNat
<1>3. /\ Recycled(b) \in Recyclable(b)
      /\ \A y \in Recyclable(b) : Recycled(b) <= y
  BY <1>2 DEF Recycled
<1> QED
  BY <1>3 DEF Recyclable

\* What hadd does to a bucket: item is at r now, which was free or is new.
StoredAt(b, c, r, item) ==
    /\ c \in Seq(Item)
    /\ r \in DOMAIN c /\ c[r] = item
    /\ DOMAIN b \subseteq DOMAIN c /\ DOMAIN c = DOMAIN b \cup {r}
    /\ \A i \in DOMAIN b : i # r => c[i] = b[i]
    /\ r \in DOMAIN b => b[r].free
    /\ \A j \in DOMAIN b : b[j].free => r <= j

Place(b) == IF Recyclable(b) # {} THEN Recycled(b) ELSE Len(b) + 1

\* Storing an item does that, at the free item that is oldest or at the front.
LEMMA StoredPlace ==
    ASSUME NEW b \in Seq(Item), NEW item \in Item
    PROVE  /\ StoredAt(b, Stored(b, item), Place(b), item)
           /\ Recyclable(b) # {} <=> Place(b) \in DOMAIN b
<1> DEFINE c == Stored(b, item)
           r == Place(b)
<1>1. CASE Recyclable(b) # {}
  <2>1. c = [b EXCEPT ![r] = item] /\ r = Recycled(b)
    BY <1>1 DEF Stored, Place
  <2>2. r \in DOMAIN b /\ b[r].free /\ \A j \in DOMAIN b : b[j].free => r <= j
    BY <1>1, <2>1, RecycledIsOldest
  <2>3. c \in Seq(Item) /\ Len(c) = Len(b)
    BY <2>1, <2>2, ExceptSeq
  <2>4. \A i \in DOMAIN b : c[i] = IF i = r THEN item ELSE b[i]
    BY <2>1
  <2>5. DOMAIN c = DOMAIN b
    BY <2>1
  <2> QED BY <1>1, <2>2, <2>3, <2>4, <2>5 DEF StoredAt
<1>2. CASE Recyclable(b) = {}
  <2>1. c = Append(b, item) /\ r = Len(b) + 1
    BY <1>2 DEF Stored, Place
  <2>2. c \in Seq(Item) /\ Len(c) = Len(b) + 1 /\ c[r] = item
        /\ \A i \in 1..Len(b) : c[i] = b[i]
    BY <2>1, AppendProperties
  <2>3. DOMAIN b = 1..Len(b) /\ Len(b) \in Nat /\ DOMAIN c = 1..(Len(b) + 1)
    BY <2>2, LenProperties
  <2>4. \A j \in DOMAIN b : ~b[j].free
    BY <1>2 DEF Recyclable
  <2>5. r \in DOMAIN c /\ r \notin DOMAIN b /\ DOMAIN c = DOMAIN b \cup {r}
        /\ DOMAIN b \subseteq DOMAIN c
    BY <2>1, <2>3
  <2> QED BY <1>2, <2>2, <2>3, <2>4, <2>5 DEF StoredAt
<1> QED BY <1>1, <1>2

\* A key that is absent can be stored in a tidy bucket.
LEMMA StoredTidy ==
    ASSUME NEW b \in Seq(Item), NEW c, NEW r, NEW item \in Item, ~item.free,
           Tidy(b), Holding(b, item.key) = {}, StoredAt(b, c, r, item)
    PROVE  Tidy(c)
<1> SUFFICES ASSUME NEW i \in DOMAIN c, NEW j \in DOMAIN c, i # j,
                    c[i].key = c[j].key, ~c[j].free
             PROVE  c[i].free /\ i > j
  BY DEF Tidy
<1>1. \A x \in DOMAIN b : b[x].key = item.key => b[x].free
  BY DEF Holding
<1>2. CASE j = r
  <2>1. i \in DOMAIN b /\ c[i] = b[i] /\ c[j] = item
    BY <1>2 DEF StoredAt
  <2>2. b[i].free
    BY <1>1, <2>1
  <2>3. r <= i /\ i \in Nat /\ r \in Nat
    BY <2>1, <2>2 DEF StoredAt
  <2> QED BY <1>2, <2>1, <2>2, <2>3
<1>3. CASE j # r
  <2>1. j \in DOMAIN b /\ c[j] = b[j]
    BY <1>3 DEF StoredAt
  <2>2. i # r
    BY <1>1, <2>1 DEF StoredAt
  <2>3. i \in DOMAIN b /\ c[i] = b[i]
    BY <2>2 DEF StoredAt
  <2> QED BY <2>1, <2>3 DEF Tidy
<1> QED BY <1>2, <1>3

\* hfind finds the item that was stored, and every other as before.
LEMMA StoredHolds ==
    ASSUME NEW b \in Seq(Item), NEW c, NEW r, NEW item \in Item, ~item.free,
           Holding(b, item.key) = {}, StoredAt(b, c, r, item), NEW k
    PROVE  /\ Holding(c, k) = IF k = item.key THEN {r} ELSE Holding(b, k)
           /\ k # item.key => \A i \in Holding(b, k) : c[i] = b[i]
<1>1. \A x \in DOMAIN b : b[x].key = item.key => b[x].free
  BY DEF Holding
<1>2. \A i \in Holding(b, k) : i # r /\ i \in DOMAIN b
  BY DEF Holding, StoredAt
<1>3. \A i \in Holding(b, k) : c[i] = b[i]
  BY <1>2 DEF StoredAt
<1>4. ASSUME k # item.key, NEW i PROVE i \in Holding(c, k) <=> i \in Holding(b, k)
  <2>1. i \in Holding(c, k) => i \in Holding(b, k)
    BY <1>4 DEF Holding, StoredAt
  <2>2. i \in Holding(b, k) => i \in Holding(c, k)
    BY <1>2, <1>3 DEF Holding, StoredAt
  <2> QED BY <2>1, <2>2
<1>5. ASSUME k = item.key, NEW i PROVE i \in Holding(c, k) <=> i = r
  <2>1. i \in Holding(c, k) => i = r
    BY <1>1, <1>5 DEF Holding, StoredAt
  <2>2. r \in Holding(c, k)
    BY <1>5 DEF Holding, StoredAt
  <2> QED BY <2>1, <2>2
<1> QED BY <1>3, <1>4, <1>5

\* hfree, or _hgrow for an item that was free, marks the item at i.
FreedAt(b, c, i) ==
    /\ c \in Seq(Item) /\ DOMAIN c = DOMAIN b
    /\ i \in DOMAIN b
    /\ c[i].key = b[i].key /\ c[i].free
    /\ \A x \in DOMAIN b : x # i => c[x] = b[x]

LEMMA FreedTidy ==
    ASSUME NEW b, NEW c, NEW i, Tidy(b), FreedAt(b, c, i)
    PROVE  Tidy(c)
  BY DEF Tidy, FreedAt

LEMMA FreedHolds ==
    ASSUME NEW b, NEW c, NEW i, FreedAt(b, c, i), NEW k
    PROVE  /\ Holding(c, k) = Holding(b, k) \ {i}
           /\ \A x \in Holding(c, k) : c[x] = b[x]
  BY DEF Holding, FreedAt

\* A tidy bucket has one item in use of a key at most.
LEMMA TidyHolds ==
    ASSUME NEW b, Tidy(b), NEW k, NEW i \in Holding(b, k)
    PROVE  Holding(b, k) = {i}
  BY DEF Tidy, Holding

-----------------------------------------------------------------------------
(* A table *)

\* A table is a record, and its buckets a function.
Shaped(t) ==
    /\ TableOK(t)
    /\ t.bucket = [h \in 0..(t.realsize - 1) |-> t.bucket[h]]
    /\ t = [realsize |-> t.realsize, count |-> t.count,
            freecount |-> t.freecount, bucket |-> t.bucket]

Hashes == [Key -> 0..MaxHash]
Home(H, t, k) == H[k] % t.realsize

LEMMA HomeInTable ==
    ASSUME NEW H \in Hashes, NEW t, TableOK(t), NEW k \in Key
    PROVE  /\ Home(H, t, k) \in DOMAIN t.bucket
           /\ t.bucket[Home(H, t, k)] \in Seq(Item)
<1>1. \A a \in Nat, n \in Nat \ {0} : a % n \in 0..(n - 1)
  OBVIOUS
<1>2. H[k] \in Nat /\ t.realsize \in Nat \ {0}
  BY HashAssumption DEF Hashes, TableOK
<1>3. Home(H, t, k) \in 0..(t.realsize - 1)
  BY <1>1, <1>2 DEF Home
<1> QED
  BY <1>3 DEF TableOK

\* u is t, whose bucket s has become c.
Rebucketed(t, u, s, c) ==
    /\ u.realsize = t.realsize
    /\ s \in DOMAIN t.bucket
    /\ u.bucket = [h \in 0..(t.realsize - 1) |-> IF h = s THEN c ELSE t.bucket[h]]

\* Put changes one bucket and counts what it added.
LEMMA PutShaped ==
    ASSUME hash \in Hashes, NEW t, Shaped(t), NEW k \in Key, NEW v \in Val
    PROVE  LET u == Put(t, k, v)
               s == Slot(t, k)
               b == t.bucket[s]
           IN  /\ Shaped(u)
               /\ Rebucketed(t, u, s, u.bucket[s])
               /\ StoredAt(b, u.bucket[s], Place(b), Used(k, v))
               /\ u.count - u.freecount = t.count - t.freecount + 1
               /\ u.count = IF Place(b) \in DOMAIN b THEN t.count ELSE t.count + 1
<1> DEFINE u == Put(t, k, v)
           s == Slot(t, k)
           b == t.bucket[s]
           c == Stored(b, Used(k, v))
           new == IF Recyclable(b) = {} THEN 1 ELSE 0
<1>1. s \in DOMAIN t.bucket /\ b \in Seq(Item)
  BY HomeInTable DEF Shaped, Slot, Home
<1>2. Used(k, v) \in Item
  BY DEF Used, Item
<1>3. /\ StoredAt(b, c, Place(b), Used(k, v))
      /\ Recyclable(b) # {} <=> Place(b) \in DOMAIN b
  BY <1>1, <1>2, StoredPlace
<1>4. c \in Seq(Item)
  BY <1>3 DEF StoredAt
<1>5. u = [realsize |-> t.realsize, count |-> t.count + new,
           freecount |-> t.freecount - (1 - new),
           bucket |-> [t.bucket EXCEPT ![s] = c]]
  <2>1. u = [t EXCEPT !.bucket[s] = c, !.count = @ + new, !.freecount = @ - (1 - new)]
    BY DEF Put
  <2> HIDE DEF u, s, b, c, new
  <2> QED BY <2>1 DEF Shaped
<1>6. t.count \in Nat /\ t.freecount \in Int /\ new \in 0..1
  BY DEF Shaped, TableOK
<1>7. u.bucket = [h \in 0..(t.realsize - 1) |-> IF h = s THEN c ELSE t.bucket[h]]
  <2> HIDE DEF u, s, b, c, new
  <2> QED BY <1>1, <1>5 DEF Shaped
<1>8. Shaped(u)
  <2> HIDE DEF u, s, b, c, new
  <2>1. TableOK(u)
    <3>1. u.realsize = t.realsize /\ u.count = t.count + new
          /\ u.freecount = t.freecount - (1 - new)
      BY <1>5
    <3>2. DOMAIN u.bucket = 0..(t.realsize - 1)
      BY <1>7
    <3>3. \A h \in 0..(t.realsize - 1) : u.bucket[h] \in Seq(Item)
      BY <1>4, <1>7 DEF Shaped, TableOK
    <3>4. t.realsize \in Nat \ {0}
      BY DEF Shaped, TableOK
    <3>5. u.count \in Nat /\ u.freecount \in Int
      BY <1>6, <3>1
    <3> QED BY <3>1, <3>2, <3>3, <3>4, <3>5 DEF TableOK
  <2>2. u.bucket = [h \in 0..(u.realsize - 1) |-> u.bucket[h]]
    BY <1>5, <1>7
  <2>3. u = [realsize |-> u.realsize, count |-> u.count,
             freecount |-> u.freecount, bucket |-> u.bucket]
    BY <1>5
  <2> QED BY <2>1, <2>2, <2>3 DEF Shaped
<1>9. u.bucket[s] = c /\ u.realsize = t.realsize
  <2> HIDE DEF u, b, c, new, s
  <2>1. DOMAIN t.bucket = 0..(t.realsize - 1)
    BY DEF Shaped, TableOK
  <2> QED BY <1>1, <1>5, <1>7, <2>1
<1>10. Rebucketed(t, u, s, u.bucket[s])
  <2> HIDE DEF u, b, c, new, s
  <2> QED BY <1>1, <1>7, <1>9 DEF Rebucketed
<1>11. u.count - u.freecount = t.count - t.freecount + 1
  <2> HIDE DEF u, b, c, new, s
  <2> QED BY <1>5, <1>6
<1>12. u.count = IF Place(b) \in DOMAIN b THEN t.count ELSE t.count + 1
  <2>1. new = IF Place(b) \in DOMAIN b THEN 0 ELSE 1
    BY <1>3
  <2> HIDE DEF u, b, c, new, s
  <2> QED BY <1>5, <1>6, <2>1
<1> QED
  BY <1>3, <1>8, <1>9, <1>10, <1>11, <1>12

LEMMA PlacesOf ==
    ASSUME NEW t, NEW h, NEW i
    PROVE  <<h, i>> \in Places(t) <=> h \in DOMAIN t.bucket /\ i \in DOMAIN t.bucket[h]
<1>1. ASSUME <<h, i>> \in Places(t)
      PROVE  h \in DOMAIN t.bucket /\ i \in DOMAIN t.bucket[h]
  <2>1. PICK g \in DOMAIN t.bucket : <<h, i>> \in {<<g, x>> : x \in DOMAIN t.bucket[g]}
    BY <1>1 DEF Places
  <2>2. PICK x \in DOMAIN t.bucket[g] : <<h, i>> = <<g, x>>
    BY <2>1
  <2> QED BY <2>2
<1>2. ASSUME h \in DOMAIN t.bucket, i \in DOMAIN t.bucket[h]
      PROVE  <<h, i>> \in Places(t)
  <2>1. <<h, i>> \in {<<h, x>> : x \in DOMAIN t.bucket[h]}
    BY <1>2
  <2> QED BY <1>2, <2>1 DEF Places
<1> QED BY <1>1, <1>2

LEMMA PlacesArePairs ==
    ASSUME NEW t, NEW p \in Places(t)
    PROVE  /\ p = <<p[1], p[2]>>
           /\ p[1] \in DOMAIN t.bucket /\ p[2] \in DOMAIN t.bucket[p[1]]
<1>1. PICK g \in DOMAIN t.bucket : p \in {<<g, x>> : x \in DOMAIN t.bucket[g]}
  BY DEF Places
<1>2. PICK x \in DOMAIN t.bucket[g] : p = <<g, x>>
  BY <1>1
<1> QED BY <1>2

LEMMA LiveOf ==
    ASSUME NEW t, NEW h, NEW i
    PROVE  <<h, i>> \in Live(t) <=>
             /\ h \in DOMAIN t.bucket /\ i \in DOMAIN t.bucket[h]
             /\ ~t.bucket[h][i].free
<1>1. At(t, <<h, i>>) = t.bucket[h][i]
  BY DEF At
<1> QED BY <1>1, PlacesOf DEF Live

LEMMA LiveArePlaces == \A t : Live(t) \subseteq Places(t)
  BY DEF Live

LEMMA RebucketedPlaces ==
    ASSUME NEW t, NEW u, NEW s, NEW c, NEW r, TableOK(t), Rebucketed(t, u, s, c),
           DOMAIN c = DOMAIN t.bucket[s] \cup {r}
    PROVE  /\ Places(u) = Places(t) \cup {<<s, r>>}
           /\ <<s, r>> \in Places(t) <=> r \in DOMAIN t.bucket[s]
<1>1. DOMAIN u.bucket = DOMAIN t.bucket /\ s \in DOMAIN t.bucket
      /\ \A h \in DOMAIN t.bucket : u.bucket[h] = IF h = s THEN c ELSE t.bucket[h]
  BY DEF Rebucketed, TableOK
<1>2. \A h, i : <<h, i>> \in Places(u) <=> <<h, i>> \in Places(t) \/ <<h, i>> = <<s, r>>
  <2> TAKE h, i
  <2>1. <<h, i>> \in Places(u) <=> h \in DOMAIN t.bucket /\ i \in DOMAIN u.bucket[h]
    BY <1>1, PlacesOf
  <2>2. <<h, i>> \in Places(t) <=> h \in DOMAIN t.bucket /\ i \in DOMAIN t.bucket[h]
    BY PlacesOf
  <2> QED BY <1>1, <2>1, <2>2
<1>3. ASSUME NEW p PROVE p \in Places(u) <=> p \in Places(t) \cup {<<s, r>>}
  <2>1. p \in Places(u) => p \in Places(t) \cup {<<s, r>>}
    BY <1>2, PlacesArePairs
  <2>2. p \in Places(t) => p \in Places(u)
    BY <1>2, PlacesArePairs
  <2>3. <<s, r>> \in Places(u)
    BY <1>2
  <2> QED BY <2>1, <2>2, <2>3
<1>4. <<s, r>> \in Places(t) <=> r \in DOMAIN t.bucket[s]
  BY <1>1, PlacesOf
<1> QED BY <1>3, <1>4

\* A place is in use that was not.
LEMMA StoredLive ==
    ASSUME NEW t, NEW u, NEW s, NEW c, NEW r, NEW item, ~item.free,
           TableOK(t), Rebucketed(t, u, s, c), StoredAt(t.bucket[s], c, r, item)
    PROVE  Live(u) = Live(t) \cup {<<s, r>>} /\ <<s, r>> \notin Live(t)
<1>1. DOMAIN u.bucket = DOMAIN t.bucket /\ s \in DOMAIN t.bucket
      /\ \A h \in DOMAIN t.bucket : u.bucket[h] = IF h = s THEN c ELSE t.bucket[h]
  BY DEF Rebucketed, TableOK
<1>2. \A h, i : <<h, i>> \in Live(u) <=> <<h, i>> \in Live(t) \/ <<h, i>> = <<s, r>>
  <2> TAKE h, i
  <2>1. <<h, i>> \in Live(u) <=>
          h \in DOMAIN t.bucket /\ i \in DOMAIN u.bucket[h] /\ ~u.bucket[h][i].free
    BY <1>1, LiveOf
  <2>2. <<h, i>> \in Live(t) <=>
          h \in DOMAIN t.bucket /\ i \in DOMAIN t.bucket[h] /\ ~t.bucket[h][i].free
    BY LiveOf
  <2>3. CASE h # s
    BY <1>1, <2>1, <2>2, <2>3
  <2>4. CASE h = s /\ i = r
    BY <1>1, <2>1, <2>4 DEF StoredAt
  <2>5. CASE h = s /\ i # r
    <3>1. u.bucket[h] = c
      BY <1>1, <2>5
    <3>2. i \in DOMAIN c <=> i \in DOMAIN t.bucket[s]
      BY <2>5 DEF StoredAt
    <3>3. i \in DOMAIN c => c[i] = t.bucket[s][i]
      BY <2>5, <3>2 DEF StoredAt
    <3> QED BY <1>1, <2>1, <2>2, <2>5, <3>1, <3>2, <3>3
  <2> QED BY <2>3, <2>4, <2>5
<1>3. ASSUME NEW p PROVE p \in Live(u) <=> p \in Live(t) \cup {<<s, r>>}
  <2>1. p \in Live(u) => p \in Live(t) \cup {<<s, r>>}
    BY <1>2, PlacesArePairs, LiveArePlaces
  <2>2. p \in Live(t) => p \in Live(u)
    BY <1>2, PlacesArePairs, LiveArePlaces
  <2>3. <<s, r>> \in Live(u)
    BY <1>2
  <2> QED BY <2>1, <2>2, <2>3
<1>4. <<s, r>> \notin Live(t)
  BY LiveOf DEF StoredAt
<1> QED BY <1>3, <1>4

\* A place is in use no more.
LEMMA FreedLive ==
    ASSUME NEW t, NEW u, NEW s, NEW c, NEW i,
           TableOK(t), Rebucketed(t, u, s, c), FreedAt(t.bucket[s], c, i)
    PROVE  /\ Places(u) = Places(t)
           /\ Live(u) = Live(t) \ {<<s, i>>}
<1>1. DOMAIN u.bucket = DOMAIN t.bucket /\ s \in DOMAIN t.bucket
      /\ \A h \in DOMAIN t.bucket : u.bucket[h] = IF h = s THEN c ELSE t.bucket[h]
  BY DEF Rebucketed, TableOK
<1>2. Places(u) = Places(t)
  <2>1. DOMAIN c = DOMAIN t.bucket[s] \cup {i} /\ i \in DOMAIN t.bucket[s]
    BY DEF FreedAt
  <2>2. /\ Places(u) = Places(t) \cup {<<s, i>>}
        /\ <<s, i>> \in Places(t) <=> i \in DOMAIN t.bucket[s]
    BY <2>1, RebucketedPlaces
  <2> QED BY <2>1, <2>2
<1>3. \A h, x : <<h, x>> \in Live(u) <=> <<h, x>> \in Live(t) /\ <<h, x>> # <<s, i>>
  <2> TAKE h, x
  <2>1. <<h, x>> \in Live(u) <=>
          h \in DOMAIN t.bucket /\ x \in DOMAIN u.bucket[h] /\ ~u.bucket[h][x].free
    BY <1>1, LiveOf
  <2>2. <<h, x>> \in Live(t) <=>
          h \in DOMAIN t.bucket /\ x \in DOMAIN t.bucket[h] /\ ~t.bucket[h][x].free
    BY LiveOf
  <2> QED BY <1>1, <2>1, <2>2 DEF FreedAt
<1>4. ASSUME NEW p PROVE p \in Live(u) <=> p \in Live(t) /\ p # <<s, i>>
  <2>1. p \in Live(u) => p \in Live(t) /\ p # <<s, i>>
    BY <1>3, PlacesArePairs, LiveArePlaces
  <2>2. p \in Live(t) /\ p # <<s, i>> => p \in Live(u)
    BY <1>3, PlacesArePairs, LiveArePlaces
  <2> QED BY <2>1, <2>2
<1> QED BY <1>2, <1>4

-----------------------------------------------------------------------------

\* Every item stands in the bucket of its key, and the buckets are tidy.
Good(H, t) ==
    /\ Shaped(t)
    /\ IsFiniteSet(Places(t))
    /\ \A h \in DOMAIN t.bucket :
         /\ Tidy(t.bucket[h])
         /\ \A i \in DOMAIN t.bucket[h] : Home(H, t, t.bucket[h][i].key) = h

Entry(item) == <<item.key, item.val>>

\* What hfind finds.
Has(H, t, k, v) ==
    \E i \in Holding(t.bucket[Home(H, t, k)], k) : t.bucket[Home(H, t, k)][i].val = v

Entries(H, t) == {e \in Key \X Val : Has(H, t, e[1], e[2])}

\* hcount, and that items are counted at least as often as they are there.
Counted(t) ==
    /\ t.count - t.freecount = Cardinality(Live(t))
    /\ t.count >= Cardinality(Places(t))

LEMMA EntriesOf ==
    ASSUME NEW H, NEW t, NEW k, NEW v
    PROVE  <<k, v>> \in Entries(H, t) <=> k \in Key /\ v \in Val /\ Has(H, t, k, v)
  BY DEF Entries

LEMMA EntriesEqual ==
    ASSUME NEW S, NEW T, S \subseteq Key \X Val, T \subseteq Key \X Val,
           \A k \in Key, v \in Val : <<k, v>> \in S <=> <<k, v>> \in T
    PROVE  S = T
  OBVIOUS

\* hadd of a key that is absent.
LEMMA PutGood ==
    ASSUME hash \in Hashes, NEW t, Good(hash, t), NEW k \in Key, NEW v \in Val,
           Find(t, k) = {}
    PROVE  LET u == Put(t, k, v)
           IN  /\ Good(hash, u)
               /\ Entries(hash, u) = Entries(hash, t) \cup {<<k, v>>}
               /\ Cardinality(Places(u)) <= Cardinality(Places(t)) + 1
               /\ Counted(t) => Counted(u)
<1> DEFINE s == Slot(t, k)
           b == t.bucket[s]
           r == Place(b)
           item == Used(k, v)
<1>1. PICK u : u = Put(t, k, v)
  OBVIOUS
<1>2. PICK c : c = u.bucket[s]
  OBVIOUS
<1>3. /\ Shaped(u) /\ Shaped(t)
      /\ Rebucketed(t, u, s, c)
      /\ StoredAt(b, c, r, item)
      /\ u.count - u.freecount = t.count - t.freecount + 1
      /\ u.count = IF r \in DOMAIN b THEN t.count ELSE t.count + 1
  BY <1>1, <1>2, PutShaped DEF Good
<1>4. /\ item \in Item /\ ~item.free /\ item.key = k /\ item.val = v
  BY DEF Used, Item
<1>5. s \in DOMAIN t.bucket /\ b \in Seq(Item) /\ s = Home(hash, t, k)
  BY <1>3, HomeInTable DEF Shaped, Slot, Home
<1>6. Holding(b, k) = {} /\ Tidy(b)
  BY <1>5 DEF Find, Good
<1> HIDE DEF s, b, r, item
<1>7. /\ DOMAIN u.bucket = DOMAIN t.bucket
      /\ \A h \in DOMAIN t.bucket : u.bucket[h] = IF h = s THEN c ELSE t.bucket[h]
      /\ u.realsize = t.realsize
      /\ \A x : Home(hash, u, x) = Home(hash, t, x)
  BY <1>3 DEF Rebucketed, Shaped, TableOK, Home
<1>8. Tidy(c)
  BY <1>3, <1>4, <1>5, <1>6, StoredTidy
<1>9. ASSUME NEW h \in DOMAIN u.bucket
      PROVE  /\ Tidy(u.bucket[h])
             /\ \A i \in DOMAIN u.bucket[h] : Home(hash, u, u.bucket[h][i].key) = h
  <2>1. CASE h # s
    BY <1>7, <2>1 DEF Good
  <2>2. CASE h = s
    <3>1. u.bucket[h] = c
      BY <1>7, <2>2
    <3>2. ASSUME NEW i \in DOMAIN c PROVE Home(hash, t, c[i].key) = s
      <4>1. CASE i = r
        BY <1>3, <1>4, <1>5, <4>1 DEF StoredAt
      <4>2. CASE i # r
        <5>1. i \in DOMAIN b /\ c[i] = b[i]
          BY <1>3, <4>2 DEF StoredAt
        <5> QED BY <1>5, <5>1 DEF Good, b
      <4> QED BY <4>1, <4>2
    <3> QED BY <1>7, <1>8, <2>2, <3>1, <3>2
  <2> QED BY <2>1, <2>2
<1>10. /\ Places(u) = Places(t) \cup {<<s, r>>}
       /\ <<s, r>> \in Places(t) <=> r \in DOMAIN b
  <2>1. DOMAIN c = DOMAIN t.bucket[s] \cup {r}
    BY <1>3 DEF StoredAt, b
  <2>2. TableOK(t)
    BY <1>3 DEF Shaped
  <2> QED BY <1>3, <2>1, <2>2, RebucketedPlaces DEF b
<1>11. Live(u) = Live(t) \cup {<<s, r>>} /\ <<s, r>> \notin Live(t)
  <2>1. TableOK(t)
    BY <1>3 DEF Shaped
  <2> QED BY <1>3, <1>4, <2>1, StoredLive DEF b
<1>12. /\ IsFiniteSet(Places(u)) /\ Cardinality(Places(t)) \in Nat
       /\ Cardinality(Places(u)) = IF r \in DOMAIN b THEN Cardinality(Places(t))
                                   ELSE Cardinality(Places(t)) + 1
  <2>1. IsFiniteSet(Places(t))
    BY DEF Good
  <2> QED BY <1>10, <2>1, FS_AddElement, FS_CardinalityType
<1>13. Cardinality(Live(u)) = Cardinality(Live(t)) + 1
  <2>1. IsFiniteSet(Live(t))
    BY LiveArePlaces, FS_Subset DEF Good
  <2> QED BY <1>11, <2>1, FS_AddElement
<1>14. ASSUME Counted(t) PROVE Counted(u)
  <2>1. t.count \in Nat /\ t.freecount \in Int /\ u.count \in Nat /\ u.freecount \in Int
    BY <1>3 DEF Shaped, TableOK
  <2>2. u.count - u.freecount = Cardinality(Live(u))
    BY <1>3, <1>13, <1>14 DEF Counted
  <2>3. u.count >= Cardinality(Places(u))
    BY <1>3, <1>12, <1>14, <2>1 DEF Counted
  <2> QED BY <2>2, <2>3 DEF Counted
<1>15. Entries(hash, u) = Entries(hash, t) \cup {<<k, v>>}
  <2>1. ASSUME NEW x \in Key, NEW y \in Val
        PROVE  Has(hash, u, x, y) <=> Has(hash, t, x, y) \/ (x = k /\ y = v)
    <3>1. CASE Home(hash, t, x) # s
      <4>1. u.bucket[Home(hash, u, x)] = t.bucket[Home(hash, t, x)]
        BY <1>3, <1>7, <3>1, HomeInTable DEF Shaped
      <4>2. x # k
        BY <1>5, <3>1
      <4> QED BY <1>7, <4>1, <4>2 DEF Has
    <3>2. CASE Home(hash, t, x) = s
      <4>1. u.bucket[Home(hash, u, x)] = c /\ t.bucket[Home(hash, t, x)] = b
        BY <1>5, <1>7, <3>2 DEF b
      <4>2. /\ Holding(c, x) = IF x = k THEN {r} ELSE Holding(b, x)
            /\ x # k => \A i \in Holding(b, x) : c[i] = b[i]
        BY <1>3, <1>4, <1>5, <1>6, StoredHolds
      <4>3. c[r].val = v
        BY <1>3, <1>4 DEF StoredAt
      <4>4. CASE x = k
        <5>1. ~Has(hash, t, x, y)
          BY <1>6, <4>1, <4>4 DEF Has
        <5>2. Has(hash, u, x, y) <=> y = v
          BY <4>1, <4>2, <4>3, <4>4 DEF Has
        <5> QED BY <4>4, <5>1, <5>2
      <4>5. CASE x # k
        BY <4>1, <4>2, <4>5 DEF Has
      <4> QED BY <4>4, <4>5
    <3> QED BY <3>1, <3>2
  <2>2. \A x \in Key, y \in Val :
          <<x, y>> \in Entries(hash, u) <=> <<x, y>> \in Entries(hash, t) \cup {<<k, v>>}
    BY <2>1, EntriesOf
  <2>3. Entries(hash, u) \subseteq Key \X Val
        /\ Entries(hash, t) \cup {<<k, v>>} \subseteq Key \X Val
    BY DEF Entries
  <2> QED BY <2>2, <2>3, EntriesEqual
<1>16. Good(hash, u)
  BY <1>3, <1>9, <1>12 DEF Good
<1>17. Cardinality(Places(u)) <= Cardinality(Places(t)) + 1
  BY <1>12
<1> QED
  BY <1>1, <1>14, <1>15, <1>16, <1>17

\* An item in use that is marked free is not found any more.
LEMMA FreeGood ==
    ASSUME NEW H \in Hashes, NEW t, Good(H, t), NEW u, Shaped(u), NEW c,
           NEW k \in Key, NEW i \in Holding(t.bucket[Home(H, t, k)], k),
           NEW v \in Val, t.bucket[Home(H, t, k)][i].val = v,
           Rebucketed(t, u, Home(H, t, k), c),
           FreedAt(t.bucket[Home(H, t, k)], c, i)
    PROVE  /\ Good(H, u)
           /\ Entries(H, u) = Entries(H, t) \ {<<k, v>>}
           /\ Places(u) = Places(t)
           /\ Cardinality(Live(u)) = Cardinality(Live(t)) - 1
<1>1. PICK s : s = Home(H, t, k)
  OBVIOUS
<1>2. PICK b : b = t.bucket[s]
  OBVIOUS
<1>3. /\ Shaped(t) /\ Tidy(b) /\ s \in DOMAIN t.bucket
      /\ Rebucketed(t, u, s, c) /\ FreedAt(b, c, i) /\ i \in Holding(b, k) /\ b[i].val = v
  BY <1>1, <1>2, HomeInTable DEF Good, Shaped
<1>4. /\ DOMAIN u.bucket = DOMAIN t.bucket
      /\ \A h \in DOMAIN t.bucket : u.bucket[h] = IF h = s THEN c ELSE t.bucket[h]
      /\ u.realsize = t.realsize
      /\ \A x : Home(H, u, x) = Home(H, t, x)
  BY <1>3 DEF Rebucketed, Shaped, TableOK, Home
<1>5. Tidy(c)
  BY <1>3, FreedTidy
<1>6. ASSUME NEW h \in DOMAIN u.bucket
      PROVE  /\ Tidy(u.bucket[h])
             /\ \A x \in DOMAIN u.bucket[h] : Home(H, u, u.bucket[h][x].key) = h
  <2>1. CASE h # s
    BY <1>4, <2>1 DEF Good
  <2>2. CASE h = s
    <3>1. u.bucket[h] = c
      BY <1>4, <2>2
    <3>2. \A x \in DOMAIN c : x \in DOMAIN b /\ c[x].key = b[x].key
      BY <1>3 DEF FreedAt
    <3>3. \A x \in DOMAIN b : Home(H, t, b[x].key) = s
      BY <1>2, <1>3 DEF Good
    <3> QED BY <1>4, <1>5, <2>2, <3>1, <3>2, <3>3
  <2> QED BY <2>1, <2>2
<1>7. Places(u) = Places(t) /\ Live(u) = Live(t) \ {<<s, i>>}
  <2>1. TableOK(t) /\ FreedAt(t.bucket[s], c, i)
    BY <1>2, <1>3 DEF Shaped
  <2> QED BY <1>3, <2>1, FreedLive
<1>8. <<s, i>> \in Live(t)
  BY <1>2, <1>3, LiveOf DEF Holding
<1>9. Cardinality(Live(u)) = Cardinality(Live(t)) - 1
  <2>1. IsFiniteSet(Live(t))
    BY LiveArePlaces, FS_Subset DEF Good
  <2> QED BY <1>7, <1>8, <2>1, FS_RemoveElement
<1>10. Entries(H, u) = Entries(H, t) \ {<<k, v>>}
  <2>1. ASSUME NEW x \in Key, NEW y \in Val
        PROVE  Has(H, u, x, y) <=> Has(H, t, x, y) /\ ~(x = k /\ y = v)
    <3>1. CASE Home(H, t, x) # s
      <4>1. u.bucket[Home(H, u, x)] = t.bucket[Home(H, t, x)]
        BY <1>3, <1>4, <3>1, HomeInTable DEF Shaped
      <4>2. x # k
        BY <1>1, <3>1
      <4> QED BY <1>4, <4>1, <4>2 DEF Has
    <3>2. CASE Home(H, t, x) = s
      <4>1. u.bucket[Home(H, u, x)] = c /\ t.bucket[Home(H, t, x)] = b
        BY <1>2, <1>3, <1>4, <3>2
      <4>2. /\ Holding(c, x) = Holding(b, x) \ {i}
            /\ \A j \in Holding(c, x) : c[j] = b[j]
        BY <1>3, FreedHolds
      <4>3. CASE x = k
        <5>1. Holding(b, x) = {i}
          BY <1>3, <4>3, TidyHolds
        <5>2. ~Has(H, u, x, y)
          BY <4>1, <4>2, <5>1 DEF Has
        <5>3. Has(H, t, x, y) <=> y = v
          BY <1>3, <4>1, <5>1 DEF Has
        <5> QED BY <4>3, <5>2, <5>3
      <4>4. CASE x # k
        <5>1. i \notin Holding(b, x)
          BY <1>3, <4>4 DEF Holding
        <5> QED BY <4>1, <4>2, <4>4, <5>1 DEF Has
      <4> QED BY <4>3, <4>4
    <3> QED BY <3>1, <3>2
  <2>2. \A x \in Key, y \in Val :
          <<x, y>> \in Entries(H, u) <=> <<x, y>> \in Entries(H, t) \ {<<k, v>>}
    BY <2>1, EntriesOf
  <2>3. Entries(H, u) \subseteq Key \X Val
        /\ Entries(H, t) \ {<<k, v>>} \subseteq Key \X Val
    BY DEF Entries
  <2> QED BY <2>2, <2>3, EntriesEqual
<1>11. Good(H, u)
  <2>1. IsFiniteSet(Places(u))
    BY <1>7 DEF Good
  <2> QED BY <1>6, <2>1 DEF Good
<1> QED
  BY <1>7, <1>9, <1>10, <1>11

\* With another bucket in the place of one of them a table is a table.
LEMMA RebucketShaped ==
    ASSUME NEW t, Shaped(t), NEW s \in DOMAIN t.bucket, NEW c \in Seq(Item),
           NEW f \in Int, NEW u,
           u = [realsize |-> t.realsize, count |-> t.count, freecount |-> f,
                bucket |-> [t.bucket EXCEPT ![s] = c]]
    PROVE  Shaped(u) /\ Rebucketed(t, u, s, c)
<1>1. /\ t.realsize \in Nat \ {0} /\ t.count \in Nat
      /\ DOMAIN t.bucket = 0..(t.realsize - 1)
      /\ \A h \in DOMAIN t.bucket : t.bucket[h] \in Seq(Item)
  BY DEF Shaped, TableOK
<1>2. u.bucket = [h \in 0..(t.realsize - 1) |-> IF h = s THEN c ELSE t.bucket[h]]
  BY DEF Shaped
<1>3. Shaped(u)
  <2>1. TableOK(u)
    <3>1. u.realsize = t.realsize /\ u.count = t.count /\ u.freecount = f
      OBVIOUS
    <3>2. DOMAIN u.bucket = 0..(t.realsize - 1)
      BY <1>2
    <3>3. \A h \in 0..(t.realsize - 1) : u.bucket[h] \in Seq(Item)
      BY <1>1, <1>2
    <3> QED BY <1>1, <3>1, <3>2, <3>3 DEF TableOK
  <2>2. u.bucket = [h \in 0..(u.realsize - 1) |-> u.bucket[h]]
    BY <1>2
  <2>3. u = [realsize |-> u.realsize, count |-> u.count,
             freecount |-> u.freecount, bucket |-> u.bucket]
    OBVIOUS
  <2> QED BY <2>1, <2>2, <2>3 DEF Shaped
<1>4. Rebucketed(t, u, s, c)
  BY <1>2 DEF Rebucketed
<1> QED
  BY <1>3, <1>4

MarkedFree(b, i) == [b EXCEPT ![i] = [@ EXCEPT !.free = TRUE]]

LEMMA MarkedIsFreed ==
    ASSUME NEW b \in Seq(Item), NEW i \in DOMAIN b
    PROVE  MarkedFree(b, i) \in Seq(Item) /\ FreedAt(b, MarkedFree(b, i), i)
<1>1. b[i] \in Item
  BY ElementOfSeq, LenProperties
<1>2. [b[i] EXCEPT !.free = TRUE] \in Item
  BY <1>1 DEF Item
<1>3. MarkedFree(b, i) = [b EXCEPT ![i] = [b[i] EXCEPT !.free = TRUE]]
  BY DEF MarkedFree
<1>4. MarkedFree(b, i) \in Seq(Item)
  BY <1>2, <1>3, ExceptSeq, LenProperties
<1>5. MarkedFree(b, i)[i] = [b[i] EXCEPT !.free = TRUE]
  BY <1>3
<1>6. MarkedFree(b, i)[i].key = b[i].key /\ MarkedFree(b, i)[i].free
  BY <1>1, <1>5 DEF Item
<1>7. DOMAIN MarkedFree(b, i) = DOMAIN b
      /\ \A x \in DOMAIN b : x # i => MarkedFree(b, i)[x] = b[x]
  BY <1>3
<1> QED BY <1>4, <1>6, <1>7 DEF FreedAt

\* A key that is found is found once, with a value.
LEMMA FoundOnce ==
    ASSUME NEW H \in Hashes, NEW t, Good(H, t), NEW k \in Key,
           NEW i \in Holding(t.bucket[Home(H, t, k)], k)
    PROVE  /\ Holding(t.bucket[Home(H, t, k)], k) = {i}
           /\ t.bucket[Home(H, t, k)][i].val \in Val
           /\ i \in DOMAIN t.bucket[Home(H, t, k)]
           /\ \A v : Has(H, t, k, v) <=> v = t.bucket[Home(H, t, k)][i].val
<1>1. PICK s : s = Home(H, t, k)
  OBVIOUS
<1>2. PICK b : b = t.bucket[s]
  OBVIOUS
<1>3. s \in DOMAIN t.bucket /\ b \in Seq(Item) /\ Tidy(b) /\ i \in Holding(b, k)
  BY <1>1, <1>2, HomeInTable DEF Good, Shaped
<1>4. Holding(b, k) = {i} /\ i \in DOMAIN b
  BY <1>3, TidyHolds DEF Holding
<1>5. b[i] \in Item
  BY <1>3, <1>4, ElementOfSeq, LenProperties
<1>6. b[i].val \in Val
  BY <1>5 DEF Item
<1> QED
  BY <1>1, <1>2, <1>4, <1>6 DEF Has

\* hfree of an item that hfind returned.
LEMMA HfreeGood ==
    ASSUME hash \in Hashes, NEW t, Good(hash, t), Counted(t), NEW k \in Key,
           NEW i \in Find(t, k)
    PROVE  LET u == [t EXCEPT !.bucket[Slot(t, k)][i].free = TRUE, !.freecount = @ + 1]
           IN  /\ Good(hash, u) /\ Counted(u)
               /\ \E v \in Val : /\ Has(hash, t, k, v)
                                 /\ Entries(hash, u) = Entries(hash, t) \ {<<k, v>>}
<1>1. PICK s : s = Home(hash, t, k)
  OBVIOUS
<1>2. PICK b : b = t.bucket[s]
  OBVIOUS
<1>3. PICK u : u = [t EXCEPT !.bucket[s][i].free = TRUE, !.freecount = @ + 1]
  OBVIOUS
<1>4. /\ s \in DOMAIN t.bucket /\ b \in Seq(Item) /\ i \in Holding(b, k)
      /\ Slot(t, k) = s /\ Shaped(t)
  BY <1>1, <1>2, HomeInTable DEF Good, Shaped, Find, Slot, Home
<1>5. i \in DOMAIN b
  BY <1>4 DEF Holding
<1>6. u = [realsize |-> t.realsize, count |-> t.count, freecount |-> t.freecount + 1,
           bucket |-> [t.bucket EXCEPT ![s] = MarkedFree(b, i)]]
  <2>1. PICK c : c = [b EXCEPT ![i] = [@ EXCEPT !.free = TRUE]]
    OBVIOUS
  <2>2. u = [realsize |-> t.realsize, count |-> t.count, freecount |-> t.freecount + 1,
             bucket |-> [t.bucket EXCEPT ![s] = c]]
    BY <1>2, <1>3, <1>4, <2>1 DEF Shaped
  <2>3. c = MarkedFree(b, i)
    BY <2>1 DEF MarkedFree
  <2> QED BY <2>2, <2>3
<1>7. /\ Shaped(u) /\ Rebucketed(t, u, s, MarkedFree(b, i))
      /\ FreedAt(b, MarkedFree(b, i), i)
      /\ u.count = t.count /\ u.freecount = t.freecount + 1
  <2>1. MarkedFree(b, i) \in Seq(Item) /\ FreedAt(b, MarkedFree(b, i), i)
    BY <1>4, <1>5, MarkedIsFreed
  <2>2. t.freecount + 1 \in Int
    BY <1>4 DEF Shaped, TableOK
  <2>3. Shaped(u) /\ Rebucketed(t, u, s, MarkedFree(b, i))
    BY <1>4, <1>6, <2>1, <2>2, RebucketShaped
  <2> QED BY <1>6, <2>1, <2>3
<1>8. PICK v \in Val : b[i].val = v
  BY <1>1, <1>2, <1>4, FoundOnce
<1>9. Has(hash, t, k, v)
  BY <1>1, <1>2, <1>4, <1>8 DEF Has
<1>10. /\ Good(hash, u)
       /\ Entries(hash, u) = Entries(hash, t) \ {<<k, v>>}
       /\ Places(u) = Places(t)
       /\ Cardinality(Live(u)) = Cardinality(Live(t)) - 1
  BY <1>1, <1>2, <1>4, <1>7, <1>8, FreeGood
<1>11. IsFiniteSet(Live(t))
  BY LiveArePlaces, FS_Subset DEF Good
<1>12. Counted(u)
  <2>1. t.count \in Nat /\ t.freecount \in Int
    BY <1>4 DEF Shaped, TableOK
  <2>2. Cardinality(Live(t)) \in Nat
    BY <1>11, FS_CardinalityType
  <2> QED BY <1>7, <1>10, <2>1, <2>2 DEF Counted
<1> QED
  BY <1>3, <1>4, <1>9, <1>10, <1>12

\* it->free = p->free in _hgrow, for an item that was just added.
LEMMA RefreeGood ==
    ASSUME hash \in Hashes, NEW t, Good(hash, t), NEW item \in Item,
           Has(hash, t, item.key, item.val)
    PROVE  LET u == Refree(t, item)
           IN  /\ Good(hash, u)
               /\ Entries(hash, u) = IF item.free THEN Entries(hash, t) \ {Entry(item)}
                                     ELSE Entries(hash, t)
               /\ Places(u) = Places(t)
<1>1. PICK k \in Key, v \in Val : k = item.key /\ v = item.val
  BY DEF Item
<1>2. PICK s : s = Home(hash, t, k)
  OBVIOUS
<1>3. PICK b : b = t.bucket[s]
  OBVIOUS
<1>4. PICK i \in Holding(b, k) : b[i].val = v
  BY <1>1, <1>2, <1>3 DEF Has
<1>5. /\ Holding(b, k) = {i} /\ i \in DOMAIN b
  BY <1>2, <1>3, FoundOnce
<1>6. Slot(t, k) = s /\ Find(t, k) = {i}
  BY <1>2, <1>3, <1>5 DEF Slot, Home, Find
<1>7. /\ s \in DOMAIN t.bucket /\ b \in Seq(Item) /\ Shaped(t)
  BY <1>2, <1>3, HomeInTable DEF Good, Shaped
<1>8. PICK c : c = [b EXCEPT ![i] = [@ EXCEPT !.free = item.free]]
  OBVIOUS
<1>9. PICK u : u = [t EXCEPT !.bucket[s][i].free = item.free]
  OBVIOUS
<1>10. Refree(t, item) = u
  <2>1. (CHOOSE x \in Find(t, k) : TRUE) = i
    BY <1>6
  <2> QED BY <1>1, <1>6, <1>9, <2>1 DEF Refree
<1>11. u = [realsize |-> t.realsize, count |-> t.count, freecount |-> t.freecount,
            bucket |-> [t.bucket EXCEPT ![s] = c]]
  BY <1>3, <1>7, <1>8, <1>9 DEF Shaped
<1>12. b[i] \in Item /\ ~b[i].free
  BY <1>4, <1>5, <1>7, ElementOfSeq, LenProperties DEF Holding
<1>13. CASE item.free
  <2>1. c = MarkedFree(b, i)
    <3>1. item.free = TRUE
      BY <1>13 DEF Item
    <3> QED BY <1>8, <3>1 DEF MarkedFree
  <2>2. c \in Seq(Item) /\ FreedAt(b, c, i)
    BY <1>5, <1>7, <2>1, MarkedIsFreed
  <2>3. t.freecount \in Int
    BY <1>7 DEF Shaped, TableOK
  <2>4. Shaped(u) /\ Rebucketed(t, u, s, c)
    BY <1>7, <1>11, <2>2, <2>3, RebucketShaped
  <2>5. /\ Good(hash, u)
        /\ Entries(hash, u) = Entries(hash, t) \ {<<k, v>>}
        /\ Places(u) = Places(t)
    BY <1>2, <1>3, <1>4, <2>2, <2>4, FreeGood
  <2> QED BY <1>1, <1>10, <1>13, <2>5 DEF Entry
<1>14. CASE ~item.free
  <2>1. [b[i] EXCEPT !.free = item.free] = b[i]
    <3>1. item.free = FALSE /\ b[i].free = FALSE
      BY <1>12, <1>14 DEF Item
    <3> QED BY <1>12, <3>1 DEF Item
  <2>2. c = b
    <3>1. c = [b EXCEPT ![i] = b[i]]
      BY <1>8, <2>1
    <3> QED BY <1>7, <3>1
  <2>3. [t.bucket EXCEPT ![s] = c] = t.bucket
    BY <1>3, <1>7, <2>2 DEF Shaped
  <2>4. u = t
    BY <1>7, <1>11, <2>3 DEF Shaped
  <2> QED BY <1>10, <1>14, <2>4
<1> QED BY <1>13, <1>14

\* An empty table.
LEMMA CreatedGood ==
    ASSUME NEW H \in Hashes, NEW n \in Nat \ {0}
    PROVE  LET t == Created(n)
           IN  /\ Good(H, t) /\ Counted(t)
               /\ Entries(H, t) = {} /\ Places(t) = {}
<1>1. PICK t : t = Created(n)
  OBVIOUS
<1>2. /\ t = [realsize |-> t.realsize, count |-> t.count,
             freecount |-> t.freecount, bucket |-> t.bucket]
      /\ t.realsize = n /\ t.count = 0 /\ t.freecount = 0
      /\ t.bucket = [h \in 0..(n - 1) |-> <<>>]
  BY <1>1 DEF Created
<1>3. \A h \in 0..(n - 1) : t.bucket[h] = <<>>
  BY <1>2
<1>4. <<>> \in Seq(Item) /\ DOMAIN <<>> = {}
  BY EmptySeq, LenProperties
<1>5. Shaped(t)
  BY <1>2, <1>3, <1>4 DEF Shaped, TableOK
<1>6. DOMAIN t.bucket = 0..(n - 1) /\ \A h \in DOMAIN t.bucket : DOMAIN t.bucket[h] = {}
  BY <1>2, <1>3, <1>4
<1>7. Places(t) = {}
  BY <1>6, PlacesArePairs
<1>8. Live(t) = {}
  BY <1>7, LiveArePlaces
<1>9. Good(H, t)
  BY <1>5, <1>6, <1>7, FS_EmptySet DEF Good, Tidy
<1>10. Counted(t)
  BY <1>2, <1>7, <1>8, FS_EmptySet DEF Counted
<1>11. Entries(H, t) = {}
  <2>1. ASSUME NEW k \in Key, NEW v \in Val PROVE ~Has(H, t, k, v)
    BY <1>5, <1>6, HomeInTable DEF Has, Holding, Shaped
  <2> QED BY <2>1 DEF Entries
<1> QED BY <1>1, <1>7, <1>9, <1>10, <1>11

\* An item in use is found under its key, and nothing else is.
LEMMA LiveHas ==
    ASSUME NEW H \in Hashes, NEW t, Good(H, t), NEW p \in Live(t)
    PROVE  /\ At(t, p) \in Item
           /\ Has(H, t, At(t, p).key, At(t, p).val)
           /\ \A q \in Live(t) : At(t, q).key = At(t, p).key => q = p
<1>1. /\ p = <<p[1], p[2]>> /\ p[1] \in DOMAIN t.bucket
      /\ p[2] \in DOMAIN t.bucket[p[1]] /\ ~t.bucket[p[1]][p[2]].free
  BY PlacesArePairs DEF Live, At
<1>2. At(t, p) \in Item
  <2>1. t.bucket[p[1]] \in Seq(Item)
    BY <1>1 DEF Good, Shaped, TableOK
  <2> QED BY <1>1, <2>1, ElementOfSeq, LenProperties DEF At
<1>3. Home(H, t, At(t, p).key) = p[1]
  BY <1>1 DEF Good, At
<1>4. p[2] \in Holding(t.bucket[p[1]], At(t, p).key)
  BY <1>1 DEF Holding, At
<1>5. Has(H, t, At(t, p).key, At(t, p).val)
  BY <1>3, <1>4 DEF Has, At
<1>6. ASSUME NEW q \in Live(t), At(t, q).key = At(t, p).key PROVE q = p
  <2>1. /\ q = <<q[1], q[2]>> /\ q[1] \in DOMAIN t.bucket
        /\ q[2] \in DOMAIN t.bucket[q[1]] /\ ~t.bucket[q[1]][q[2]].free
    BY PlacesArePairs DEF Live, At
  <2>2. Home(H, t, At(t, q).key) = q[1]
    BY <2>1 DEF Good, At
  <2>3. q[1] = p[1]
    BY <1>3, <1>6, <2>2
  <2>4. q[2] = p[2]
    BY <1>1, <1>6, <2>1, <2>3 DEF Good, Tidy, At
  <2> QED BY <1>1, <2>1, <2>3, <2>4
<1> QED BY <1>2, <1>5, <1>6

\* A key that is found is at a place in use.
LEMMA HasLive ==
    ASSUME NEW H \in Hashes, NEW t, Good(H, t), NEW k \in Key, NEW v \in Val,
           Has(H, t, k, v)
    PROVE  \E p \in Live(t) : At(t, p).key = k /\ At(t, p).val = v
<1>1. PICK i \in Holding(t.bucket[Home(H, t, k)], k) :
        t.bucket[Home(H, t, k)][i].val = v
  BY DEF Has
<1>2. Home(H, t, k) \in DOMAIN t.bucket
  BY HomeInTable DEF Good, Shaped
<1>3. <<Home(H, t, k), i>> \in Live(t)
  BY <1>1, <1>2, LiveOf DEF Holding
<1>4. At(t, <<Home(H, t, k), i>>).key = k /\ At(t, <<Home(H, t, k), i>>).val = v
  BY <1>1 DEF Holding, At
<1> QED BY <1>3, <1>4

\* There are as many items in use as keys that are found.
LEMMA LiveAreEntries ==
    ASSUME NEW H \in Hashes, NEW t, Good(H, t)
    PROVE  Cardinality(Entries(H, t)) = Cardinality(Live(t))
<1> DEFINE f == [p \in Live(t) |-> Entry(At(t, p))]
<1>1. IsFiniteSet(Live(t))
  BY LiveArePlaces, FS_Subset DEF Good
<1>2. ASSUME NEW p \in Live(t) PROVE Entry(At(t, p)) \in Entries(H, t)
  <2>1. At(t, p).key \in Key /\ At(t, p).val \in Val
    BY LiveHas DEF Item
  <2> QED BY <2>1, LiveHas, EntriesOf DEF Entry
<1>3. f \in [Live(t) -> Entries(H, t)]
  BY <1>2
<1>4. ASSUME NEW p \in Live(t), NEW q \in Live(t), f[p] = f[q] PROVE p = q
  <2>1. At(t, p).key = At(t, q).key
    BY <1>4 DEF Entry
  <2> QED BY <2>1, LiveHas
<1>5. ASSUME NEW e \in Entries(H, t) PROVE \E p \in Live(t) : f[p] = e
  <2>1. PICK k \in Key, v \in Val : e = <<k, v>>
    BY DEF Entries
  <2>2. Has(H, t, k, v)
    BY <2>1, EntriesOf
  <2>3. PICK p \in Live(t) : At(t, p).key = k /\ At(t, p).val = v
    BY <2>2, HasLive
  <2> QED BY <2>1, <2>3 DEF Entry
<1> HIDE DEF f
<1>6. f \in Bijection(Live(t), Entries(H, t))
  BY <1>3, <1>4, <1>5 DEF Bijection, Injection, Surjection, IsInjective
<1> QED
  BY <1>1, <1>6, FS_Bijection DEF ExistsBijection

-----------------------------------------------------------------------------
(* Where _hgrow is in the table whose items it moves *)

CursorOK(t, c) ==
    /\ c = [h |-> c.h, i |-> c.i]
    /\ c.h \in DOMAIN t.bucket /\ c.i \in 0..Len(t.bucket[c.h])

\* The items that have been moved, and those in use among them.
Passed(t, c) == {p \in Places(t) : p[1] < c.h \/ (p[1] = c.h /\ p[2] > c.i)}
Copied(t, c) == {Entry(At(t, p)) : p \in Passed(t, c) \cap Live(t)}

Under(t, c) == t.bucket[c.h][c.i]
Advanced(c) == [c EXCEPT !.i = @ - 1]

LEMMA PassedOf ==
    ASSUME NEW t, NEW c, NEW h, NEW i
    PROVE  <<h, i>> \in Passed(t, c) <=>
             /\ h \in DOMAIN t.bucket /\ i \in DOMAIN t.bucket[h]
             /\ h < c.h \/ (h = c.h /\ i > c.i)
  BY PlacesOf DEF Passed

LEMMA PassedArePlaces == \A t, c : Passed(t, c) \subseteq Places(t)
  BY DEF Passed

LEMMA PassedEqual ==
    ASSUME NEW t, NEW S, NEW T, S \subseteq Places(t), T \subseteq Places(t),
           \A h, i : <<h, i>> \in S <=> <<h, i>> \in T
    PROVE  S = T
<1>1. ASSUME NEW p \in Places(t) PROVE p \in S <=> p \in T
  <2>1. p = <<p[1], p[2]>>
    BY PlacesArePairs
  <2>2. <<p[1], p[2]>> \in S <=> <<p[1], p[2]>> \in T
    OBVIOUS
  <2> QED BY <2>1, <2>2
<1> QED BY <1>1

LEMMA CursorFacts ==
    ASSUME NEW t, TableOK(t), NEW c, CursorOK(t, c)
    PROVE  /\ c.h \in Nat /\ c.i \in Nat /\ DOMAIN t.bucket = 0..(t.realsize - 1)
           /\ t.realsize \in Nat
           /\ \A h \in DOMAIN t.bucket : /\ DOMAIN t.bucket[h] = 1..Len(t.bucket[h])
                                         /\ Len(t.bucket[h]) \in Nat
                                         /\ t.bucket[h] \in Seq(Item)
           /\ c.i > 0 => /\ c.i \in DOMAIN t.bucket[c.h]
                         /\ Under(t, c) \in Item
<1>1. /\ DOMAIN t.bucket = 0..(t.realsize - 1)
      /\ t.realsize \in Nat
      /\ \A h \in DOMAIN t.bucket : /\ DOMAIN t.bucket[h] = 1..Len(t.bucket[h])
                                    /\ Len(t.bucket[h]) \in Nat
                                    /\ t.bucket[h] \in Seq(Item)
  BY LenProperties DEF TableOK
<1>2. c.h \in Nat /\ c.i \in 0..Len(t.bucket[c.h])
  BY <1>1 DEF CursorOK
<1>3. c.i \in Nat
  BY <1>1, <1>2 DEF CursorOK
<1>4. ASSUME c.i > 0 PROVE c.i \in DOMAIN t.bucket[c.h] /\ Under(t, c) \in Item
  <2>1. c.h \in DOMAIN t.bucket
    BY DEF CursorOK
  <2>2. c.i \in 1..Len(t.bucket[c.h])
    BY <1>1, <1>2, <1>4, <2>1
  <2> QED BY <1>1, <2>1, <2>2, ElementOfSeq DEF Under
<1> QED BY <1>1, <1>2, <1>3, <1>4

\* No item in use that was moved has the key of the item under the cursor, not
\* even if that one is free.
LEMMA NotYetCopied ==
    ASSUME NEW H \in Hashes, NEW t, Good(H, t), NEW c, CursorOK(t, c), c.i > 0, NEW v
    PROVE  <<Under(t, c).key, v>> \notin Copied(t, c)
<1> SUFFICES ASSUME <<Under(t, c).key, v>> \in Copied(t, c) PROVE FALSE
  OBVIOUS
<1>1. PICK p \in Passed(t, c) \cap Live(t) : <<Under(t, c).key, v>> = Entry(At(t, p))
  BY DEF Copied
<1>2. At(t, p).key = Under(t, c).key
  BY <1>1 DEF Entry
<1>3. /\ p[1] \in DOMAIN t.bucket /\ p[2] \in DOMAIN t.bucket[p[1]]
      /\ ~t.bucket[p[1]][p[2]].free
      /\ p[1] < c.h \/ (p[1] = c.h /\ p[2] > c.i)
  BY <1>1, PlacesArePairs DEF Passed, Live, At
<1>4. /\ c.h \in Nat /\ c.i \in Nat /\ DOMAIN t.bucket = 0..(t.realsize - 1)
      /\ c.i \in DOMAIN t.bucket[c.h] /\ c.h \in DOMAIN t.bucket
  BY CursorFacts DEF Good, Shaped, CursorOK
<1>5. p[1] = c.h
  BY <1>2, <1>3, <1>4 DEF Good, At, Under
<1>6. p[2] > c.i /\ p[2] # c.i
  <2>1. p[2] \in Nat
    <3>1. DOMAIN t.bucket[p[1]] = 1..Len(t.bucket[p[1]])
      BY <1>3, CursorFacts DEF Good, Shaped
    <3> QED BY <1>3, <3>1
  <2> QED BY <1>3, <1>4, <1>5, <2>1
<1>7. Tidy(t.bucket[c.h])
  BY <1>4 DEF Good
<1>8. t.bucket[c.h][c.i].key = t.bucket[c.h][p[2]].key
  BY <1>2, <1>5 DEF At, Under
<1>9. p[2] \in DOMAIN t.bucket[c.h] /\ ~t.bucket[c.h][p[2]].free
  BY <1>3, <1>5
<1>10. c.i > p[2]
  BY <1>4, <1>6, <1>7, <1>8, <1>9 DEF Tidy
<1>11. p[2] \in Nat
  <2>1. DOMAIN t.bucket[p[1]] = 1..Len(t.bucket[p[1]])
    BY <1>3, CursorFacts DEF Good, Shaped
  <2> QED BY <1>3, <2>1
<1> QED BY <1>4, <1>6, <1>10, <1>11

\* The item under the cursor is passed.
LEMMA AdvancedPassed ==
    ASSUME NEW H \in Hashes, NEW t, Good(H, t), NEW c, CursorOK(t, c), c.i > 0
    PROVE  /\ CursorOK(t, Advanced(c))
           /\ Cardinality(Passed(t, Advanced(c))) = Cardinality(Passed(t, c)) + 1
           /\ Copied(t, Advanced(c)) = IF Under(t, c).free THEN Copied(t, c)
                                       ELSE Copied(t, c) \cup {Entry(Under(t, c))}
<1>1. /\ c.h \in Nat /\ c.i \in Nat /\ c.h \in DOMAIN t.bucket
      /\ c.i \in DOMAIN t.bucket[c.h] /\ Len(t.bucket[c.h]) \in Nat
      /\ DOMAIN t.bucket = 0..(t.realsize - 1) /\ t.realsize \in Nat
      /\ \A h \in DOMAIN t.bucket : DOMAIN t.bucket[h] = 1..Len(t.bucket[h])
  BY CursorFacts DEF Good, Shaped, CursorOK
<1>2. Advanced(c) = [h |-> c.h, i |-> c.i - 1]
  BY DEF Advanced, CursorOK
<1>3. PICK a : a = Advanced(c)
  OBVIOUS
<1>4. a = [h |-> a.h, i |-> a.i] /\ a.h = c.h /\ a.i = c.i - 1
  BY <1>2, <1>3
<1>5. CursorOK(t, a)
  BY <1>1, <1>4 DEF CursorOK
<1>6. Passed(t, a) = Passed(t, c) \cup {<<c.h, c.i>>}
  <2>1. ASSUME NEW h, NEW i
        PROVE  <<h, i>> \in Passed(t, a) <=> <<h, i>> \in Passed(t, c) \cup {<<c.h, c.i>>}
    <3>1. <<h, i>> \in Passed(t, a) <=>
            /\ h \in DOMAIN t.bucket /\ i \in DOMAIN t.bucket[h]
            /\ h < c.h \/ (h = c.h /\ i > c.i - 1)
      BY <1>4, PassedOf
    <3>2. <<h, i>> \in Passed(t, c) <=>
            /\ h \in DOMAIN t.bucket /\ i \in DOMAIN t.bucket[h]
            /\ h < c.h \/ (h = c.h /\ i > c.i)
      BY PassedOf
    <3>3. h \in DOMAIN t.bucket /\ i \in DOMAIN t.bucket[h] => h \in Nat /\ i \in Nat
      BY <1>1
    <3>4. <<h, i>> = <<c.h, c.i>> <=> h = c.h /\ i = c.i
      OBVIOUS
    <3>5. i \in Nat => (i > c.i - 1 <=> i > c.i \/ i = c.i)
      BY <1>1
    <3> QED BY <1>1, <3>1, <3>2, <3>3, <3>4, <3>5
  <2>2. <<c.h, c.i>> \in Places(t)
    BY <1>1, PlacesOf
  <2>3. PICK S, T : S = Passed(t, a) /\ T = Passed(t, c) \cup {<<c.h, c.i>>}
    OBVIOUS
  <2>4. S \subseteq Places(t) /\ T \subseteq Places(t)
    BY <2>2, <2>3, PassedArePlaces
  <2>5. \A h, i : <<h, i>> \in S <=> <<h, i>> \in T
    BY <2>1, <2>3
  <2>6. S = T
    BY <2>4, <2>5, PassedEqual
  <2> QED BY <2>3, <2>6
<1>7. <<c.h, c.i>> \notin Passed(t, c)
  BY <1>1, PassedOf
<1>8. Cardinality(Passed(t, a)) = Cardinality(Passed(t, c)) + 1
  <2>1. IsFiniteSet(Passed(t, c))
    BY PassedArePlaces, FS_Subset DEF Good
  <2> QED BY <1>6, <1>7, <2>1, FS_AddElement
<1>9. At(t, <<c.h, c.i>>) = Under(t, c)
  BY DEF At, Under
<1>10. <<c.h, c.i>> \in Live(t) <=> ~Under(t, c).free
  BY <1>1, LiveOf DEF Under
<1>11. CASE Under(t, c).free
  <2>1. Passed(t, a) \cap Live(t) = Passed(t, c) \cap Live(t)
    BY <1>6, <1>10, <1>11
  <2> QED BY <1>3, <1>5, <1>8, <1>11, <2>1 DEF Copied
<1>12. CASE ~Under(t, c).free
  <2>1. Passed(t, a) \cap Live(t) = (Passed(t, c) \cap Live(t)) \cup {<<c.h, c.i>>}
    BY <1>6, <1>10, <1>12
  <2>2. Copied(t, a) = Copied(t, c) \cup {Entry(Under(t, c))}
    BY <1>9, <2>1 DEF Copied
  <2> QED BY <1>3, <1>5, <1>8, <1>12, <2>2
<1> QED BY <1>11, <1>12

\* _hgrow begins with nothing moved.
LEMMA FrontPassed ==
    ASSUME NEW t, TableOK(t)
    PROVE  /\ CursorOK(t, Front(t, 0))
           /\ Passed(t, Front(t, 0)) = {} /\ Copied(t, Front(t, 0)) = {}
<1>1. PICK c : c = Front(t, 0)
  OBVIOUS
<1>2. c = [h |-> c.h, i |-> c.i] /\ c.h = 0 /\ c.i = Len(t.bucket[0])
  BY <1>1 DEF Front
<1>3. /\ DOMAIN t.bucket = 0..(t.realsize - 1) /\ t.realsize \in Nat \ {0}
      /\ \A h \in DOMAIN t.bucket : /\ DOMAIN t.bucket[h] = 1..Len(t.bucket[h])
                                    /\ Len(t.bucket[h]) \in Nat
  BY LenProperties DEF TableOK
<1>4. CursorOK(t, c)
  BY <1>2, <1>3 DEF CursorOK
<1>5. ASSUME NEW h, NEW i PROVE <<h, i>> \notin Passed(t, c)
  <2>1. <<h, i>> \in Passed(t, c) =>
          /\ h \in DOMAIN t.bucket /\ i \in DOMAIN t.bucket[h]
          /\ h < 0 \/ (h = 0 /\ i > Len(t.bucket[h]))
    BY <1>2, PassedOf
  <2>2. h \in DOMAIN t.bucket => ~(h < 0)
    BY <1>3
  <2>3. h \in DOMAIN t.bucket /\ i \in DOMAIN t.bucket[h] => ~(i > Len(t.bucket[h]))
    BY <1>3
  <2> QED BY <2>1, <2>2, <2>3
<1>6. Passed(t, c) = {}
  BY <1>5, PassedArePlaces, PlacesArePairs
<1> QED BY <1>1, <1>4, <1>6 DEF Copied

\* From the end of a bucket it goes on with the next.
LEMMA NextFrontPassed ==
    ASSUME NEW t, TableOK(t), NEW c, CursorOK(t, c), c.i = 0, c.h + 1 < t.realsize
    PROVE  LET d == Front(t, c.h + 1)
           IN  /\ CursorOK(t, d)
               /\ Passed(t, d) = Passed(t, c) /\ Copied(t, d) = Copied(t, c)
<1>1. PICK d : d = Front(t, c.h + 1)
  OBVIOUS
<1>2. d = [h |-> d.h, i |-> d.i] /\ d.h = c.h + 1 /\ d.i = Len(t.bucket[c.h + 1])
  BY <1>1 DEF Front
<1>3. /\ DOMAIN t.bucket = 0..(t.realsize - 1) /\ t.realsize \in Nat /\ c.h \in Nat
      /\ \A h \in DOMAIN t.bucket : /\ DOMAIN t.bucket[h] = 1..Len(t.bucket[h])
                                    /\ Len(t.bucket[h]) \in Nat
  BY CursorFacts
<1>4. CursorOK(t, d)
  BY <1>2, <1>3 DEF CursorOK
<1>5. ASSUME NEW h, NEW i PROVE <<h, i>> \in Passed(t, d) <=> <<h, i>> \in Passed(t, c)
  <2>1. <<h, i>> \in Passed(t, d) <=>
          /\ h \in DOMAIN t.bucket /\ i \in DOMAIN t.bucket[h]
          /\ h < c.h + 1 \/ (h = c.h + 1 /\ i > Len(t.bucket[h]))
    BY <1>2, PassedOf
  <2>2. <<h, i>> \in Passed(t, c) <=>
          /\ h \in DOMAIN t.bucket /\ i \in DOMAIN t.bucket[h]
          /\ h < c.h \/ (h = c.h /\ i > 0)
    BY PassedOf
  <2>3. h \in DOMAIN t.bucket => h \in Nat
    BY <1>3
  <2>4. h \in DOMAIN t.bucket /\ i \in DOMAIN t.bucket[h] => i > 0 /\ ~(i > Len(t.bucket[h]))
    BY <1>3
  <2> QED BY <1>3, <2>1, <2>2, <2>3, <2>4
<1>6. Passed(t, d) = Passed(t, c)
  BY <1>5, PassedArePlaces, PassedEqual
<1> QED BY <1>1, <1>4, <1>6 DEF Copied

\* At the end of the last bucket everything has been moved.
LEMMA AllPassed ==
    ASSUME NEW H \in Hashes, NEW t, Good(H, t), NEW c, CursorOK(t, c),
           c.i = 0, c.h + 1 = t.realsize
    PROVE  Passed(t, c) = Places(t) /\ Copied(t, c) = Entries(H, t)
<1>1. /\ DOMAIN t.bucket = 0..(t.realsize - 1) /\ t.realsize \in Nat /\ c.h \in Nat
      /\ \A h \in DOMAIN t.bucket : DOMAIN t.bucket[h] = 1..Len(t.bucket[h])
      /\ TableOK(t)
  BY CursorFacts DEF Good, Shaped
<1>2. ASSUME NEW p \in Places(t) PROVE p \in Passed(t, c)
  <2>1. /\ p = <<p[1], p[2]>> /\ p[1] \in DOMAIN t.bucket
        /\ p[2] \in DOMAIN t.bucket[p[1]]
    BY PlacesArePairs
  <2>2. p[1] \in 0..(t.realsize - 1) /\ p[2] \in 1..Len(t.bucket[p[1]])
    BY <1>1, <2>1
  <2>3. p[1] < c.h \/ (p[1] = c.h /\ p[2] > 0)
    BY <1>1, <2>2
  <2> QED BY <2>3 DEF Passed
<1>3. Passed(t, c) = Places(t)
  BY <1>2, PassedArePlaces
<1>4. Copied(t, c) = {Entry(At(t, p)) : p \in Live(t)}
  BY <1>3, LiveArePlaces DEF Copied
<1>5. ASSUME NEW p \in Live(t) PROVE Entry(At(t, p)) \in Entries(H, t)
  <2>1. At(t, p).key \in Key /\ At(t, p).val \in Val
    BY LiveHas DEF Item
  <2> QED BY <2>1, LiveHas, EntriesOf DEF Entry
<1>6. ASSUME NEW e \in Entries(H, t) PROVE \E p \in Live(t) : Entry(At(t, p)) = e
  <2>1. PICK k \in Key, v \in Val : e = <<k, v>>
    BY DEF Entries
  <2>2. Has(H, t, k, v)
    BY <2>1, EntriesOf
  <2>3. PICK p \in Live(t) : At(t, p).key = k /\ At(t, p).val = v
    BY <2>2, HasLive
  <2> QED BY <2>1, <2>3 DEF Entry
<1> QED BY <1>3, <1>4, <1>5, <1>6

-----------------------------------------------------------------------------
(* The tables of a growth *)

\* t is moved into d.  Between two items d has what was moved; while d is growing
\* it has the item under the cursor as well, in use even if it is free in t.
Resting(H, t, c, d) ==
    /\ CursorOK(t, c)
    /\ Entries(H, d) = Copied(t, c)
    /\ Cardinality(Places(d)) <= Cardinality(Passed(t, c))

Waiting(H, t, c, d) ==
    /\ CursorOK(t, c) /\ c.i > 0
    /\ Entries(H, d) = Copied(t, c) \cup {Entry(Under(t, c))}
    /\ Cardinality(Places(d)) <= Cardinality(Passed(t, c)) + 1

LEMMA PassedFinite ==
    ASSUME NEW H, NEW t, Good(H, t), NEW c
    PROVE  IsFiniteSet(Passed(t, c)) /\ Cardinality(Passed(t, c)) \in Nat
  BY PassedArePlaces, FS_Subset, FS_CardinalityType DEF Good

LEMMA PlacesFinite ==
    ASSUME NEW H, NEW t, Good(H, t)
    PROVE  Cardinality(Places(t)) \in Nat
  BY FS_CardinalityType DEF Good

\* hadd of the item under the cursor does not fail.
LEMMA MovingPut ==
    ASSUME hash \in Hashes, NEW t, NEW c, NEW d, Good(hash, t), Good(hash, d),
           Resting(hash, t, c, d), c.i > 0
    PROVE  LET item == Under(t, c)
               e == Put(d, item.key, item.val)
           IN  /\ Find(d, item.key) = {}
               /\ Good(hash, e) /\ Waiting(hash, t, c, e)
<1>1. PICK item : item = Under(t, c)
  OBVIOUS
<1>2. item \in Item
  BY <1>1, CursorFacts DEF Resting, Good, Shaped
<1>3. PICK k \in Key, v \in Val : k = item.key /\ v = item.val
  BY <1>2 DEF Item
<1>4. ASSUME Find(d, k) # {} PROVE FALSE
  <2>1. PICK i : i \in Holding(d.bucket[Home(hash, d, k)], k)
    BY <1>4 DEF Find, Slot, Home
  <2>2. PICK w \in Val : Has(hash, d, k, w)
    BY <2>1, FoundOnce
  <2>3. <<k, w>> \in Copied(t, c)
    BY <2>2, EntriesOf DEF Resting
  <2> QED BY <1>1, <1>3, <2>3, NotYetCopied DEF Resting
<1>5. PICK e : e = Put(d, k, v)
  OBVIOUS
<1>6. /\ Good(hash, e)
      /\ Entries(hash, e) = Entries(hash, d) \cup {<<k, v>>}
      /\ Cardinality(Places(e)) <= Cardinality(Places(d)) + 1
  BY <1>4, <1>5, PutGood
<1>7. Cardinality(Places(e)) <= Cardinality(Passed(t, c)) + 1
  <2>1. /\ Cardinality(Places(e)) \in Nat /\ Cardinality(Places(d)) \in Nat
        /\ Cardinality(Passed(t, c)) \in Nat
    BY <1>6, PlacesFinite, PassedFinite
  <2>2. Cardinality(Places(d)) <= Cardinality(Passed(t, c))
    BY DEF Resting
  <2> QED BY <1>6, <2>1, <2>2
<1>8. Waiting(hash, t, c, e)
  BY <1>1, <1>3, <1>6, <1>7 DEF Resting, Waiting, Entry
<1> QED
  BY <1>1, <1>3, <1>4, <1>5, <1>6, <1>8

\* When the item has been added, and the dummy has grown if it had to, the item
\* gets its mark back.
LEMMA MovingRefreed ==
    ASSUME hash \in Hashes, NEW t, NEW c, NEW d, NEW g, Good(hash, t), Good(hash, g),
           Waiting(hash, t, c, d), Good(hash, d),
           Entries(hash, g) = Entries(hash, d),
           Cardinality(Places(g)) <= Cardinality(Places(d))
    PROVE  LET e == Refree(g, Under(t, c))
           IN  Good(hash, e) /\ Resting(hash, t, Advanced(c), e)
<1>1. PICK item : item = Under(t, c)
  OBVIOUS
<1>2. item \in Item
  BY <1>1, CursorFacts DEF Waiting, Good, Shaped
<1>3. Entry(item) \in Entries(hash, g)
  BY <1>1 DEF Waiting
<1>4. Has(hash, g, item.key, item.val)
  BY <1>3, EntriesOf DEF Entry
<1>5. PICK e : e = Refree(g, item)
  OBVIOUS
<1>6. /\ Good(hash, e)
      /\ Entries(hash, e) = IF item.free THEN Entries(hash, g) \ {Entry(item)}
                            ELSE Entries(hash, g)
      /\ Places(e) = Places(g)
  BY <1>2, <1>4, <1>5, RefreeGood
<1>7. Entry(item) \notin Copied(t, c)
  BY <1>1, NotYetCopied DEF Waiting, Entry
<1>8. /\ CursorOK(t, Advanced(c))
      /\ Cardinality(Passed(t, Advanced(c))) = Cardinality(Passed(t, c)) + 1
      /\ Copied(t, Advanced(c)) = IF item.free THEN Copied(t, c)
                                  ELSE Copied(t, c) \cup {Entry(item)}
  BY <1>1, AdvancedPassed DEF Waiting
<1>9. Entries(hash, e) = Copied(t, Advanced(c))
  <2>1. Entries(hash, g) = Copied(t, c) \cup {Entry(item)}
    BY <1>1 DEF Waiting
  <2>2. CASE item.free
    BY <1>6, <1>7, <1>8, <2>1, <2>2
  <2>3. CASE ~item.free
    BY <1>6, <1>8, <2>1, <2>3
  <2> QED BY <2>2, <2>3
<1>10. Cardinality(Places(e)) <= Cardinality(Passed(t, Advanced(c)))
  <2>1. /\ Cardinality(Places(g)) \in Nat /\ Cardinality(Places(d)) \in Nat
        /\ Cardinality(Passed(t, c)) \in Nat
    BY PlacesFinite, PassedFinite
  <2>2. Cardinality(Places(d)) <= Cardinality(Passed(t, c)) + 1
    BY DEF Waiting
  <2> QED BY <1>6, <1>8, <2>1, <2>2
<1>11. Resting(hash, t, Advanced(c), e)
  BY <1>8, <1>9, <1>10 DEF Resting
<1> QED
  BY <1>1, <1>5, <1>6, <1>11

\* The buckets and the size of the dummy, when everything has been moved.
WithBuckets(t, d) == [t EXCEPT !.bucket = d.bucket, !.realsize = d.realsize]

\* They hold what the table held, in no more items.
LEMMA GrownGood ==
    ASSUME NEW H \in Hashes, NEW t, NEW c, NEW d, Good(H, t), Good(H, d),
           Resting(H, t, c, d), c.i = 0, c.h + 1 = t.realsize
    PROVE  LET g == WithBuckets(t, d)
           IN  /\ Good(H, g)
               /\ Entries(H, g) = Entries(H, t)
               /\ Cardinality(Places(g)) <= Cardinality(Places(t))
               /\ Counted(t) => Counted(g)
<1>1. PICK g : g = WithBuckets(t, d)
  OBVIOUS
<1>2. Shaped(t) /\ Shaped(d)
  BY DEF Good
<1>3. g = [realsize |-> d.realsize, count |-> t.count, freecount |-> t.freecount,
           bucket |-> d.bucket]
  BY <1>1, <1>2 DEF WithBuckets, Shaped
<1>4. /\ g.realsize = d.realsize /\ g.count = t.count /\ g.freecount = t.freecount
      /\ g.bucket = d.bucket
      /\ g = [realsize |-> g.realsize, count |-> g.count,
              freecount |-> g.freecount, bucket |-> g.bucket]
  BY <1>3
<1>5. Shaped(g)
  BY <1>2, <1>4 DEF Shaped, TableOK
<1>6. Places(g) = Places(d) /\ Live(g) = Live(d)
  BY <1>4 DEF Places, Live, At
<1>7. \A k : Home(H, g, k) = Home(H, d, k)
  BY <1>4 DEF Home
<1>8. Good(H, g)
  BY <1>4, <1>5, <1>6, <1>7 DEF Good
<1>9. Entries(H, g) = Entries(H, d)
  BY <1>4, <1>7 DEF Entries, Has
<1>10. Passed(t, c) = Places(t) /\ Copied(t, c) = Entries(H, t)
  BY AllPassed DEF Resting
<1>11. Entries(H, g) = Entries(H, t)
  BY <1>9, <1>10 DEF Resting
<1>12. Cardinality(Places(g)) <= Cardinality(Places(t))
  BY <1>6, <1>10 DEF Resting
<1>13. Cardinality(Live(g)) = Cardinality(Live(t))
  BY <1>8, <1>11, LiveAreEntries
<1>14. ASSUME Counted(t) PROVE Counted(g)
  <2>1. t.count \in Nat /\ Cardinality(Places(g)) \in Nat /\ Cardinality(Places(t)) \in Nat
    BY <1>2, <1>8, PlacesFinite DEF Shaped, TableOK
  <2> QED BY <1>4, <1>12, <1>13, <1>14, <2>1 DEF Counted
<1> QED
  BY <1>1, <1>8, <1>11, <1>12, <1>14

LEMMA SeqFacts ==
    ASSUME NEW n \in Nat, NEW f, f = [i \in 1..n |-> f[i]]
    PROVE  /\ Len(f) = n
           /\ \A x : Append(f, x) = [i \in 1..(n + 1) |-> IF i = n + 1 THEN x ELSE f[i]]
<1> DEFINE S == {f[i] : i \in 1..n}
<1>1. f \in [1..n -> S]
  OBVIOUS
<1>2. f \in Seq(S) /\ Len(f) = n
  BY <1>1, IsASeq, LenProperties
<1>3. ASSUME NEW x
      PROVE  Append(f, x) = [i \in 1..(n + 1) |-> IF i = n + 1 THEN x ELSE f[i]]
  <2>1. PICK T : T = S \cup {x}
    OBVIOUS
  <2>2. f \in Seq(T) /\ x \in T
    <3>1. f \in [1..n -> T]
      BY <1>1, <2>1
    <3> QED BY <2>1, <3>1, IsASeq
  <2>3. /\ Append(f, x) \in Seq(T) /\ Len(Append(f, x)) = n + 1
        /\ \A i \in 1..n : Append(f, x)[i] = f[i]
        /\ Append(f, x)[n + 1] = x
    BY <1>2, <2>2, AppendProperties
  <2>4. Append(f, x) = [i \in 1..(n + 1) |-> Append(f, x)[i]]
    BY <2>3, LenProperties
  <2>5. \A i \in 1..(n + 1) : Append(f, x)[i] = IF i = n + 1 THEN x ELSE f[i]
    BY <2>3
  <2> QED BY <2>4, <2>5
<1> QED BY <1>2, <1>3

\* The n tables: all are good, the first one counts its items, each but the last
\* two waits for the next, which is growing, and the last but one is moved.
Chain(H, ts, cs, n) ==
    /\ H \in Hashes
    /\ n > 0
    /\ ts = [i \in 1..n |-> ts[i]]
    /\ cs = [i \in 1..(n - 1) |-> cs[i]]
    /\ \A i \in 1..n : Good(H, ts[i])
    /\ Counted(ts[1])
    /\ \A i \in 1..(n - 2) : Waiting(H, ts[i], cs[i], ts[i + 1])
    /\ n > 1 => Resting(H, ts[n - 1], cs[n - 1], ts[n])

\* Another table and another cursor at the end of the first m tables.
LEMMA ChainCut ==
    ASSUME NEW H, NEW ts, NEW cs, NEW n \in Nat, Chain(H, ts, cs, n),
           NEW m \in 1..n, NEW t, NEW c,
           Good(H, t), m = 1 => Counted(t),
           m > 1 => Resting(H, ts[m - 1], c, t),
           NEW us, us = [i \in 1..m |-> IF i = m THEN t ELSE ts[i]],
           NEW ds, ds = [i \in 1..(m - 1) |-> IF i = m - 1 THEN c ELSE cs[i]]
    PROVE  Chain(H, us, ds, m)
<1>1. H \in Hashes /\ m > 0
  BY DEF Chain
<1>2. us = [i \in 1..m |-> us[i]] /\ ds = [i \in 1..(m - 1) |-> ds[i]]
  OBVIOUS
<1>3. ASSUME NEW i \in 1..m PROVE Good(H, us[i])
  <2>1. CASE i = m
    BY <2>1
  <2>2. CASE i # m
    BY <2>2 DEF Chain
  <2> QED BY <2>1, <2>2
<1>4. Counted(us[1])
  <2>1. CASE m = 1
    BY <2>1
  <2>2. CASE m # 1
    BY <2>2 DEF Chain
  <2> QED BY <2>1, <2>2
<1>5. ASSUME NEW i \in 1..(m - 2) PROVE Waiting(H, us[i], ds[i], us[i + 1])
  <2>1. us[i] = ts[i] /\ ds[i] = cs[i] /\ us[i + 1] = ts[i + 1]
    OBVIOUS
  <2>2. i \in 1..(n - 2)
    OBVIOUS
  <2> QED BY <2>1, <2>2 DEF Chain
<1>6. m > 1 => Resting(H, us[m - 1], ds[m - 1], us[m])
  <2>1. ASSUME m > 1 PROVE us[m - 1] = ts[m - 1] /\ ds[m - 1] = c /\ us[m] = t
    BY <2>1
  <2> QED BY <2>1
<1> QED BY <1>1, <1>2, <1>3, <1>4, <1>5, <1>6 DEF Chain

\* One more table, into which the last one is moved.
LEMMA ChainGrown ==
    ASSUME NEW H, NEW ts, NEW cs, NEW n \in Nat, Chain(H, ts, cs, n), NEW t,
           Good(H, t), n = 1 => Counted(t),
           n > 1 => Waiting(H, ts[n - 1], cs[n - 1], t),
           NEW us, us = [i \in 1..(n + 1) |->
                           IF i = n + 1 THEN Created(2 * t.realsize)
                           ELSE IF i = n THEN t ELSE ts[i]],
           NEW ds, ds = [i \in 1..n |-> IF i = n THEN Front(t, 0) ELSE cs[i]]
    PROVE  Chain(H, us, ds, n + 1)
<1>1. H \in Hashes /\ n > 0
  BY DEF Chain
<1>2. us = [i \in 1..(n + 1) |-> us[i]] /\ ds = [i \in 1..((n + 1) - 1) |-> ds[i]]
  OBVIOUS
<1>3. PICK d : d = Created(2 * t.realsize)
  OBVIOUS
<1>4. Good(H, d) /\ Entries(H, d) = {} /\ Places(d) = {}
  <2>1. 2 * t.realsize \in Nat \ {0}
    BY DEF Good, Shaped, TableOK
  <2> QED BY <1>1, <1>3, <2>1, CreatedGood
<1>5. ASSUME NEW i \in 1..(n + 1) PROVE Good(H, us[i])
  <2>1. CASE i = n + 1
    BY <1>3, <1>4, <2>1
  <2>2. CASE i = n
    BY <2>2
  <2>3. CASE i \in 1..(n - 1)
    BY <2>3 DEF Chain
  <2> QED BY <2>1, <2>2, <2>3
<1>6. Counted(us[1])
  <2>1. CASE n = 1
    BY <2>1
  <2>2. CASE n # 1
    BY <1>1, <2>2 DEF Chain
  <2> QED BY <2>1, <2>2
<1>7. ASSUME NEW i \in 1..((n + 1) - 2) PROVE Waiting(H, us[i], ds[i], us[i + 1])
  <2>1. us[i] = ts[i] /\ ds[i] = cs[i]
    OBVIOUS
  <2>2. CASE i = n - 1
    <3>1. us[i + 1] = t
      BY <1>1, <2>2
    <3> QED BY <2>1, <2>2, <3>1
  <2>3. CASE i # n - 1
    <3>1. us[i + 1] = ts[i + 1] /\ i \in 1..(n - 2)
      BY <2>3
    <3> QED BY <2>1, <3>1 DEF Chain
  <2> QED BY <2>2, <2>3
<1>8. Resting(H, us[n], ds[n], us[n + 1])
  <2>1. us[n] = t /\ ds[n] = Front(t, 0) /\ us[n + 1] = d
    BY <1>1, <1>3
  <2>2. /\ CursorOK(t, Front(t, 0))
        /\ Passed(t, Front(t, 0)) = {} /\ Copied(t, Front(t, 0)) = {}
    BY FrontPassed DEF Good, Shaped
  <2>3. Cardinality(Places(d)) <= Cardinality(Passed(t, Front(t, 0)))
    <3>1. PICK S, T : S = Places(d) /\ T = Passed(t, Front(t, 0))
      OBVIOUS
    <3>2. Cardinality(S) = 0 /\ Cardinality(T) = 0
      BY <1>4, <2>2, <3>1, FS_EmptySet
    <3> QED BY <3>1, <3>2
  <2> QED BY <1>4, <2>1, <2>2, <2>3 DEF Resting
<1>9. PICK m : m = n + 1
  OBVIOUS
<1>10. m > 0 /\ m - 1 = n /\ m > 1 /\ m - 2 = (n + 1) - 2
  BY <1>1, <1>9
<1>11. us = [i \in 1..m |-> us[i]] /\ ds = [i \in 1..(m - 1) |-> ds[i]]
  <2>1. us = [i \in 1..m |-> us[i]]
    BY <1>2, <1>9
  <2>2. ds = [i \in 1..n |-> ds[i]]
    OBVIOUS
  <2> QED BY <1>10, <2>1, <2>2
<1>12. \A i \in 1..m : Good(H, us[i])
  BY <1>5, <1>9
<1>13. \A i \in 1..(m - 2) : Waiting(H, us[i], ds[i], us[i + 1])
  BY <1>7, <1>10
<1>14. Resting(H, us[m - 1], ds[m - 1], us[m])
  BY <1>8, <1>9, <1>10
<1>15. Chain(H, us, ds, m)
  BY <1>1, <1>6, <1>10, <1>11, <1>12, <1>13, <1>14 DEF Chain
<1> QED BY <1>9, <1>15

-----------------------------------------------------------------------------
(* The steps *)

LEMMA ChainLens ==
    ASSUME NEW H, NEW ts, NEW cs, NEW n \in Nat, Chain(H, ts, cs, n)
    PROVE  /\ n > 0 /\ n - 1 \in Nat
           /\ Len(ts) = n /\ Len(cs) = n - 1 /\ (Len(ts) = 1 <=> n = 1)
           /\ DOMAIN ts = 1..n /\ DOMAIN cs = 1..(n - 1)
           /\ \A i \in 1..n : Good(H, ts[i])
<1>1. /\ n > 0 /\ ts = [i \in 1..n |-> ts[i]] /\ cs = [i \in 1..(n - 1) |-> cs[i]]
      /\ \A i \in 1..n : Good(H, ts[i])
  BY DEF Chain
<1>2. PICK m \in Nat : m = n - 1
  BY <1>1
<1>3. Len(ts) = n
  BY <1>1, SeqFacts
<1>4. Len(cs) = m
  BY <1>1, <1>2, SeqFacts
<1>5. DOMAIN ts = 1..n /\ DOMAIN cs = 1..(n - 1)
  BY <1>1
<1> QED BY <1>1, <1>2, <1>3, <1>4, <1>5

LEMMA OneTable ==
    ASSUME NEW H \in Hashes, NEW t, Good(H, t), Counted(t),
           NEW us, us = <<t>>, NEW ds, ds = <<>>
    PROVE  Chain(H, us, ds, 1)
<1>1. us = [i \in 1..1 |-> us[i]] /\ us[1] = t
  OBVIOUS
<1>2. PICK n : n = 1
  OBVIOUS
<1>3. n > 0 /\ 1..(n - 1) = {} /\ 1..(n - 2) = {} /\ ~(n > 1) /\ 1..n = {1}
  BY <1>2
<1>4. ds = [i \in 1..(n - 1) |-> ds[i]]
  BY <1>3
<1>5. us = [i \in 1..n |-> us[i]]
  BY <1>1, <1>2
<1>6. \A i \in 1..n : Good(H, us[i])
  BY <1>1, <1>3
<1>7. Chain(H, us, ds, n)
  BY <1>1, <1>3, <1>4, <1>5, <1>6 DEF Chain
<1> QED BY <1>2, <1>7

\* The inductive invariant.
TabInv == intact /\ \E n \in Nat : Chain(hash, tables, cursor, n)

LEMMA TabInvInit == Init => TabInv /\ Entries(hash, table) = {}
<1> SUFFICES ASSUME Init PROVE TabInv /\ Entries(hash, table) = {}
  OBVIOUS
<1>1. hash \in Hashes /\ tables = <<Created(InitialSize)>> /\ cursor = <<>> /\ intact = TRUE
  BY DEF Init, Hashes
<1>2. PICK t : t = Created(InitialSize)
  OBVIOUS
<1>3. Good(hash, t) /\ Counted(t) /\ Entries(hash, t) = {}
  BY <1>1, <1>2, HashAssumption, CreatedGood
<1>4. Chain(hash, tables, cursor, 1)
  BY <1>1, <1>2, <1>3, OneTable
<1>5. table = t
  BY <1>1, <1>2 DEF table
<1> QED BY <1>1, <1>3, <1>4, <1>5 DEF TabInv

\* The last table must grow.
LEMMA GrowStep ==
    ASSUME NEW n \in Nat, Chain(hash, tables, cursor, n), NEW t, Grow(t),
           Good(hash, t), n = 1 => Counted(t),
           n > 1 => Waiting(hash, tables[n - 1], cursor[n - 1], t)
    PROVE  /\ Chain(hash, tables', cursor', n + 1)
           /\ tables'[1] = IF n = 1 THEN t ELSE tables[1]
<1>1. /\ n > 0 /\ n - 1 \in Nat /\ Len(tables) = n
      /\ tables = [i \in 1..n |-> tables[i]]
      /\ cursor = [i \in 1..(n - 1) |-> cursor[i]]
  BY ChainLens DEF Chain
<1>2. PICK f : f = [tables EXCEPT ![n] = t]
  OBVIOUS
<1>3. f = [i \in 1..n |-> f[i]] /\ \A i \in 1..n : f[i] = IF i = n THEN t ELSE tables[i]
  BY <1>1, <1>2
<1>4. PICK d : d = Created(2 * t.realsize)
  OBVIOUS
<1>5. PICK c : c = Front(t, 0)
  OBVIOUS
<1>6. PICK us : us = tables'
  OBVIOUS
<1>7. PICK ds : ds = cursor'
  OBVIOUS
<1>8. us = Append(f, d) /\ ds = Append(cursor, c)
  BY <1>1, <1>2, <1>4, <1>5, <1>6, <1>7 DEF Grow
<1>9. us = [i \in 1..(n + 1) |-> IF i = n + 1 THEN d ELSE f[i]]
  BY <1>3, <1>8, SeqFacts
<1>10. us = [i \in 1..(n + 1) |-> IF i = n + 1 THEN d ELSE IF i = n THEN t ELSE tables[i]]
  BY <1>3, <1>9
<1>11. PICK m \in Nat : m = n - 1
  BY <1>1
<1>12. cursor = [i \in 1..m |-> cursor[i]]
  BY <1>1, <1>11
<1>13. ds = [i \in 1..(m + 1) |-> IF i = m + 1 THEN c ELSE cursor[i]]
  BY <1>8, <1>12, SeqFacts
<1>14. ds = [i \in 1..n |-> IF i = n THEN c ELSE cursor[i]]
  <2>1. m + 1 = n
    BY <1>11
  <2> QED BY <1>13, <2>1
<1>15. Chain(hash, us, ds, n + 1)
  BY <1>4, <1>5, <1>10, <1>14, ChainGrown
<1>16. us[1] = IF n = 1 THEN t ELSE tables[1]
  BY <1>1, <1>10
<1> QED BY <1>6, <1>7, <1>15, <1>16

\* hadd stores a key that was absent.
LEMMA HaddStep ==
    ASSUME TabInv, NEW k \in Key, NEW v \in Val, hadd(k, v)
    PROVE  /\ TabInv'
           /\ \A w : <<k, w>> \notin Entries(hash, table)
           /\ Entries(hash, table)' = Entries(hash, table) \cup {<<k, v>>}
<1>1. PICK n \in Nat : Chain(hash, tables, cursor, n)
  BY DEF TabInv
<1>2. n = 1
  BY <1>1, ChainLens DEF hadd, Idle
<1>3. /\ hash \in Hashes /\ Good(hash, table) /\ Counted(table)
      /\ tables = [i \in 1..n |-> tables[i]] /\ cursor = [i \in 1..(n - 1) |-> cursor[i]]
  BY <1>1, <1>2 DEF Chain, table
<1>4. PICK t : t = Put(table, k, v)
  OBVIOUS
<1>5. /\ Find(table, k) = {} /\ intact /\ hash' = hash /\ intact' = intact
      /\ Grow(t) \/ (~Loaded(t) /\ tables' = <<t>> /\ cursor' = cursor)
  BY <1>4 DEF hadd
<1>6. /\ Good(hash, t) /\ Counted(t)
      /\ Entries(hash, t) = Entries(hash, table) \cup {<<k, v>>}
  BY <1>3, <1>4, <1>5, PutGood
<1>7. \A w : <<k, w>> \notin Entries(hash, table)
  BY <1>5, EntriesOf DEF Has, Find, Slot, Home
<1>8. CASE Grow(t)
  <2>1. Chain(hash, tables', cursor', n + 1) /\ tables'[1] = t
    BY <1>1, <1>2, <1>6, <1>8, GrowStep
  <2>2. TabInv'
    BY <1>5, <2>1 DEF TabInv
  <2> QED BY <1>5, <1>6, <1>7, <2>1, <2>2 DEF table
<1>9. CASE ~Loaded(t) /\ tables' = <<t>> /\ cursor' = cursor
  <2>1. cursor = <<>>
    BY <1>2, <1>3
  <2>2. Chain(hash, tables', cursor', 1) /\ tables'[1] = t
    BY <1>3, <1>6, <1>9, <2>1, OneTable
  <2>3. TabInv'
    BY <1>5, <2>2 DEF TabInv
  <2> QED BY <1>5, <1>6, <1>7, <2>2, <2>3 DEF table
<1> QED BY <1>5, <1>8, <1>9

\* hfree makes a key absent.
LEMMA HfreeStep ==
    ASSUME TabInv, NEW k \in Key, hfree(k)
    PROVE  /\ TabInv'
           /\ \E v \in Val : /\ <<k, v>> \in Entries(hash, table)
                             /\ Entries(hash, table)' = Entries(hash, table) \ {<<k, v>>}
<1>1. PICK n \in Nat : Chain(hash, tables, cursor, n)
  BY DEF TabInv
<1>2. n = 1
  BY <1>1, ChainLens DEF hfree, Idle
<1>3. /\ hash \in Hashes /\ Good(hash, table) /\ Counted(table)
      /\ cursor = [i \in 1..(n - 1) |-> cursor[i]]
  BY <1>1, <1>2 DEF Chain, table
<1>4. PICK i \in Find(table, k) :
        tables' = <<[table EXCEPT !.bucket[Slot(table, k)][i].free = TRUE,
                                  !.freecount = @ + 1]>>
  BY DEF hfree
<1>5. PICK u : u = [table EXCEPT !.bucket[Slot(table, k)][i].free = TRUE,
                                 !.freecount = @ + 1]
  OBVIOUS
<1>6. tables' = <<u>> /\ intact /\ hash' = hash /\ cursor' = cursor /\ intact' = intact
  BY <1>4, <1>5 DEF hfree
<1>7. /\ Good(hash, u) /\ Counted(u)
      /\ \E v \in Val : /\ Has(hash, table, k, v)
                        /\ Entries(hash, u) = Entries(hash, table) \ {<<k, v>>}
  BY <1>3, <1>5, HfreeGood
<1>8. cursor = <<>>
  BY <1>2, <1>3
<1>9. Chain(hash, tables', cursor', 1) /\ tables'[1] = u
  BY <1>3, <1>6, <1>7, <1>8, OneTable
<1>10. TabInv'
  BY <1>6, <1>9 DEF TabInv
<1>11. PICK v \in Val : /\ Has(hash, table, k, v)
                        /\ Entries(hash, u) = Entries(hash, table) \ {<<k, v>>}
  BY <1>7
<1>12. <<k, v>> \in Entries(hash, table)
  BY <1>11, EntriesOf
<1> QED BY <1>6, <1>9, <1>10, <1>11, <1>12 DEF table

\* What _hgrow is about, in a chain of more than one table.
LEMMA GrowingFacts ==
    ASSUME TabInv, ~Idle
    PROVE  \E n \in Nat :
             /\ Chain(hash, tables, cursor, n + 1)
             /\ n = Len(cursor) /\ n > 0 /\ n + 1 > 1 /\ n + 1 # 1
             /\ Last = tables[n + 1] /\ DOMAIN cursor = 1..n /\ hash \in Hashes
             /\ Good(hash, tables[n]) /\ Good(hash, tables[n + 1])
             /\ Resting(hash, tables[n], cursor[n], tables[n + 1])
             /\ tables = [i \in 1..(n + 1) |-> tables[i]]
             /\ cursor = [i \in 1..n |-> cursor[i]]
             /\ n > 1 => Waiting(hash, tables[n - 1], cursor[n - 1], tables[n])
             /\ Counted(tables[1])
<1>1. PICK m \in Nat : Chain(hash, tables, cursor, m)
  BY DEF TabInv
<1>2. m # 1 /\ m > 0 /\ Len(tables) = m /\ Len(cursor) = m - 1
  BY <1>1, ChainLens DEF Idle
<1>3. PICK n \in Nat : n + 1 = m /\ m - 1 = n /\ n = Len(cursor) /\ n > 0
  BY <1>2
<1>4. /\ hash \in Hashes
      /\ \A i \in 1..m : Good(hash, tables[i])
      /\ tables = [i \in 1..m |-> tables[i]]
      /\ cursor = [i \in 1..(m - 1) |-> cursor[i]]
      /\ Counted(tables[1])
      /\ m > 1 => Resting(hash, tables[m - 1], cursor[m - 1], tables[m])
      /\ \A i \in 1..(m - 2) : Waiting(hash, tables[i], cursor[i], tables[i + 1])
  BY <1>1 DEF Chain
<1>5. Good(hash, tables[n]) /\ Good(hash, tables[m])
  <2>1. n \in 1..m /\ m \in 1..m
    BY <1>3
  <2> QED BY <1>4, <2>1
<1>6. Resting(hash, tables[n], cursor[n], tables[m])
  <2>1. m > 1
    BY <1>3
  <2>2. Resting(hash, tables[m - 1], cursor[m - 1], tables[m])
    BY <1>4, <2>1
  <2> QED BY <1>3, <2>2
<1>7. ASSUME n > 1 PROVE Waiting(hash, tables[n - 1], cursor[n - 1], tables[n])
  <2>1. n - 1 \in 1..(m - 2) /\ (n - 1) + 1 = n
    BY <1>3, <1>7
  <2>2. PICK j : j = n - 1
    OBVIOUS
  <2>3. j \in 1..(m - 2) /\ j + 1 = n
    BY <2>1, <2>2
  <2>4. Waiting(hash, tables[j], cursor[j], tables[j + 1])
    BY <1>4, <2>3
  <2> QED BY <2>2, <2>3, <2>4
<1>8. Last = tables[m] /\ DOMAIN cursor = 1..n /\ m > 1
  BY <1>2, <1>3, <1>4 DEF Last
<1>9. cursor = [i \in 1..n |-> cursor[i]]
  BY <1>3, <1>4
<1>10. n + 1 > 1 /\ n + 1 # 1
  BY <1>3
<1>11. Chain(hash, tables, cursor, n + 1) /\ tables = [i \in 1..(n + 1) |-> tables[i]]
  BY <1>1, <1>3, <1>4
<1> QED BY <1>3, <1>4, <1>5, <1>6, <1>7, <1>8, <1>9, <1>10, <1>11

\* The table and its dummies are otherwise unchanged.
LEMMA SameTable ==
    ASSUME TabInv, hash' = hash, tables'[1] = tables[1]
    PROVE  Entries(hash, table)' = Entries(hash, table)
<1>1. table' = table
  BY DEF table
<1> QED BY <1>1

\* _hgrow moves an item: hadd succeeds, so nothing is given up.
LEMMA MoveStep ==
    ASSUME TabInv, Move
    PROVE  TabInv' /\ Entries(hash, table)' = Entries(hash, table)
<1>1. PICK n \in Nat :
             /\ Chain(hash, tables, cursor, n + 1)
             /\ n = Len(cursor) /\ n > 0 /\ n + 1 > 1 /\ n + 1 # 1
             /\ Last = tables[n + 1] /\ DOMAIN cursor = 1..n /\ hash \in Hashes
             /\ Good(hash, tables[n]) /\ Good(hash, tables[n + 1])
             /\ Resting(hash, tables[n], cursor[n], tables[n + 1])
             /\ tables = [i \in 1..(n + 1) |-> tables[i]]
             /\ cursor = [i \in 1..n |-> cursor[i]]
  BY GrowingFacts DEF Move
<1>0. PICK m : m = n + 1
  OBVIOUS
<1>2. m \in Nat /\ m = n + 1 /\ m - 1 = n /\ m > 1 /\ n \in 1..m
  BY <1>0, <1>1
<1>20. m \in Nat /\ m \in 1..m
  BY <1>0, <1>1
<1>3. PICK tn : tn = tables[n]
  OBVIOUS
<1>4. PICK c : c = cursor[n]
  OBVIOUS
<1>5. PICK d : d = tables[m]
  OBVIOUS
<1>6. PICK item : item = Under(tn, c)
  OBVIOUS
<1>7. Moving(n) = item
  BY <1>3, <1>4, <1>6 DEF Moving, Under
<1>8. PICK t : t = Put(d, item.key, item.val)
  OBVIOUS
<1>9. /\ c.i > 0 /\ hash' = hash
      /\ intact' = (Find(d, item.key) = {})
      /\ ~intact' \/ Grow(t) \/
         (~Loaded(t) /\ tables' = [tables EXCEPT ![m] = Refree(t, item)]
                     /\ cursor' = Moved(n))
  <2>1. n = Len(cursor) /\ Last = d /\ m = Len(cursor) + 1
    BY <1>1, <1>2, <1>5
  <2> QED BY <1>2, <1>4, <1>7, <1>8, <2>1 DEF Move
<1>10. /\ Find(d, item.key) = {} /\ Good(hash, t) /\ Waiting(hash, tn, c, t)
       /\ Good(hash, tn)
  <2>1. Resting(hash, tn, c, d) /\ Good(hash, tn) /\ Good(hash, d)
    BY <1>1, <1>2, <1>3, <1>4, <1>5
  <2> QED BY <1>1, <1>6, <1>8, <1>9, <2>1, MovingPut
<1>11. intact'
  BY <1>9, <1>10
<1>12. CASE Grow(t)
  <2>1. m = 1 => Counted(t)
    BY <1>2
  <2>2. m > 1 => Waiting(hash, tables[m - 1], cursor[m - 1], t)
    BY <1>2, <1>3, <1>4, <1>10
  <2>3. Chain(hash, tables, cursor, m)
    BY <1>1, <1>2
  <2>4. Chain(hash, tables', cursor', m + 1) /\ tables'[1] = tables[1]
    BY <1>2, <1>10, <1>12, <2>1, <2>2, <2>3, GrowStep
  <2>5. TabInv'
    BY <1>9, <1>11, <1>20, <2>4 DEF TabInv
  <2> QED BY <1>9, <2>4, <2>5, SameTable
<1>13. CASE ~Loaded(t) /\ tables' = [tables EXCEPT ![m] = Refree(t, item)]
                       /\ cursor' = Moved(n)
  <2>1. PICK e : e = Refree(t, item)
    OBVIOUS
  <2>2. PICK a : a = Advanced(c)
    OBVIOUS
  <2>3. Good(hash, e) /\ Resting(hash, tn, a, e)
    <3>1. Cardinality(Places(t)) <= Cardinality(Places(t))
      BY <1>10, PlacesFinite
    <3> QED BY <1>1, <1>6, <1>10, <2>1, <2>2, <3>1, MovingRefreed
  <2>4. PICK us, ds : us = tables' /\ ds = cursor'
    OBVIOUS
  <2>5. us = [i \in 1..m |-> IF i = m THEN e ELSE tables[i]]
    BY <1>1, <1>2, <1>13, <2>1, <2>4
  <2>6. ds = [i \in 1..n |-> IF i = n THEN a ELSE cursor[i]]
    <3>1. ds = [cursor EXCEPT ![n] = [c EXCEPT !.i = @ - 1]]
      BY <1>1, <1>4, <1>13, <2>4 DEF Moved
    <3>2. [c EXCEPT !.i = @ - 1] = a
      BY <2>2 DEF Advanced
    <3> QED BY <1>1, <3>1, <3>2
  <2>7. ds = [i \in 1..(m - 1) |-> IF i = m - 1 THEN a ELSE cursor[i]]
    BY <1>2, <2>6
  <2>8. m > 1 => Resting(hash, tables[m - 1], a, e)
    BY <1>2, <1>3, <2>3
  <2>9. Chain(hash, tables, cursor, m)
    BY <1>1, <1>2
  <2>10. m = 1 => Counted(e)
    BY <1>2
  <2>11. Chain(hash, us, ds, m)
    BY <1>20, <2>3, <2>5, <2>7, <2>8, <2>9, <2>10, ChainCut
  <2>12. TabInv'
    BY <1>9, <1>11, <1>20, <2>4, <2>11 DEF TabInv
  <2>13. tables'[1] = tables[1]
    BY <1>2, <2>4, <2>5
  <2> QED BY <1>9, <2>12, <2>13, SameTable
<1> QED BY <1>9, <1>11, <1>12, <1>13

\* _hgrow goes on with the next bucket.
LEMMA NextBucketStep ==
    ASSUME TabInv, NextBucket
    PROVE  TabInv' /\ Entries(hash, table)' = Entries(hash, table)
<1>1. PICK n \in Nat :
             /\ Chain(hash, tables, cursor, n + 1)
             /\ n = Len(cursor) /\ n > 0 /\ n + 1 > 1 /\ n + 1 # 1
             /\ Good(hash, tables[n]) /\ Good(hash, tables[n + 1])
             /\ Resting(hash, tables[n], cursor[n], tables[n + 1])
             /\ tables = [i \in 1..(n + 1) |-> tables[i]]
             /\ cursor = [i \in 1..n |-> cursor[i]]
  BY GrowingFacts DEF NextBucket
<1>0. PICK m : m = n + 1
  OBVIOUS
<1>2. m \in Nat /\ m = n + 1 /\ m - 1 = n /\ m > 1 /\ n \in 1..m
  BY <1>0, <1>1
<1>20. m \in Nat /\ m \in 1..m
  BY <1>0, <1>1
<1>3. PICK tn, c, d : tn = tables[n] /\ c = cursor[n] /\ d = tables[m]
  OBVIOUS
<1>4. PICK a : a = Front(tn, c.h + 1)
  OBVIOUS
<1>5. /\ c.i = 0 /\ c.h + 1 < tn.realsize
      /\ cursor' = [cursor EXCEPT ![n] = a]
      /\ hash' = hash /\ tables' = tables /\ intact' = intact
  BY <1>1, <1>3, <1>4 DEF NextBucket
<1>6. Resting(hash, tn, c, d) /\ Good(hash, tn) /\ Good(hash, d)
  BY <1>1, <1>2, <1>3
<1>7. CursorOK(tn, a) /\ Passed(tn, a) = Passed(tn, c) /\ Copied(tn, a) = Copied(tn, c)
  BY <1>4, <1>5, <1>6, NextFrontPassed DEF Resting, Good, Shaped
<1>8. Resting(hash, tn, a, d)
  BY <1>6, <1>7 DEF Resting
<1>9. PICK us, ds : us = tables' /\ ds = cursor'
  OBVIOUS
<1>10. us = [i \in 1..m |-> IF i = m THEN d ELSE tables[i]]
  BY <1>1, <1>2, <1>3, <1>5, <1>9
<1>11. ds = [i \in 1..n |-> IF i = n THEN a ELSE cursor[i]]
  BY <1>1, <1>5, <1>9
<1>12. ds = [i \in 1..(m - 1) |-> IF i = m - 1 THEN a ELSE cursor[i]]
  BY <1>2, <1>11
<1>13. /\ Chain(hash, tables, cursor, m)
       /\ m = 1 => Counted(d)
       /\ m > 1 => Resting(hash, tables[m - 1], a, d)
  BY <1>1, <1>2, <1>3, <1>8
<1>14. Chain(hash, us, ds, m)
  BY <1>20, <1>6, <1>10, <1>12, <1>13, ChainCut
<1>15. TabInv'
  BY <1>5, <1>9, <1>14, <1>20 DEF TabInv
<1> QED BY <1>5, <1>15, SameTable

\* The table that has grown, or hadd into the table that has.
LEMMA GrowthDoneStep ==
    ASSUME TabInv, GrowthDone
    PROVE  TabInv' /\ Entries(hash, table)' = Entries(hash, table)
<1>1. PICK n \in Nat :
             /\ Chain(hash, tables, cursor, n + 1)
             /\ n = Len(cursor) /\ n > 0 /\ n + 1 > 1 /\ n + 1 # 1
             /\ Last = tables[n + 1] /\ hash \in Hashes
             /\ Good(hash, tables[n]) /\ Good(hash, tables[n + 1])
             /\ Resting(hash, tables[n], cursor[n], tables[n + 1])
             /\ tables = [i \in 1..(n + 1) |-> tables[i]]
             /\ cursor = [i \in 1..n |-> cursor[i]]
             /\ n > 1 => Waiting(hash, tables[n - 1], cursor[n - 1], tables[n])
             /\ Counted(tables[1])
  BY GrowingFacts DEF GrowthDone
<1>0. PICK m : m = n + 1
  OBVIOUS
<1>2. m \in Nat /\ m = n + 1 /\ n \in 1..m
  BY <1>0, <1>1
<1>3. PICK tn, c, d : tn = tables[n] /\ c = cursor[n] /\ d = tables[m]
  OBVIOUS
<1>4. PICK g : g = WithBuckets(tn, d)
  OBVIOUS
<1>5. Grown(n) = g
  BY <1>1, <1>2, <1>3, <1>4 DEF Grown, WithBuckets
<1>6. PICK j : j = n - 1
  OBVIOUS
<1>7. PICK item : item = Moving(j)
  OBVIOUS
<1>8. /\ c.i = 0 /\ c.h + 1 = tn.realsize
      /\ \/ n = 1 /\ tables' = <<g>> /\ cursor' = <<>>
         \/ /\ n > 1
            /\ tables' = [i \in 1..n |-> IF i = n THEN Refree(g, item) ELSE tables[i]]
            /\ cursor' = [i \in 1..j |-> Moved(j)[i]]
      /\ hash' = hash /\ intact' = intact /\ intact
  <2>1. n = Len(cursor)
    BY <1>1
  <2>2. n = 1 => Grown(1) = g
    BY <1>5
  <2> QED BY <1>3, <1>5, <1>6, <1>7, <2>1, <2>2 DEF GrowthDone
<1>9. Resting(hash, tn, c, d) /\ Good(hash, tn) /\ Good(hash, d)
  BY <1>1, <1>2, <1>3
<1>10. /\ Good(hash, g) /\ Entries(hash, g) = Entries(hash, tn)
       /\ Cardinality(Places(g)) <= Cardinality(Places(tn))
       /\ Counted(tn) => Counted(g)
  BY <1>1, <1>4, <1>8, <1>9, GrownGood
<1>11. CASE n = 1 /\ tables' = <<g>> /\ cursor' = <<>>
  <2>1. tn = table /\ Counted(tn)
    BY <1>1, <1>3, <1>11 DEF table
  <2>2. Chain(hash, tables', cursor', 1) /\ tables'[1] = g
    BY <1>1, <1>10, <1>11, <2>1, OneTable
  <2>3. TabInv'
    BY <1>8, <2>2 DEF TabInv
  <2> QED BY <1>8, <1>10, <2>1, <2>2, <2>3 DEF table
<1>12. CASE /\ n > 1
            /\ tables' = [i \in 1..n |-> IF i = n THEN Refree(g, item) ELSE tables[i]]
            /\ cursor' = [i \in 1..j |-> Moved(j)[i]]
  <2>1. PICK tj, b : tj = tables[j] /\ b = cursor[j]
    OBVIOUS
  <2>2. j \in 1..m /\ j \in 1..n /\ j \in Nat /\ j > 0
    BY <1>2, <1>6, <1>12
  <2>3. Waiting(hash, tj, b, tn) /\ Good(hash, tj)
    <3>1. Good(hash, tj)
      BY <1>1, <1>2, <2>1, <2>2, ChainLens
    <3> QED BY <1>1, <1>3, <1>6, <1>12, <2>1, <3>1
  <2>4. item = Under(tj, b)
    BY <1>7, <2>1 DEF Moving, Under
  <2>5. PICK e : e = Refree(g, item)
    OBVIOUS
  <2>6. PICK a : a = Advanced(b)
    OBVIOUS
  <2>7. Good(hash, e) /\ Resting(hash, tj, a, e)
    BY <1>1, <1>9, <1>10, <2>3, <2>4, <2>5, <2>6, MovingRefreed
  <2>8. PICK us, ds : us = tables' /\ ds = cursor'
    OBVIOUS
  <2>9. us = [i \in 1..n |-> IF i = n THEN e ELSE tables[i]]
    BY <1>12, <2>5, <2>8
  <2>10. ds = [i \in 1..j |-> IF i = j THEN a ELSE cursor[i]]
    <3>1. Moved(j) = [cursor EXCEPT ![j] = [b EXCEPT !.i = @ - 1]]
      BY <2>1 DEF Moved
    <3>2. [b EXCEPT !.i = @ - 1] = a
      BY <2>6 DEF Advanced
    <3>3. ASSUME NEW i \in 1..j PROVE Moved(j)[i] = IF i = j THEN a ELSE cursor[i]
      <4>1. i \in DOMAIN cursor
        <5>1. i \in 1..n /\ DOMAIN cursor = 1..n
          BY <1>1, <1>6, <2>2
        <5> QED BY <5>1
      <4> QED BY <3>1, <3>2, <4>1
    <3> QED BY <1>12, <2>8, <3>3
  <2>11. ds = [i \in 1..(n - 1) |-> IF i = n - 1 THEN a ELSE cursor[i]]
    BY <1>6, <2>10
  <2>12. n > 1 => Resting(hash, tables[n - 1], a, e)
    BY <1>6, <2>1, <2>7
  <2>13. n = 1 => Counted(e)
    BY <1>12
  <2>14. Chain(hash, tables, cursor, m)
    BY <1>1, <1>2
  <2>15. Chain(hash, us, ds, n)
    BY <1>2, <2>7, <2>9, <2>11, <2>12, <2>13, <2>14, ChainCut
  <2>16. TabInv'
    BY <1>8, <2>8, <2>15 DEF TabInv
  <2>17. tables'[1] = tables[1]
    BY <1>12, <2>8, <2>9
  <2> QED BY <1>8, <2>16, <2>17, SameTable
<1> QED BY <1>8, <1>11, <1>12

-----------------------------------------------------------------------------
(* Theorems *)

LEMMA TabInvStays ==
    TabInv /\ UNCHANGED vars => TabInv' /\ UNCHANGED Entries(hash, table)
<1> SUFFICES ASSUME TabInv, UNCHANGED vars
             PROVE  TabInv' /\ UNCHANGED Entries(hash, table)
  OBVIOUS
<1>1. hash' = hash /\ tables' = tables /\ cursor' = cursor /\ intact' = intact
  BY DEF vars
<1>2. TabInv'
  BY <1>1 DEF TabInv
<1> QED BY <1>1, <1>2, SameTable

LEMMA TabInvNext == TabInv /\ [Next]_vars => TabInv'
<1> SUFFICES ASSUME TabInv, [Next]_vars PROVE TabInv'
  OBVIOUS
<1>1. CASE UNCHANGED vars
  BY <1>1, TabInvStays
<1>2. ASSUME NEW k \in Key, hfree(k) PROVE TabInv'
  BY <1>2, HfreeStep
<1>3. ASSUME NEW k \in Key, NEW v \in Val, hadd(k, v) PROVE TabInv'
  BY <1>3, HaddStep
<1>4. CASE Move
  BY <1>4, MoveStep
<1>5. CASE NextBucket
  BY <1>5, NextBucketStep
<1>6. CASE GrowthDone
  BY <1>6, GrowthDoneStep
<1> QED BY <1>1, <1>2, <1>3, <1>4, <1>5, <1>6 DEF Next

LEMMA TabInvAlways == Spec => []TabInv
<1>1. Init => TabInv
  BY TabInvInit
<1>2. TabInv /\ [Next]_vars => TabInv'
  BY TabInvNext
<1> QED BY <1>1, <1>2, PTL DEF Spec

LEMMA TabInvFirst ==
    ASSUME TabInv
    PROVE  /\ intact /\ hash \in Hashes /\ Good(hash, table) /\ Counted(table)
<1>1. PICK n \in Nat : Chain(hash, tables, cursor, n)
  BY DEF TabInv
<1>2. n > 0 /\ 1 \in 1..n
  BY <1>1 DEF Chain
<1> QED BY <1>1, <1>2 DEF TabInv, Chain, table

\* Every table of a growth in progress is a hash table, and _hgrow never looks
\* outside of its buckets; free items are never counted below zero.
THEOREM TableTypeCorrect == Spec => []TypeOK
<1>1. TabInv => TypeOK
  <2> SUFFICES ASSUME TabInv PROVE TypeOK
    OBVIOUS
  <2>1. PICK n \in Nat : Chain(hash, tables, cursor, n)
    BY DEF TabInv
  <2>2. /\ n > 0 /\ Len(tables) = n /\ Len(cursor) = n - 1 /\ n \in Nat
        /\ DOMAIN tables = 1..n /\ DOMAIN cursor = 1..(n - 1)
        /\ \A i \in 1..n : Good(hash, tables[i])
    BY <2>1, ChainLens
  <2>3. \A i \in DOMAIN tables : TableOK(tables[i])
    BY <2>2 DEF Good, Shaped
  <2>4. table.freecount \in Nat
    <3>1. Good(hash, table) /\ Counted(table)
      BY TabInvFirst
    <3>2. IsFiniteSet(Places(table)) /\ Live(table) \subseteq Places(table)
      BY <3>1, LiveArePlaces DEF Good
    <3>3. /\ Cardinality(Live(table)) <= Cardinality(Places(table))
          /\ Cardinality(Live(table)) \in Nat /\ Cardinality(Places(table)) \in Nat
      BY <3>2, FS_Subset, FS_CardinalityType
    <3>4. table.count \in Nat /\ table.freecount \in Int
      BY <3>1 DEF Good, Shaped, TableOK
    <3> QED BY <3>1, <3>3, <3>4 DEF Counted
  <2>5. ASSUME NEW i \in DOMAIN cursor
        PROVE  /\ cursor[i].h \in DOMAIN tables[i].bucket
               /\ cursor[i].i \in 0..Len(tables[i].bucket[cursor[i].h])
    <3>1. CASE i = n - 1
      <4>1. n > 1
        BY <2>2, <3>1
      <4>2. Resting(hash, tables[n - 1], cursor[n - 1], tables[n])
        BY <2>1, <4>1 DEF Chain
      <4>3. CursorOK(tables[i], cursor[i])
        BY <3>1, <4>2 DEF Resting
      <4> QED BY <4>3 DEF CursorOK
    <3>2. CASE i # n - 1
      <4>1. i \in 1..(n - 2)
        BY <2>2, <3>2
      <4>2. CursorOK(tables[i], cursor[i])
        BY <2>1, <4>1 DEF Chain, Waiting
      <4> QED BY <4>2 DEF CursorOK
    <3> QED BY <3>1, <3>2
  <2>6. hash \in [Key -> 0..MaxHash] /\ intact \in BOOLEAN
    <3>1. intact = TRUE
      BY DEF TabInv
    <3> QED BY <3>1, TabInvFirst DEF Hashes
  <2>7. Len(tables) = Len(cursor) + 1
    BY <2>2
  <2> QED BY <2>3, <2>4, <2>5, <2>6, <2>7 DEF TypeOK
<1> QED BY <1>1, TabInvAlways, PTL

\* hcount is the number of items in use.
THEOREM TableCountExact == Spec => []CountExact
<1>1. TabInv => CountExact
  BY TabInvFirst DEF CountExact, Counted
<1> QED BY <1>1, TabInvAlways, PTL

\* _hgrow moves every item, those that are free included, and hadd never refuses
\* one of them: growing does not stop half way.
THEOREM TableNeverGivesUp == Spec => []GrowthNeverGivesUp
<1>1. TabInv => GrowthNeverGivesUp
  BY DEF GrowthNeverGivesUp, TabInv
<1> QED BY <1>1, TabInvAlways, PTL

\* henum meets every key in use once.
THEOREM TableKeysOnce == Spec => []KeysOnce
<1>1. TabInv => KeysOnce
  <2> SUFFICES ASSUME TabInv, NEW p \in Live(table), NEW q \in Live(table),
                      At(table, p).key = At(table, q).key
               PROVE  p = q
    BY DEF KeysOnce
  <2>1. hash \in Hashes /\ Good(hash, table)
    BY TabInvFirst
  <2> QED BY <2>1, LiveHas
<1> QED BY <1>1, TabInvAlways, PTL

-----------------------------------------------------------------------------
(* The partial map *)

DomainOf(E) == {k \in Key : \E v \in Val : <<k, v>> \in E}
ValueIn(E, k) == CHOOSE v \in Val : <<k, v>> \in E
MapOf(E) == [k \in DomainOf(E) |-> ValueIn(E, k)]

\* What hfind finds, as Map has it.
MapFound ==
    [k \in Found |->
       LET i == CHOOSE x \in Find(table, k) : TRUE
       IN  table.bucket[Slot(table, k)][i].val]

\* At most one value of a key.
SingleValued(E) ==
    /\ E \subseteq Key \X Val
    /\ \A k, v, w : <<k, v>> \in E /\ <<k, w>> \in E => v = w

\* The entries of a table are a function from keys to values.
LEMMA EntriesSingle ==
    ASSUME NEW H \in Hashes, NEW t, Good(H, t)
    PROVE  SingleValued(Entries(H, t))
<1> SUFFICES ASSUME NEW k, NEW v, NEW w,
                    <<k, v>> \in Entries(H, t), <<k, w>> \in Entries(H, t)
             PROVE  v = w
  BY DEF SingleValued, Entries
<1>1. k \in Key /\ Has(H, t, k, v) /\ Has(H, t, k, w)
  BY EntriesOf
<1>2. PICK i : i \in Holding(t.bucket[Home(H, t, k)], k)
  BY <1>1 DEF Has
<1> QED BY <1>1, <1>2, FoundOnce

LEMMA MapOfValue ==
    ASSUME NEW E, SingleValued(E), NEW k \in Key, NEW v \in Val, <<k, v>> \in E
    PROVE  k \in DomainOf(E) /\ MapOf(E)[k] = v
<1>1. k \in DomainOf(E)
  BY DEF DomainOf
<1>2. ValueIn(E, k) = v
  BY DEF SingleValued, ValueIn
<1> QED BY <1>1, <1>2 DEF MapOf

\* What hfind finds are the entries.
LEMMA FoundEntries == TabInv => MapFound = MapOf(Entries(hash, table))
<1> SUFFICES ASSUME TabInv PROVE MapFound = MapOf(Entries(hash, table))
  OBVIOUS
<1>1. hash \in Hashes /\ Good(hash, table)
  BY TabInvFirst
<1>2. PICK E : E = Entries(hash, table)
  OBVIOUS
<1>3. SingleValued(E)
  BY <1>1, <1>2, EntriesSingle
<1>4. ASSUME NEW k \in Found
      PROVE  k \in DomainOf(E) /\ MapFound[k] = MapOf(E)[k]
  <2>1. k \in Key /\ Find(table, k) # {}
    BY DEF Found
  <2>2. PICK i : i \in Holding(table.bucket[Home(hash, table, k)], k)
    BY <2>1 DEF Find, Slot, Home
  <2>3. /\ Holding(table.bucket[Home(hash, table, k)], k) = {i}
        /\ table.bucket[Home(hash, table, k)][i].val \in Val
        /\ Has(hash, table, k, table.bucket[Home(hash, table, k)][i].val)
    BY <1>1, <2>1, <2>2, FoundOnce
  <2>4. Slot(table, k) = Home(hash, table, k) /\ Find(table, k) = {i}
    BY <2>3 DEF Find, Slot, Home
  <2>5. PICK v \in Val : v = table.bucket[Home(hash, table, k)][i].val
    BY <2>3
  <2>6. MapFound[k] = v
    <3>1. (CHOOSE x \in Find(table, k) : TRUE) = i
      BY <2>4
    <3> QED BY <2>4, <2>5, <3>1 DEF MapFound
  <2>7. <<k, v>> \in E
    BY <1>2, <2>1, <2>3, <2>5, EntriesOf
  <2> QED BY <1>3, <2>1, <2>6, <2>7, MapOfValue
<1>5. ASSUME NEW k \in DomainOf(E) PROVE k \in Found
  <2>1. PICK v \in Val : k \in Key /\ <<k, v>> \in E
    BY DEF DomainOf
  <2>2. Has(hash, table, k, v)
    BY <1>2, <2>1, EntriesOf
  <2>3. Find(table, k) # {}
    BY <2>2 DEF Has, Find, Slot, Home
  <2> QED BY <2>1, <2>3 DEF Found
<1>6. DomainOf(E) = Found
  BY <1>4, <1>5
<1>7. MapFound = [k \in Found |-> MapFound[k]]
  BY DEF MapFound
<1>8. MapOf(E) = [k \in DomainOf(E) |-> MapOf(E)[k]]
  BY DEF MapOf
<1>9. MapFound = MapOf(E)
  BY <1>4, <1>6, <1>7, <1>8
<1> QED BY <1>2, <1>9

\* An entry more, or less, is the map with a key more, or less.
LEMMA EntryAdded ==
    ASSUME NEW E, SingleValued(E), NEW k \in Key, NEW v \in Val,
           \A w : <<k, w>> \notin E, NEW F, F = E \cup {<<k, v>>}
    PROVE  /\ k \notin DOMAIN MapOf(E)
           /\ MapOf(F) = [x \in DOMAIN MapOf(E) \cup {k} |->
                            IF x = k THEN v ELSE MapOf(E)[x]]
<1>1. DOMAIN MapOf(E) = DomainOf(E) /\ DOMAIN MapOf(F) = DomainOf(F)
  BY DEF MapOf
<1>2. DomainOf(F) = DomainOf(E) \cup {k} /\ k \notin DomainOf(E)
  BY DEF DomainOf
<1>3. SingleValued(F)
  BY DEF SingleValued
<1>4. MapOf(F)[k] = v
  <2>1. <<k, v>> \in F
    OBVIOUS
  <2> QED BY <1>3, <2>1, MapOfValue
<1>5. ASSUME NEW x \in DomainOf(E) PROVE MapOf(F)[x] = MapOf(E)[x]
  <2>1. PICK w \in Val : x \in Key /\ <<x, w>> \in E
    BY DEF DomainOf
  <2>2. <<x, w>> \in F
    BY <2>1
  <2> QED BY <1>3, <2>1, <2>2, MapOfValue
<1>6. MapOf(F) = [x \in DomainOf(F) |-> MapOf(F)[x]]
  BY DEF MapOf
<1>7. \A x \in DomainOf(F) : MapOf(F)[x] = IF x = k THEN v ELSE MapOf(E)[x]
  BY <1>2, <1>4, <1>5
<1> QED BY <1>1, <1>2, <1>6, <1>7

LEMMA EntryTaken ==
    ASSUME NEW E, SingleValued(E), NEW k \in Key, NEW v \in Val,
           <<k, v>> \in E, NEW F, F = E \ {<<k, v>>}
    PROVE  /\ k \in DOMAIN MapOf(E)
           /\ MapOf(F) = [x \in DOMAIN MapOf(E) \ {k} |-> MapOf(E)[x]]
<1>1. DOMAIN MapOf(E) = DomainOf(E) /\ DOMAIN MapOf(F) = DomainOf(F)
  BY DEF MapOf
<1>2. DomainOf(F) = DomainOf(E) \ {k} /\ k \in DomainOf(E)
  <2>1. \A w : <<k, w>> \notin F
    BY DEF SingleValued
  <2>2. \A x, w : x # k => (<<x, w>> \in F <=> <<x, w>> \in E)
    OBVIOUS
  <2> QED BY <2>1, <2>2 DEF DomainOf
<1>3. SingleValued(F)
  BY DEF SingleValued
<1>4. ASSUME NEW x \in DomainOf(F) PROVE MapOf(F)[x] = MapOf(E)[x]
  <2>1. PICK w \in Val : x \in Key /\ <<x, w>> \in F
    BY DEF DomainOf
  <2>2. <<x, w>> \in E
    BY <2>1
  <2> QED BY <1>3, <2>1, <2>2, MapOfValue
<1>5. MapOf(F) = [x \in DomainOf(F) |-> MapOf(F)[x]]
  BY DEF MapOf
<1> QED BY <1>1, <1>2, <1>4, <1>5

LEMMA MapBegins == Init => Map!Init
<1> SUFFICES ASSUME Init PROVE Map!Init
  OBVIOUS
<1>1. TabInv /\ Entries(hash, table) = {}
  BY TabInvInit
<1>2. MapFound = MapOf(Entries(hash, table))
  BY <1>1, FoundEntries
<1>3. DomainOf(Entries(hash, table)) = {}
  BY <1>1 DEF DomainOf
<1>4. MapFound = [k \in {} |-> CHOOSE v \in Val : TRUE]
  BY <1>2, <1>3 DEF MapOf
<1> QED BY <1>4 DEF MapFound, Map!Init

\* Every step is one of the partial map or changes nothing that hfind finds.
LEMMA MapSteps == TabInv /\ [Next]_vars => [Map!Next]_MapFound
<1> SUFFICES ASSUME TabInv, [Next]_vars PROVE [Map!Next]_MapFound
  OBVIOUS
<1>1. TabInv'
  BY TabInvNext
<1>2. PICK E, F : E = Entries(hash, table) /\ F = Entries(hash, table)'
  OBVIOUS
<1>3. MapFound = MapOf(E)
  BY <1>2, FoundEntries
<1>4. MapFound' = MapOf(F)
  <2>1. (MapFound = MapOf(Entries(hash, table)))'
    BY <1>1, FoundEntries, PTL
  <2> QED BY <1>2, <2>1
<1>5. SingleValued(E)
  BY <1>2, TabInvFirst, EntriesSingle
<1>6. F = E => MapFound' = MapFound
  BY <1>3, <1>4
<1>7. CASE UNCHANGED vars
  BY <1>2, <1>6, <1>7, TabInvStays
<1>8. CASE Move \/ NextBucket \/ GrowthDone
  BY <1>2, <1>6, <1>8, MoveStep, NextBucketStep, GrowthDoneStep
<1>9. ASSUME NEW k \in Key, hfree(k) PROVE [Map!Next]_MapFound
  <2>1. PICK v \in Val : <<k, v>> \in E /\ F = E \ {<<k, v>>}
    BY <1>2, <1>9, HfreeStep
  <2>2. /\ k \in DOMAIN MapOf(E)
        /\ MapOf(F) = [x \in DOMAIN MapOf(E) \ {k} |-> MapOf(E)[x]]
    BY <1>5, <2>1, EntryTaken
  <2>3. /\ k \in DOMAIN MapFound
        /\ MapFound' = [x \in DOMAIN MapFound \ {k} |-> MapFound[x]]
    BY <1>3, <1>4, <2>2
  <2>4. Map!Remove(k)
    BY <2>3 DEF MapFound, Map!Remove
  <2> QED BY <2>4 DEF Map!Next
<1>10. ASSUME NEW k \in Key, NEW v \in Val, hadd(k, v) PROVE [Map!Next]_MapFound
  <2>1. F = E \cup {<<k, v>>} /\ \A w : <<k, w>> \notin E
    BY <1>2, <1>10, HaddStep
  <2>2. /\ k \notin DOMAIN MapOf(E)
        /\ MapOf(F) = [x \in DOMAIN MapOf(E) \cup {k} |->
                         IF x = k THEN v ELSE MapOf(E)[x]]
    BY <1>5, <2>1, EntryAdded
  <2>3. /\ k \notin DOMAIN MapFound
        /\ MapFound' = [x \in DOMAIN MapFound \cup {k} |->
                          IF x = k THEN v ELSE MapFound[x]]
    BY <1>3, <1>4, <2>2
  <2>4. Map!Add(k, v)
    BY <2>3 DEF MapFound, Map!Add
  <2> QED BY <2>4 DEF Map!Next
<1> QED BY <1>7, <1>8, <1>9, <1>10 DEF Next

\* Whatever was freed, recycled and moved, and while the table grows, what hfind
\* finds changes as a partial map does: hadd adds a key that was absent, hfree
\* takes one away, and a step of _hgrow changes nothing.
THEOREM TableRefined == Spec => IsPartialMap
<1>1. Init => Map!Init
  BY MapBegins
<1>2. TabInv /\ [Next]_vars => [Map!Next]_MapFound
  BY MapSteps
<1> QED
  BY <1>1, <1>2, TabInvAlways, PTL DEF Spec, Map!Spec, IsPartialMap, MapFound
=============================================================================
