------------------------------- MODULE HashTab -------------------------------
(***************************************************************************)
(* The hash table (yappi/hashtab.c) behind the tables of contexts, tags,   *)
(* pits and recursion levels: chained buckets, items that hfree only marks *)
(* and hadd recycles, and a table that doubles when it is three quarters   *)
(* full.  Every hash function is tried: hash is any function of the keys.  *)
(*                                                                         *)
(* hadd and _hgrow call each other: growing adds the items to a larger     *)
(* table, which may have to grow meanwhile.  The calls in progress are a   *)
(* stack of tables, and one item is moved in one step; no other operation  *)
(* begins before hadd has returned.                                        *)
(***************************************************************************)
EXTENDS Integers, Sequences, FiniteSets

CONSTANTS
    Key, Val,
    MaxHash,      \* the hash functions have the values 0..MaxHash
    InitialSize   \* HSIZE(logsize) of htcreate(logsize)

ASSUME HashAssumption == MaxHash \in Nat /\ InitialSize \in Nat \ {0}

VARIABLES
    hash,        \* HHASH before the mask is applied
    tables,      \* the _htab, and while it grows the dummy its items move to,
                 \* and while that grows the dummy of the dummy, and so on
    cursor,      \* i and p of each _hgrow in progress: the item it moves next
    intact       \* no growth gave up half way, its items freed

vars == <<hash, tables, cursor, intact>>

table == tables[1]
Last == tables[Len(tables)]
Idle == Len(tables) = 1

\* htcreate.  The items of a bucket stand in the order in which they were linked
\* to its front: walking a bucket goes from its last item to its first.
Created(realsize) ==
    [realsize |-> realsize, count |-> 0, freecount |-> 0,
     bucket |-> [h \in 0..(realsize - 1) |-> <<>>]]

Slot(t, k) == hash[k] % t.realsize

\* Mutant of Holding: only the first item of the walk is looked at.
HoldingFirst(b, k) == {i \in DOMAIN b \cap {Len(b)} : b[i].key = k /\ ~b[i].free}

\* The places of a bucket that satisfy the tests of hfind and hadd.
Holding(b, k) == {i \in DOMAIN b : b[i].key = k /\ ~b[i].free}

Recyclable(b) == {i \in DOMAIN b : b[i].free}

\* Mutant of Recycled: the first free item of the walk is taken.
RecycledFirst(b) == CHOOSE i \in Recyclable(b) : \A j \in Recyclable(b) : i >= j

\* hadd walks through the whole bucket: the last free item is taken.
Recycled(b) == CHOOSE i \in Recyclable(b) : \A j \in Recyclable(b) : i <= j

\* The bucket with one more item, which a free one makes room for.
Stored(b, item) ==
    IF Recyclable(b) # {} THEN [b EXCEPT ![Recycled(b)] = item] ELSE Append(b, item)

Used(k, v) == [key |-> k, val |-> v, free |-> FALSE]

\* Mutants of Put: a new item is taken off the free ones; the recycled item is
\* still counted as a free one.
PutAlwaysRecycles(t, k, v) ==
    [t EXCEPT !.bucket[Slot(t, k)] = Stored(@, Used(k, v)), !.freecount = @ - 1]
PutUncounted(t, k, v) ==
    LET new == IF Recyclable(t.bucket[Slot(t, k)]) = {} THEN 1 ELSE 0
    IN  [t EXCEPT !.bucket[Slot(t, k)] = Stored(@, Used(k, v)), !.count = @ + new]

\* The part of hadd that stores a key which is absent.
Put(t, k, v) ==
    LET new == IF Recyclable(t.bucket[Slot(t, k)]) = {} THEN 1 ELSE 0
    IN  [t EXCEPT !.bucket[Slot(t, k)] = Stored(@, Used(k, v)),
                  !.count = @ + new, !.freecount = @ - (1 - new)]

\* (count - freecount) / realsize >= HLOADFACTOR
Loaded(t) == 4 * (t.count - t.freecount) >= 3 * t.realsize

\* hfind
Find(t, k) == Holding(t.bucket[Slot(t, k)], k)

\* The head of a bucket, from which _hgrow goes on.
Front(t, h) == [h |-> h, i |-> Len(t.bucket[h])]

Init ==
    /\ hash \in [Key -> 0..MaxHash]
    /\ tables = <<Created(InitialSize)>>
    /\ cursor = <<>>
    /\ intact = TRUE

\* hadd has put an item into the last table, which is now t and must grow:
\* _hgrow makes its dummy and begins with the first bucket.
Grow(t) ==
    /\ Loaded(t)
    /\ tables' = Append([tables EXCEPT ![Len(tables)] = t], Created(2 * t.realsize))
    /\ cursor' = Append(cursor, Front(t, 0))

\* hadd of a key that is there does nothing.
hadd(k, v) ==
    /\ Idle /\ intact
    /\ Find(table, k) = {}
    /\ LET t == Put(table, k, v)
       IN  \/ Grow(t)
           \/ ~Loaded(t) /\ tables' = <<t>> /\ UNCHANGED cursor
    /\ UNCHANGED <<hash, intact>>

\* hfree of the item that hfind returned.
hfree(k) ==
    /\ Idle /\ intact
    /\ \E i \in Find(table, k) :
         tables' = <<[table EXCEPT !.bucket[Slot(table, k)][i].free = TRUE,
                                   !.freecount = @ + 1]>>
    /\ UNCHANGED <<hash, cursor, intact>>

\* hfind in the dummy, then it->free = p->free.
Refree(t, item) ==
    LET h == Slot(t, item.key)
        i == CHOOSE x \in Find(t, item.key) : TRUE
    IN  [t EXCEPT !.bucket[h][i].free = item.free]

\* The item that the n-th _hgrow moves, and its place once it has.
Moving(n) == tables[n].bucket[cursor[n].h][cursor[n].i]
Moved(n) == [cursor EXCEPT ![n].i = @ - 1]

\* The last _hgrow adds an item, a free one too, to its dummy.  hadd returns 0 if
\* it finds the key there, and so does every _hgrow and hadd in progress.
Move ==
    LET n    == Len(cursor)
        item == Moving(n)
        t    == Put(Last, item.key, item.val)
    IN  /\ ~Idle /\ intact
        /\ cursor[n].i > 0
        /\ intact' = (Find(Last, item.key) = {})
        /\ IF ~intact' THEN UNCHANGED <<tables, cursor>>
           ELSE \/ Grow(t)
                \/ /\ ~Loaded(t)
                   /\ tables' = [tables EXCEPT ![n + 1] = Refree(t, item)]
                   /\ cursor' = Moved(n)
        /\ UNCHANGED hash

NextBucket ==
    LET n == Len(cursor)
        h == cursor[n].h + 1
    IN  /\ ~Idle /\ intact
        /\ cursor[n].i = 0 /\ h < tables[n].realsize
        /\ cursor' = [cursor EXCEPT ![n] = Front(tables[n], h)]
        /\ UNCHANGED <<hash, tables, intact>>

\* Mutant of Grown: the mask stays.
GrownInBucketsOnly(n) == [tables[n] EXCEPT !.bucket = Last.bucket]

\* The last _hgrow has moved every item: only the buckets and the size are taken
\* from the dummy.
Grown(n) ==
    [tables[n] EXCEPT !.bucket = Last.bucket, !.realsize = Last.realsize]

\* If the table that has grown is a dummy itself, hadd returns to the _hgrow that
\* called it.
GrowthDone ==
    LET n == Len(cursor)
        m == n - 1
    IN  /\ ~Idle /\ intact
        /\ cursor[n].i = 0 /\ cursor[n].h + 1 = tables[n].realsize
        /\ \/ /\ n = 1
              /\ tables' = <<Grown(1)>>
              /\ cursor' = <<>>
           \/ /\ n > 1
              /\ tables' = [i \in 1..n |-> IF i = n THEN Refree(Grown(n), Moving(m))
                                           ELSE tables[i]]
              /\ cursor' = [i \in 1..m |-> Moved(m)[i]]
        /\ UNCHANGED <<hash, intact>>

Next ==
    \/ \E k \in Key : hfree(k) \/ \E v \in Val : hadd(k, v)
    \/ Move
    \/ NextBucket
    \/ GrowthDone

Spec == Init /\ [][Next]_vars

-----------------------------------------------------------------------------
Item == [key: Key, val: Val, free: BOOLEAN]

TableOK(t) ==
    /\ t.realsize \in Nat \ {0} /\ t.count \in Nat /\ t.freecount \in Int
    /\ DOMAIN t.bucket = 0..(t.realsize - 1)
    /\ \A h \in DOMAIN t.bucket : t.bucket[h] \in Seq(Item)

TypeOK ==
    /\ hash \in [Key -> 0..MaxHash]
    /\ \A n \in DOMAIN tables : TableOK(tables[n])
    /\ table.freecount \in Nat
    /\ Len(tables) = Len(cursor) + 1
    /\ \A n \in DOMAIN cursor :
         /\ cursor[n].h \in DOMAIN tables[n].bucket
         /\ cursor[n].i \in 0..Len(tables[n].bucket[cursor[n].h])
    /\ intact \in BOOLEAN

\* Where the items of a table are, and those that henum passes on.
Places(t) == UNION {{<<h, i>> : i \in DOMAIN t.bucket[h]} : h \in DOMAIN t.bucket}
At(t, p) == t.bucket[p[1]][p[2]]
Live(t) == {p \in Places(t) : ~At(t, p).free}

\* hcount is the number of items in use, although growing the table may lose
\* free items without counting them.
CountExact == table.count - table.freecount = Cardinality(Live(table))

\* Growing succeeds whenever memory does: no key is met twice among the items
\* that are moved, so no table is left with its items freed.
GrowthNeverGivesUp == intact

\* henum meets every key in use once.
KeysOnce ==
    \A p, q \in Live(table) : At(table, p).key = At(table, q).key => p = q

\* What hfind finds is a partial map, whatever was freed, recycled and moved.
Found == {k \in Key : Find(table, k) # {}}
Map == INSTANCE PartialMap WITH
    map <- [k \in Found |->
              LET i == CHOOSE x \in Find(table, k) : TRUE
              IN  table.bucket[Slot(table, k)][i].val]
IsPartialMap == Map!Spec
=============================================================================
