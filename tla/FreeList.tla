------------------------------- MODULE FreeList -------------------------------
(***************************************************************************)
(* The pools from which pits and contexts are taken (yappi/freelist.c): an *)
(* array of chunks of which those up to the head are free.  A pool that is *)
(* empty doubles: as many fresh chunks go under the ones handed out.       *)
(*                                                                         *)
(* _create_pit and _create_ctx take chunks, _profile_thread gives the one  *)
(* it took last back when it cannot store it, and clear_stats destroys the *)
(* whole pool: every chunk in the array is freed, whoever has it.          *)
(***************************************************************************)
EXTENDS Integers, FiniteSets

CONSTANTS
    PoolSize,   \* flcreate(chunksize, size)
    MaxPool     \* bound: the size to which a pool grows

ASSUME PoolAssumption == PoolSize \in Nat \ {0} /\ MaxPool \in Nat

VARIABLES
    flitems, flhead, flsize,   \* the items from 0, head and size of the pool
    allocated,                 \* history: the chunks allocated are 0..allocated-1
    owned                      \* history: chunks taken and not given back

poolVars == <<flitems, flhead, flsize, allocated, owned>>

\* flcreate
PoolInit ==
    /\ flitems = [i \in 0..(PoolSize - 1) |-> i]
    /\ flhead = PoolSize - 1
    /\ flsize = PoolSize
    /\ allocated = PoolSize
    /\ owned = {}

\* flget from a pool with a free chunk.
Take ==
    /\ flhead >= 0
    /\ flhead' = flhead - 1
    /\ owned' = owned \cup {flitems[flhead]}
    /\ UNCHANGED <<flitems, flsize, allocated>>

Fresh(i) == allocated + i

\* Mutants of Doubled: the old chunks come first; the old chunks are not kept.
DoubledOldFirst ==
    [i \in 0..(2 * flsize - 1) |->
        IF i < flsize THEN flitems[i] ELSE Fresh(i - flsize)]
DoubledAllFresh == [i \in 0..(2 * flsize - 1) |-> Fresh(i)]

\* _flgrow: fresh chunks first, then the old ones, all of them handed out.
Doubled ==
    [i \in 0..(2 * flsize - 1) |->
        IF i < flsize THEN Fresh(i) ELSE flitems[i - flsize]]

\* flget from a pool without a free chunk.
GrowAndTake ==
    /\ flhead < 0
    /\ 2 * flsize <= MaxPool
    /\ flitems' = Doubled
    /\ flsize' = 2 * flsize
    /\ allocated' = allocated + flsize
    /\ flhead' = flsize - 2
    /\ owned' = owned \cup {flitems'[flsize - 1]}

\* flput of the chunk, of those handed out, that was taken last; the code does
\* so only right after it has taken it.
GiveBack ==
    /\ flhead <= flsize - 2
    /\ LET chunk == flitems[flhead + 1]
       IN  /\ flitems' = [flitems EXCEPT ![flhead + 1] = chunk]
           /\ owned' = owned \ {chunk}
    /\ flhead' = flhead + 1
    /\ UNCHANGED <<flsize, allocated>>

PoolNext == Take \/ GrowAndTake \/ GiveBack

PoolSpec == PoolInit /\ [][PoolNext]_poolVars

-----------------------------------------------------------------------------
\* The free chunks of a pool have no owner: flget never hands out a chunk that
\* holds a live pit or context, before or after the pool has grown.
FreeChunksUnowned ==
    /\ \A i \in 0..flhead : flitems[i] \notin owned
    /\ \A i, j \in 0..flhead : flitems[i] = flitems[j] => i = j

\* fldestroy frees every chunk that was allocated, and each of them once.
DestroyFreesAll ==
    /\ {flitems[i] : i \in 0..(flsize - 1)} = 0..(allocated - 1)
    /\ \A i, j \in 0..(flsize - 1) : flitems[i] = flitems[j] => i = j
=============================================================================
