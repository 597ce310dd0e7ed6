----------------------------- MODULE MCContainers -----------------------------
(***************************************************************************)
(* An instance for TLC of the three containers of yappi: the hash table,   *)
(* the call stack and the pool.  They share nothing: each behaviour uses   *)
(* one of them and leaves the other two as they were made.                 *)
(***************************************************************************)
EXTENDS HashTab, CallStack, FreeList, TLC

VARIABLE used   \* the container of this behaviour

ContainersInit ==
    /\ used \in {"table", "stack", "pool"}
    /\ Init
    /\ used # "table" => hash = [k \in Key |-> 0]
    /\ StackInit
    /\ PoolInit

ContainersNext ==
    /\ UNCHANGED used
    /\ \/ used = "table" /\ Next /\ UNCHANGED <<stackVars, poolVars>>
       \/ used = "stack" /\ StackNext /\ UNCHANGED <<vars, poolVars>>
       \/ used = "pool" /\ PoolNext /\ UNCHANGED <<vars, stackVars>>

ContainersSpec ==
    ContainersInit /\ [][ContainersNext]_<<used, vars, stackVars, poolVars>>

\* Every hash function is tried, so that keys, and values, are alike.
KeyValSymmetry == Permutations(Key) \cup Permutations(Val)
=============================================================================
