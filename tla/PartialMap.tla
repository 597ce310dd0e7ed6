------------------------------ MODULE PartialMap ------------------------------
(***************************************************************************)
(* What a client of the hash table relies on: a partial map.  hadd adds a  *)
(* key that is absent and does nothing for one that is present; hfree      *)
(* takes the key of an item away.                                          *)
(***************************************************************************)
CONSTANTS Key, Val

VARIABLE map

Init == map = [k \in {} |-> CHOOSE v \in Val : TRUE]

Add(k, v) ==
    /\ k \notin DOMAIN map
    /\ map' = [x \in DOMAIN map \cup {k} |-> IF x = k THEN v ELSE map[x]]

Remove(k) ==
    /\ k \in DOMAIN map
    /\ map' = [x \in DOMAIN map \ {k} |-> map[x]]

Next == \E k \in Key : Remove(k) \/ \E v \in Val : Add(k, v)

Spec == Init /\ [][Next]_map
=============================================================================
