------------------------------ MODULE Statistics ------------------------------
(***************************************************************************)
(* The objects that hold function statistics (yappi/yappi.py: YFuncStats,  *)
(* YChildFuncStats): reading a session, saving to a file, adding files.    *)
(*                                                                         *)
(* A session holds records: a function has one in every context it ran in, *)
(* each with an index of its own, and names its callees by their indexes.  *)
(* An object merges the records of a function under its full name, keeps a *)
(* second table that finds them by index, and gives functions that come    *)
(* from a file new indexes.  Call counts stand for all that is summed.     *)
(***************************************************************************)
EXTENDS Naturals, SequencesExt, FiniteSets

CONSTANTS
    Fn,        \* full names of functions
    Session,   \* what the profiler may hold: a clock and records of functions
    File,
    NoClock,   \* None
    Filter,    \* sets of indexes whose records a filter lets pass
    MaxIndex,  \* bound: indexes that an object has given out
    MaxCalls   \* bound: calls of a function in an object

\* What _pitenumstat reports of a record: calls, and callees with the calls of
\* them.  The profiler counts indexes up.
Kid == [index: Nat, ncall: Nat]
Record == [index: Nat, fn: Fn, ncall: Nat, kids: Seq(Kid)]

ASSUME SessionAssumption ==
    /\ IsFiniteSet(Fn)
    /\ \A s \in Session :
         /\ s.clock # NoClock /\ s.pits \in Seq(Record)
         /\ \A i, j \in DOMAIN s.pits : s.pits[i].index = s.pits[j].index => i = j

VARIABLES
    stats,     \* the object: its table, _clock_type and _idx_max
    files      \* the table and clock type of each file that was written

vars == <<stats, files>>

\* A YStatsIndexable: its items by full name (_as_dict, _as_list) and the
\* function that _additional_indexing finds for an index.  An item that was
\* merged into another one is still found, and stands for its function.
NoTable == [items |-> <<>>, byIndex |-> <<>>]
NewStats == [table |-> NoTable, clock |-> NoClock, idxMax |-> 0]

Known(table) == DOMAIN table.items

Init ==
    /\ stats = NewStats
    /\ files = <<>>

-----------------------------------------------------------------------------
\* YChildFuncStat.__add__
PlusChild(child, other) == [child EXCEPT !.ncall = @ + other.ncall]

\* YFuncStat.__add__ while the children are still tuples
PlusRecord(stat, other) ==
    [stat EXCEPT !.ncall = @ + other.ncall, !.children = @ \o other.children]

\* What += means depends on the class of the item.
Increased(stat, other) ==
    IF "children" \in DOMAIN stat THEN PlusRecord(stat, other)
    ELSE PlusChild(stat, other)

\* setdefault of a dictionary: a key keeps the value that it has.
SetDefault(dict, key, value) ==
    [k \in DOMAIN dict \cup {key} |-> IF k \in DOMAIN dict THEN dict[k] ELSE value]

\* append
Appended(table, f, item) ==
    [items   |-> IF f \in Known(table)
                 THEN [table.items EXCEPT ![f] = Increased(@, item)]
                 ELSE SetDefault(table.items, f, item),
     byIndex |-> SetDefault(table.byIndex, item.index, f)]

\* One item after the other.
Entry(f, item) == [fn |-> f, item |-> item]
AppendedAll(table, entries) ==
    MapThenFoldSet(LAMBDA e, t : Appended(t, e.fn, e.item), table,
                   LAMBDA k : entries[k], LAMBDA places : Max(places), DOMAIN entries)

\* The callbacks of one enumeration, for the records that pass the filters.
Enumerated(records, kept) ==
    LET passed == {k \in DOMAIN records : records[k].index \in kept}
    IN  AppendedAll(NoTable, [k \in passed |->
          Entry(records[k].fn, [index    |-> records[k].index,
                                ncall    |-> records[k].ncall,
                                children |-> records[k].kids])])

\* Callees that were filtered out are dropped.
Converted(table, kids) ==
    LET valid == {k \in DOMAIN kids : kids[k].index \in DOMAIN table.byIndex}
    IN  AppendedAll(NoTable, [k \in valid |->
          Entry(table.byIndex[kids[k].index], kids[k])])

WithChildren(table) ==
    [table EXCEPT !.items = [f \in Known(table) |->
       [table.items[f] EXCEPT !.children = Converted(table, @)]]]

\* _enumerator holds the greatest index ever given out.
IdxMax(records, kept, i) == Max({i} \cup ({r.index : r \in Range(records)} \cap kept))

\* YFuncStats.get: session s, whose records with an index in kept pass the
\* filters (functions of yappi itself never do).
Get(s, kept) ==
    /\ stats' = [table  |-> WithChildren(Enumerated(s.pits, kept)),
                 clock  |-> s.clock,
                 idxMax |-> IdxMax(s.pits, kept, stats.idxMax)]
    /\ UNCHANGED files

-----------------------------------------------------------------------------
\* Mutant of Renumbered: the index of the file is kept.
NotRenumbered(table, order, i) ==
    AppendedAll(stats.table, [k \in DOMAIN order |->
      Entry(order[k], table.items[order[k]])])

\* Functions that the object does not have yet are appended, in the order of
\* the file, with new indexes from i on.
Renumbered(table, order, i) ==
    AppendedAll(stats.table, [k \in DOMAIN order |->
      Entry(order[k], [table.items[order[k]] EXCEPT !.index = i + k])])

\* Mutant of ChildrenFixed
ChildrenUnfixed(children, table) == children

\* A child has the index of its function in the object.  The children's own
\* table by index is left alone.
ChildrenFixed(children, table) ==
    [children EXCEPT !.items = [g \in Known(children) |->
       [children.items[g] EXCEPT !.index = table.items[g].index]]]

\* Mutant of ChildrenMerged: children that are new to the function are left out.
ChildrenKnownMerged(ours, others) ==
    [ours EXCEPT !.items = [g \in Known(ours) |->
       IF g \in Known(others) THEN PlusChild(ours.items[g], others.items[g])
       ELSE ours.items[g]]]

\* The children of the file are appended to those of the object.
ChildrenMerged(ours, others) ==
    LET order == SetToSeq(Known(others))
    IN  AppendedAll(ours, [k \in DOMAIN order |->
          Entry(order[k], others.items[order[k]])])

\* YFuncStat.__add__
Plus(stat, other) ==
    [stat EXCEPT !.ncall = @ + other.ncall,
                 !.children = ChildrenMerged(@, other.children)]

\* _add_from_YSTAT: known is the object with the functions it did not have.
Merged(known, table, new) ==
    [known EXCEPT !.items = [f \in Known(known) |->
       IF f \notin Known(table) THEN known.items[f]
       ELSE LET other == [table.items[f] EXCEPT
                            !.children = ChildrenFixed(@, known)]
            IN  IF f \in new
                THEN [known.items[f] EXCEPT !.children = other.children]
                ELSE Plus(known.items[f], other)]]

\* add: a file in which the functions that the object lacks are in some order;
\* if the clocks differ the file is refused.
Add(p, order) ==
    LET saved == files[p]
        known == Renumbered(saved.table, order, stats.idxMax)
    IN  /\ \/ stats.table.items = <<>>
           \/ stats.clock \in {saved.clock, NoClock}
        /\ stats' = [table  |-> Merged(known, saved.table, ToSet(order)),
                     clock  |-> saved.clock,
                     idxMax |-> stats.idxMax + Len(order)]
        /\ UNCHANGED files

\* save, type "ystat"
Save(p) ==
    /\ files' = [q \in DOMAIN files \cup {p} |->
                   IF q = p THEN [table |-> stats.table, clock |-> stats.clock]
                   ELSE files[q]]
    /\ UNCHANGED stats

\* YFuncStats()
New ==
    /\ stats' = NewStats
    /\ UNCHANGED files

Clear ==
    /\ stats' = [stats EXCEPT !.table = NoTable]
    /\ UNCHANGED files

-----------------------------------------------------------------------------
Small ==
    /\ stats'.idxMax <= MaxIndex
    /\ \A f \in Known(stats'.table) : stats'.table.items[f].ncall <= MaxCalls

Next ==
    \/ \E s \in Session, kept \in Filter : Get(s, kept) /\ Small
    \/ \E p \in DOMAIN files :
         \E order \in SetToSeqs(Known(files[p].table) \ Known(stats.table)) :
           Add(p, order) /\ Small
    \/ \E p \in File : Save(p)
    \/ New
    \/ Clear

Spec == Init /\ [][Next]_vars

-----------------------------------------------------------------------------
Items == stats.table.items
ChildrenOf(f) == Items[f].children.items

\* An index means one function: no two functions of an object, or callees of
\* its functions, share one (_idx_max and "fix children's index values").
IndexNamesOneFunction ==
    LET named == {<<Items[f].index, f>> : f \in DOMAIN Items} \cup
          UNION {{<<ChildrenOf(f)[g].index, g>> : g \in DOMAIN ChildrenOf(f)} :
                   f \in DOMAIN Items}
    IN  \A x, y \in named : x[1] = y[1] => x[2] = y[2]

\* stats[index] finds the function that has this index, for the indexes of
\* functions and for those of callees, in whatever order files were added.
FoundByIndex ==
    \A f \in DOMAIN Items :
        /\ stats.table.byIndex[Items[f].index] = f
        /\ \A g \in DOMAIN ChildrenOf(f) :
             /\ ChildrenOf(f)[g].index \in DOMAIN stats.table.byIndex
             /\ stats.table.byIndex[ChildrenOf(f)[g].index] = g

\* Mutant of Callers: a callee is told by its index instead of its name.
CallersByIndex(g) ==
    [f \in {h \in DOMAIN Items : \E c \in DOMAIN ChildrenOf(h) :
                                   ChildrenOf(h)[c].index = Items[g].index} |->
       ChildrenOf(f)[g].ncall]

\* convert2pstats: the callers of each function of the object.
Callers(g) ==
    [f \in {h \in DOMAIN Items : g \in DOMAIN ChildrenOf(h)} |->
       ChildrenOf(f)[g].ncall]

\* No call is lost by turning callees into callers: whoever calls a function is
\* among the callers of a function that the object has.
EveryCalleeHasItsCaller ==
    \A f \in DOMAIN Items : \A g \in DOMAIN ChildrenOf(f) :
        /\ g \in DOMAIN Items
        /\ f \in DOMAIN Callers(g) /\ Callers(g)[f] = ChildrenOf(f)[g].ncall

\* Counts and clock of a table, as StatTotals has them
CallsIn(table, f) == IF f \in Known(table) THEN table.items[f].ncall ELSE 0
PairsIn(table, f, g) ==
    IF f \in Known(table) THEN CallsIn(table.items[f].children, g) ELSE 0
TotalsOf(object) ==
    [counts |-> [calls |-> [f \in Fn |-> CallsIn(object.table, f)],
                 pairs |-> [fg \in Fn \X Fn |-> PairsIn(object.table, fg[1], fg[2])]],
     clock  |-> object.clock]

Promised == INSTANCE StatTotals WITH
    totals <- TotalsOf(stats),
    saved  <- [p \in DOMAIN files |-> TotalsOf(files[p])]

\* Functions and pairs have the counts of the records they come from, each
\* counted once, through any filtering, saving, renumbering and merging, and the
\* times of different clocks are never added.
AddsUp == Promised!Spec
=============================================================================
