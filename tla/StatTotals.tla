------------------------------ MODULE StatTotals ------------------------------
(***************************************************************************)
(* What statistics objects promise, without indexes and tables: the calls  *)
(* of a function, and those of a function by another one, are the sums of  *)
(* what was recorded in the sessions and files they come from, measured by *)
(* one clock.                                                              *)
(***************************************************************************)
EXTENDS Naturals, Sequences, Functions

CONSTANTS
    Fn,        \* full names of functions
    Session,   \* what the profiler may hold: a clock and records of functions
    Filter,    \* sets of indexes whose records a filter lets pass
    File,
    NoClock

VARIABLES
    totals,    \* of the object: calls, pairs and the clock they belong to
    saved      \* the same of each file that was written

vars == <<totals, saved>>

Nothing == [calls |-> [f \in Fn |-> 0], pairs |-> [fg \in Fn \X Fn |-> 0]]
NoTotals == [counts |-> Nothing, clock |-> NoClock]

Init ==
    /\ totals = NoTotals
    /\ saved = <<>>

\* Where the records of f that pass the filter are in a session.
Places(s, kept, f) ==
    {k \in DOMAIN s.pits : s.pits[k].index \in kept /\ s.pits[k].fn = f}

\* The calls of the callees with some indexes.
CallsTo(kids, callees) ==
    SumFunctionOnSet([j \in DOMAIN kids |-> kids[j].ncall],
                     {j \in DOMAIN kids : kids[j].index \in callees})

\* What a session holds of the records that pass the filter. A call from one
\* record to another counts if both pass.
CallsCounted(s, kept, f) ==
    SumFunctionOnSet([k \in DOMAIN s.pits |-> s.pits[k].ncall], Places(s, kept, f))
PairsCounted(s, kept, f, g) ==
    LET callees == {s.pits[k].index : k \in Places(s, kept, g)}
    IN  SumFunctionOnSet([k \in DOMAIN s.pits |-> CallsTo(s.pits[k].kids, callees)],
                         Places(s, kept, f))
Counted(s, kept) ==
    [calls |-> [f \in Fn |-> CallsCounted(s, kept, f)],
     pairs |-> [fg \in Fn \X Fn |-> PairsCounted(s, kept, fg[1], fg[2])]]

Sum(a, b) ==
    [calls |-> [f \in Fn |-> a.calls[f] + b.calls[f]],
     pairs |-> [fg \in Fn \X Fn |-> a.pairs[fg] + b.pairs[fg]]]

Get(s, kept) ==
    /\ totals' = [counts |-> Counted(s, kept), clock |-> s.clock]
    /\ UNCHANGED saved

\* Statistics that were measured by different clocks are never added.
Add(p) ==
    /\ p \in DOMAIN saved
    /\ totals.counts = Nothing \/ totals.clock = saved[p].clock
    /\ totals' = [counts |-> Sum(totals.counts, saved[p].counts),
                  clock  |-> saved[p].clock]
    /\ UNCHANGED saved

Save(p) ==
    /\ saved' = [q \in DOMAIN saved \cup {p} |-> IF q = p THEN totals ELSE saved[q]]
    /\ UNCHANGED totals

New ==
    /\ totals' = NoTotals
    /\ UNCHANGED saved

Clear ==
    /\ totals' = [totals EXCEPT !.counts = Nothing]
    /\ UNCHANGED saved

Next ==
    \/ \E s \in Session, kept \in Filter : Get(s, kept)
    \/ \E p \in File : Add(p) \/ Save(p)
    \/ New
    \/ Clear

Spec == Init /\ [][Next]_vars
=============================================================================
