---------------------------- MODULE ReadersProofs ----------------------------
(***************************************************************************)
(* Proofs that a program which reads its function statistics while it is   *)
(* profiled is profiled as before once the reader is done (StatsReaders).  *)
(***************************************************************************)
EXTENDS StatsReaders, CallStatsProofs

\* A call of the program, and whether the profiler saw it.
Call == [fn: Pit, seen: BOOLEAN]
Noticed(p) == [fn |-> p, seen |-> TRUE]
Unnoticed(p) == [fn |-> p, seen |-> FALSE]

\* The calls of get_func_stats that are in progress after some of its 17 steps.
NoCalls == <<>>
InGetFuncStats == Append(NoCalls, Noticed(GetFuncStats))
InPause == Append(InGetFuncStats, Noticed(Pause))
InGet == Append(InGetFuncStats, Unnoticed(Get))
InPauseOfGet == Append(InGet, Unnoticed(Pause))
InResumeOfGet == Append(InGet, Unnoticed(Resume))
InResume == Append(InGetFuncStats, Noticed(Resume))
Inside(k) ==
    IF k \in {0, 17} THEN NoCalls
    ELSE IF k \in {1, 4, 13, 16} THEN InGetFuncStats
    ELSE IF k \in {2, 3} THEN InPause
    ELSE IF k \in {5, 8, 9, 12} THEN InGet
    ELSE IF k \in {6, 7} THEN InPauseOfGet
    ELSE IF k \in {10, 11} THEN InResumeOfGet
    ELSE InResume

\* How many entries of the profiler's stack are theirs: the reported call of
\* _pause keeps its entry until get() returns.
Entries(k) ==
    IF k \in {0, 17} THEN 0 ELSE IF k \in {1, 13, 16} THEN 1 ELSE 2

\* Between the first _pause and the first _resume nothing is reported.
Silent(k) == k \in 3..10

\* The calls of the program itself come first: u that were made before profiling
\* began, then those that the profiler saw, b in all.
OwnCalls(u, b) ==
    /\ u <= b /\ b <= Len(program)
    /\ b - u <= Len(stack)
    /\ \A i \in 1..u : ~program[i].seen /\ program[i].fn \notin Builtin
    /\ \A i \in (u+1)..b : program[i].seen /\ stack[i-u].pit = program[i].fn

\* Above them are the calls in inside, with the given number of entries.
InProgress(u, b, inside, entries) ==
    /\ OwnCalls(u, b)
    /\ Len(program) = b + Len(inside)
    /\ \A i \in 1..Len(inside) : program[b + i] = inside[i]
    /\ Len(stack) = (b - u) + entries

FlagsAt(k) ==
    IF Silent(k) THEN on = FALSE /\ running = FALSE /\ paused = TRUE
                 ELSE on = TRUE /\ running = TRUE /\ paused = FALSE

\* k steps of the reader are done; 17, if there is none.
Step == {"call", "return", "pause", "resume", "enumerate"} \X Pit
Done(k) ==
    /\ script \in Seq(Step)
    /\ Len(script) = 17 - k
    /\ \A i \in 1..(17 - k) : script[i] = FuncStatsScript[k + i]

ReaderInv ==
    /\ ProgramTypeOK
    /\ \E u \in Nat, b \in Nat, k \in 0..17 :
         /\ InProgress(u, b, Inside(k), Entries(k))
         /\ FlagsAt(k)
         /\ Done(k)

-----------------------------------------------------------------------------
(* The script. *)

\* r is s, of length m, followed by t, of length n.
Joins(r, s, m, t, n) ==
    /\ r \in Seq(Step)
    /\ Len(r) = m + n
    /\ \A i \in 1..m : r[i] = s[i]
    /\ \A i \in (m + 1)..(m + n) : r[i] = t[i - m]

\* Concatenation gives such an r.
LEMMA Joined ==
    ASSUME NEW s \in Seq(Step), NEW t \in Seq(Step),
           NEW m \in Nat, NEW n \in Nat, Len(s) = m, Len(t) = n
    PROVE  \E r : r = s \o t /\ Joins(r, s, m, t, n)
<1>1. /\ s \o t \in Seq(Step)
      /\ Len(s \o t) = m + n
      /\ \A i \in 1..(m + n) :
           (s \o t)[i] = IF i <= m THEN s[i] ELSE t[i - m]
  BY ConcatProperties
<1>2. \A i \in 1..m : i \in 1..(m + n) /\ i <= m
  OBVIOUS
<1>3. \A i \in (m + 1)..(m + n) : i \in 1..(m + n) /\ ~(i <= m)
  OBVIOUS
<1>4. Joins(s \o t, s, m, t, n)
  BY <1>1, <1>2, <1>3 DEF Joins
<1> QED
  BY <1>1, <1>4

\* The functions of the readers are five.
LEMMA ReadersArePits ==
    /\ {GetFuncStats, Get, Pause, Resume} \subseteq Pit
    /\ Pause \in Builtin /\ Resume \in Builtin
    /\ Get \notin Builtin /\ GetFuncStats \notin Builtin
BY ReaderAssumption DEF Reader

\* The call, the effect and the return of a builtin.
LEMMA BuiltinSteps ==
    ASSUME NEW p \in Pit, NEW e \in {"pause", "resume"}
    PROVE  /\ Builtins(p, e) \in Seq(Step)
           /\ Len(Builtins(p, e)) = 3
           /\ Builtins(p, e)[1] = CallOf(p)
           /\ Builtins(p, e)[2] = Effect(e)
           /\ Builtins(p, e)[3] = ReturnOf
<1>1. CallOf(p) \in Step /\ Effect(e) \in Step /\ ReturnOf \in Step
  BY ReadersArePits DEF CallOf, Effect, ReturnOf, Step
<1> QED
  BY <1>1 DEF Builtins

\* A step alone is a script.
LEMMA OneStep ==
    ASSUME NEW x \in Step
    PROVE  \E s \in Seq(Step) : s = <<x>> /\ Len(s) = 1 /\ s[1] = x
<1>1. <<x>> \in Seq(Step) /\ Len(<<x>>) = 1 /\ <<x>>[1] = x
  OBVIOUS
<1> QED
  BY <1>1

\* The steps of _pause, those of _resume, and the last return.
LEMMA Parts ==
    \E p \in Seq(Step), r \in Seq(Step), last \in Seq(Step) :
      /\ p = Builtins(Pause, "pause") /\ Len(p) = 3
      /\ p[1] = CallOf(Pause) /\ p[2] = Effect("pause") /\ p[3] = ReturnOf
      /\ r = Builtins(Resume, "resume") /\ Len(r) = 3
      /\ r[1] = CallOf(Resume) /\ r[2] = Effect("resume") /\ r[3] = ReturnOf
      /\ last = <<ReturnOf>> /\ Len(last) = 1 /\ last[1] = ReturnOf
<1>1. PICK p \in Seq(Step) :
         /\ p = Builtins(Pause, "pause") /\ Len(p) = 3
         /\ p[1] = CallOf(Pause) /\ p[2] = Effect("pause") /\ p[3] = ReturnOf
  BY BuiltinSteps, ReadersArePits
<1>2. PICK r \in Seq(Step) :
         /\ r = Builtins(Resume, "resume") /\ Len(r) = 3
         /\ r[1] = CallOf(Resume) /\ r[2] = Effect("resume") /\ r[3] = ReturnOf
  BY BuiltinSteps, ReadersArePits
<1>3. ReturnOf \in Step
  BY ReadersArePits DEF ReturnOf, Step
<1>4. PICK last \in Seq(Step) :
         last = <<ReturnOf>> /\ Len(last) = 1 /\ last[1] = ReturnOf
  BY <1>3, OneStep
<1> QED
  BY <1>1, <1>2, <1>4

\* The steps of YFuncStats.get.
LEMMA GetSteps ==
    /\ GetOfFuncStats \in Seq(Step)
    /\ Len(GetOfFuncStats) = 9
    /\ GetOfFuncStats[1] = CallOf(Get)
    /\ GetOfFuncStats[2] = CallOf(Pause)
    /\ GetOfFuncStats[3] = Effect("pause")
    /\ GetOfFuncStats[4] = ReturnOf
    /\ GetOfFuncStats[5] = Effect("enumerate")
    /\ GetOfFuncStats[6] = CallOf(Resume)
    /\ GetOfFuncStats[7] = Effect("resume")
    /\ GetOfFuncStats[8] = ReturnOf
    /\ GetOfFuncStats[9] = ReturnOf
<1>1. CallOf(Get) \in Step /\ Effect("enumerate") \in Step
  BY ReadersArePits DEF CallOf, Effect, Step
<1>2. PICK p \in Seq(Step), r \in Seq(Step), last \in Seq(Step) :
         /\ p = Builtins(Pause, "pause") /\ Len(p) = 3
         /\ p[1] = CallOf(Pause) /\ p[2] = Effect("pause") /\ p[3] = ReturnOf
         /\ r = Builtins(Resume, "resume") /\ Len(r) = 3
         /\ r[1] = CallOf(Resume) /\ r[2] = Effect("resume") /\ r[3] = ReturnOf
         /\ last = <<ReturnOf>> /\ Len(last) = 1 /\ last[1] = ReturnOf
  BY Parts
<1>3. PICK get \in Seq(Step) :
         get = <<CallOf(Get)>> /\ Len(get) = 1 /\ get[1] = CallOf(Get)
  BY <1>1, OneStep
<1>4. PICK enum \in Seq(Step) :
         /\ enum = <<Effect("enumerate")>>
         /\ Len(enum) = 1 /\ enum[1] = Effect("enumerate")
  BY <1>1, OneStep
<1>5. PICK a :
         a = get \o p /\ Joins(a, get, 1, p, 3)
  BY <1>2, <1>3, Joined
<1>6. /\ a \in Seq(Step) /\ Len(a) = 4
      /\ a[1] = get[1] /\ a[2] = p[1] /\ a[3] = p[2] /\ a[4] = p[3]
  <2>1. Joins(a, get, 1, p, 3)
    BY <1>5
  <2> QED
    BY <2>1 DEF Joins
<1>7. PICK c :
         c = a \o enum /\ Joins(c, a, 4, enum, 1)
  BY <1>4, <1>6, Joined
<1>8. /\ c \in Seq(Step) /\ Len(c) = 5 /\ c[5] = enum[1]
      /\ c[1] = a[1] /\ c[2] = a[2] /\ c[3] = a[3] /\ c[4] = a[4]
  <2>1. Joins(c, a, 4, enum, 1)
    BY <1>7
  <2> QED
    BY <2>1 DEF Joins
<1>9. PICK d :
         d = c \o r /\ Joins(d, c, 5, r, 3)
  BY <1>2, <1>8, Joined
<1>10. /\ d \in Seq(Step) /\ Len(d) = 8
       /\ d[1] = c[1] /\ d[2] = c[2] /\ d[3] = c[3] /\ d[4] = c[4]
       /\ d[5] = c[5] /\ d[6] = r[1] /\ d[7] = r[2] /\ d[8] = r[3]
  <2>1. Joins(d, c, 5, r, 3)
    BY <1>9
  <2> QED
    BY <2>1 DEF Joins
<1>11. PICK g :
         g = d \o last /\ Joins(g, d, 8, last, 1)
  BY <1>2, <1>10, Joined
<1>12. /\ g \in Seq(Step) /\ Len(g) = 9 /\ g[9] = last[1]
       /\ g[1] = d[1] /\ g[2] = d[2] /\ g[3] = d[3] /\ g[4] = d[4]
       /\ g[5] = d[5] /\ g[6] = d[6] /\ g[7] = d[7] /\ g[8] = d[8]
  <2>1. Joins(g, d, 8, last, 1)
    BY <1>11
  <2> QED
    BY <2>1 DEF Joins
<1>13. GetOfFuncStats = g
  BY <1>2, <1>3, <1>4, <1>5, <1>7, <1>9, <1>11 DEF GetOfFuncStats
<1> QED
  BY <1>2, <1>3, <1>4, <1>6, <1>8, <1>10, <1>12, <1>13

\* The steps of get_func_stats.
LEMMA FuncStatsSteps ==
    /\ FuncStatsScript \in Seq(Step)
    /\ Len(FuncStatsScript) = 17
    /\ FuncStatsScript[1] = CallOf(GetFuncStats)
    /\ FuncStatsScript[2] = CallOf(Pause)
    /\ FuncStatsScript[3] = Effect("pause")
    /\ FuncStatsScript[4] = ReturnOf
    /\ \A i \in 1..9 : FuncStatsScript[4 + i] = GetOfFuncStats[i]
    /\ FuncStatsScript[14] = CallOf(Resume)
    /\ FuncStatsScript[15] = Effect("resume")
    /\ FuncStatsScript[16] = ReturnOf
    /\ FuncStatsScript[17] = ReturnOf
<1>1. CallOf(GetFuncStats) \in Step
  BY ReadersArePits DEF CallOf, Step
<1>2. PICK p \in Seq(Step), r \in Seq(Step), last \in Seq(Step) :
         /\ p = Builtins(Pause, "pause") /\ Len(p) = 3
         /\ p[1] = CallOf(Pause) /\ p[2] = Effect("pause") /\ p[3] = ReturnOf
         /\ r = Builtins(Resume, "resume") /\ Len(r) = 3
         /\ r[1] = CallOf(Resume) /\ r[2] = Effect("resume") /\ r[3] = ReturnOf
         /\ last = <<ReturnOf>> /\ Len(last) = 1 /\ last[1] = ReturnOf
  BY Parts
<1>3. PICK gfs \in Seq(Step) :
         /\ gfs = <<CallOf(GetFuncStats)>>
         /\ Len(gfs) = 1 /\ gfs[1] = CallOf(GetFuncStats)
  BY <1>1, OneStep
<1>4. PICK g \in Seq(Step) : g = GetOfFuncStats /\ Len(g) = 9
  BY GetSteps
<1>5. PICK a :
         a = gfs \o p /\ Joins(a, gfs, 1, p, 3)
  BY <1>2, <1>3, Joined
<1>6. /\ a \in Seq(Step) /\ Len(a) = 4
      /\ a[1] = gfs[1] /\ a[2] = p[1] /\ a[3] = p[2] /\ a[4] = p[3]
  <2>1. Joins(a, gfs, 1, p, 3)
    BY <1>5
  <2> QED
    BY <2>1 DEF Joins
<1>7. PICK c :
         c = a \o g /\ Joins(c, a, 4, g, 9)
  BY <1>4, <1>6, Joined
<1>8. /\ c \in Seq(Step) /\ Len(c) = 13
      /\ c[1] = a[1] /\ c[2] = a[2] /\ c[3] = a[3] /\ c[4] = a[4]
      /\ \A i \in 1..9 : c[4 + i] = g[i]
  <2>1. Joins(c, a, 4, g, 9)
    BY <1>7
  <2> QED
    BY <2>1 DEF Joins
<1>9. PICK d :
         d = c \o r /\ Joins(d, c, 13, r, 3)
  BY <1>2, <1>8, Joined
<1>10. /\ d \in Seq(Step) /\ Len(d) = 16
       /\ \A i \in 1..13 : d[i] = c[i]
       /\ d[14] = r[1] /\ d[15] = r[2] /\ d[16] = r[3]
  <2>1. Joins(d, c, 13, r, 3)
    BY <1>9
  <2> QED
    BY <2>1 DEF Joins
<1>11. PICK s :
         s = d \o last /\ Joins(s, d, 16, last, 1)
  BY <1>2, <1>10, Joined
<1>12. /\ s \in Seq(Step) /\ Len(s) = 17 /\ s[17] = last[1]
       /\ \A i \in 1..16 : s[i] = d[i]
  <2>1. Joins(s, d, 16, last, 1)
    BY <1>11
  <2> QED
    BY <2>1 DEF Joins
<1>13. FuncStatsScript = s
  BY <1>2, <1>3, <1>4, <1>5, <1>7, <1>9, <1>11 DEF FuncStatsScript
<1>14. \A i \in 1..9 : s[4 + i] = g[i]
  <2>1. \A i \in 1..9 : 4 + i \in 1..13 /\ 4 + i \in 1..16
    OBVIOUS
  <2> QED
    BY <2>1, <1>8, <1>10, <1>12
<1>15. /\ s[1] = a[1] /\ s[2] = a[2] /\ s[3] = a[3] /\ s[4] = a[4]
       /\ s[14] = r[1] /\ s[15] = r[2] /\ s[16] = r[3]
  <2>1. \A i \in 1..16 : s[i] = d[i]
    BY <1>12
  <2>2. \A i \in 1..13 : d[i] = c[i]
    BY <1>10
  <2>3. /\ s[1] = d[1] /\ s[2] = d[2] /\ s[3] = d[3] /\ s[4] = d[4]
        /\ s[14] = d[14] /\ s[15] = d[15] /\ s[16] = d[16]
    BY <2>1
  <2>4. d[1] = c[1] /\ d[2] = c[2] /\ d[3] = c[3] /\ d[4] = c[4]
    BY <2>2
  <2> QED
    BY <2>3, <2>4, <1>8, <1>10
<1> QED
  BY <1>2, <1>3, <1>4, <1>6, <1>12, <1>13, <1>14, <1>15


-----------------------------------------------------------------------------
(* The tables of the invariant. *)

\* The calls that are in progress after k steps of the reader are calls.
LEMMA InsideCalls ==
    ASSUME NEW k \in 0..17
    PROVE  Inside(k) \in Seq(Call)
<1>1. \A p \in {GetFuncStats, Get, Pause, Resume} :
        Noticed(p) \in Call /\ Unnoticed(p) \in Call
  BY ReadersArePits DEF Noticed, Unnoticed, Call
<1>2. NoCalls \in Seq(Call)
  BY EmptySeq DEF NoCalls
<1>3. InGetFuncStats \in Seq(Call)
  BY <1>1, <1>2, AppendProperties DEF InGetFuncStats
<1>4. InGet \in Seq(Call)
  BY <1>1, <1>3, AppendProperties DEF InGet
<1>5. InPause \in Seq(Call) /\ InResume \in Seq(Call)
  BY <1>1, <1>3, AppendProperties DEF InPause, InResume
<1>6. InPauseOfGet \in Seq(Call) /\ InResumeOfGet \in Seq(Call)
  BY <1>1, <1>4, AppendProperties DEF InPauseOfGet, InResumeOfGet
<1> QED
  BY <1>2, <1>3, <1>4, <1>5, <1>6 DEF Inside

\* The tables at each place.
LEMMA InsideAt ==
    /\ Inside(0) = NoCalls
    /\ Inside(1) = InGetFuncStats
    /\ Inside(2) = InPause
    /\ Inside(3) = InPause
    /\ Inside(4) = InGetFuncStats
    /\ Inside(5) = InGet
    /\ Inside(6) = InPauseOfGet
    /\ Inside(7) = InPauseOfGet
    /\ Inside(8) = InGet
    /\ Inside(9) = InGet
    /\ Inside(10) = InResumeOfGet
    /\ Inside(11) = InResumeOfGet
    /\ Inside(12) = InGet
    /\ Inside(13) = InGetFuncStats
    /\ Inside(14) = InResume
    /\ Inside(15) = InResume
    /\ Inside(16) = InGetFuncStats
    /\ Inside(17) = NoCalls
<1>1. /\ Inside(0) = NoCalls
      /\ Inside(1) = InGetFuncStats
      /\ Inside(2) = InPause
      /\ Inside(3) = InPause
      /\ Inside(4) = InGetFuncStats
      /\ Inside(5) = InGet
  BY DEF Inside
<1>2. /\ Inside(6) = InPauseOfGet
      /\ Inside(7) = InPauseOfGet
      /\ Inside(8) = InGet
      /\ Inside(9) = InGet
      /\ Inside(10) = InResumeOfGet
      /\ Inside(11) = InResumeOfGet
  BY DEF Inside
<1>3. /\ Inside(12) = InGet
      /\ Inside(13) = InGetFuncStats
      /\ Inside(14) = InResume
      /\ Inside(15) = InResume
      /\ Inside(16) = InGetFuncStats
      /\ Inside(17) = NoCalls
  BY DEF Inside
<1> QED
  BY <1>1, <1>2, <1>3

\* How many entries there are at each place.
LEMMA EntriesAt ==
    /\ Entries(0) = 0 /\ Entries(1) = 1 /\ Entries(2) = 2 /\ Entries(3) = 2
    /\ Entries(4) = 2 /\ Entries(5) = 2 /\ Entries(6) = 2 /\ Entries(7) = 2
    /\ Entries(8) = 2 /\ Entries(9) = 2 /\ Entries(10) = 2 /\ Entries(11) = 2
    /\ Entries(12) = 2 /\ Entries(13) = 1 /\ Entries(14) = 2 /\ Entries(15) = 2
    /\ Entries(16) = 1 /\ Entries(17) = 0
BY DEF Entries

\* The steps that call.
Calls == {0, 1, 4, 5, 9, 13}
\* What such a step adds.
LEMMA CallTable ==
    ASSUME NEW k \in Calls
    PROVE  \E p \in Pit :
             /\ FuncStatsScript[k + 1] = CallOf(p)
             /\ \/ /\ ~Silent(k) /\ ~Silent(k + 1)
                   /\ Inside(k + 1) = Append(Inside(k), Noticed(p))
                   /\ Entries(k + 1) = Entries(k) + 1
                \/ /\ Silent(k) /\ Silent(k + 1)
                   /\ Inside(k + 1) = Append(Inside(k), Unnoticed(p))
                   /\ Entries(k + 1) = Entries(k)
<1>1. CASE k = 0
  <2>1. FuncStatsScript[0 + 1] = CallOf(GetFuncStats)
    BY FuncStatsSteps
  <2>2. Inside(0 + 1) = Append(Inside(0), Noticed(GetFuncStats))
    BY InsideAt DEF InGetFuncStats
  <2>3. Entries(0 + 1) = Entries(0) + 1
    BY EntriesAt
  <2>4. ~Silent(0) /\ ~Silent(0 + 1)
    BY DEF Silent
  <2> QED
    BY <1>1, <2>1, <2>2, <2>3, <2>4, ReadersArePits
<1>2. CASE k = 1
  <2>1. FuncStatsScript[1 + 1] = CallOf(Pause)
    BY FuncStatsSteps
  <2>2. Inside(1 + 1) = Append(Inside(1), Noticed(Pause))
    BY InsideAt DEF InPause
  <2>3. Entries(1 + 1) = Entries(1) + 1
    BY EntriesAt
  <2>4. ~Silent(1) /\ ~Silent(1 + 1)
    BY DEF Silent
  <2> QED
    BY <1>2, <2>1, <2>2, <2>3, <2>4, ReadersArePits
<1>3. CASE k = 4
  <2>1. FuncStatsScript[4 + 1] = CallOf(Get)
    <3>1. FuncStatsScript[4 + 1] = GetOfFuncStats[1]
      BY FuncStatsSteps
    <3> QED
      BY <3>1, GetSteps
  <2>2. Inside(4 + 1) = Append(Inside(4), Unnoticed(Get))
    BY InsideAt DEF InGet
  <2>3. Entries(4 + 1) = Entries(4)
    BY EntriesAt
  <2>4. Silent(4) /\ Silent(4 + 1)
    BY DEF Silent
  <2> QED
    BY <1>3, <2>1, <2>2, <2>3, <2>4, ReadersArePits
<1>4. CASE k = 5
  <2>1. FuncStatsScript[5 + 1] = CallOf(Pause)
    <3>1. FuncStatsScript[4 + 2] = GetOfFuncStats[2]
      BY FuncStatsSteps
    <3> QED
      BY <3>1, GetSteps
  <2>2. Inside(5 + 1) = Append(Inside(5), Unnoticed(Pause))
    BY InsideAt DEF InPauseOfGet
  <2>3. Entries(5 + 1) = Entries(5)
    BY EntriesAt
  <2>4. Silent(5) /\ Silent(5 + 1)
    BY DEF Silent
  <2> QED
    BY <1>4, <2>1, <2>2, <2>3, <2>4, ReadersArePits
<1>5. CASE k = 9
  <2>1. FuncStatsScript[9 + 1] = CallOf(Resume)
    <3>1. FuncStatsScript[4 + 6] = GetOfFuncStats[6]
      BY FuncStatsSteps
    <3> QED
      BY <3>1, GetSteps
  <2>2. Inside(9 + 1) = Append(Inside(9), Unnoticed(Resume))
    BY InsideAt DEF InResumeOfGet
  <2>3. Entries(9 + 1) = Entries(9)
    BY EntriesAt
  <2>4. Silent(9) /\ Silent(9 + 1)
    BY DEF Silent
  <2> QED
    BY <1>5, <2>1, <2>2, <2>3, <2>4, ReadersArePits
<1>6. CASE k = 13
  <2>1. FuncStatsScript[13 + 1] = CallOf(Resume)
    BY FuncStatsSteps
  <2>2. Inside(13 + 1) = Append(Inside(13), Noticed(Resume))
    BY InsideAt DEF InResume
  <2>3. Entries(13 + 1) = Entries(13) + 1
    BY EntriesAt
  <2>4. ~Silent(13) /\ ~Silent(13 + 1)
    BY DEF Silent
  <2> QED
    BY <1>6, <2>1, <2>2, <2>3, <2>4, ReadersArePits
<1> QED
  BY <1>1, <1>2, <1>3, <1>4, <1>5, <1>6 DEF Calls

\* The steps that return; a return is reported when events are delivered and
\* the call of a builtin was.
Returns == {3, 7, 11, 12, 15, 16}
\* What such a step takes away.
LEMMA ReturnTable ==
    ASSUME NEW k \in Returns
    PROVE  \E x \in Call :
             /\ FuncStatsScript[k + 1] = ReturnOf
             /\ Inside(k) = Append(Inside(k + 1), x)
             /\ Silent(k + 1) <=> Silent(k)
             /\ \/ /\ ~Silent(k) /\ (x.fn \in Builtin => x.seen)
                   /\ Entries(k) = Entries(k + 1) + 1
                \/ /\ Silent(k) \/ ~(x.fn \in Builtin => x.seen)
                   /\ Entries(k) = Entries(k + 1)
<1>0. \A p \in {GetFuncStats, Get, Pause, Resume} :
        /\ Noticed(p) \in Call /\ Unnoticed(p) \in Call
        /\ Noticed(p).fn = p /\ Unnoticed(p).fn = p
        /\ Noticed(p).seen /\ ~Unnoticed(p).seen
  BY ReadersArePits DEF Noticed, Unnoticed, Call
<1>1. CASE k = 3
  <2>1. FuncStatsScript[3 + 1] = ReturnOf
    BY FuncStatsSteps
  <2>2. Inside(3) = Append(Inside(3 + 1), Noticed(Pause))
    BY InsideAt DEF InPause
  <2>3. Entries(3) = Entries(3 + 1)
    BY EntriesAt
  <2>4. Silent(3) /\ Silent(3 + 1)
    BY DEF Silent
  <2> QED
    BY <1>0, <1>1, <2>1, <2>2, <2>3, <2>4
<1>2. CASE k = 7
  <2>1. FuncStatsScript[7 + 1] = ReturnOf
    <3>1. FuncStatsScript[4 + 4] = GetOfFuncStats[4]
      BY FuncStatsSteps
    <3> QED
      BY <3>1, GetSteps
  <2>2. Inside(7) = Append(Inside(7 + 1), Unnoticed(Pause))
    BY InsideAt DEF InPauseOfGet
  <2>3. Entries(7) = Entries(7 + 1)
    BY EntriesAt
  <2>4. Silent(7) /\ Silent(7 + 1)
    BY DEF Silent
  <2> QED
    BY <1>0, <1>2, <2>1, <2>2, <2>3, <2>4
<1>3. CASE k = 11
  <2>1. FuncStatsScript[11 + 1] = ReturnOf
    <3>1. FuncStatsScript[4 + 8] = GetOfFuncStats[8]
      BY FuncStatsSteps
    <3> QED
      BY <3>1, GetSteps
  <2>2. Inside(11) = Append(Inside(11 + 1), Unnoticed(Resume))
    BY InsideAt DEF InResumeOfGet
  <2>3. Entries(11) = Entries(11 + 1)
    BY EntriesAt
  <2>4. ~Silent(11) /\ ~Silent(11 + 1)
    BY DEF Silent
  <2>5. ~(Unnoticed(Resume).fn \in Builtin => Unnoticed(Resume).seen)
    BY <1>0, ReadersArePits
  <2> QED
    BY <1>0, <1>3, <2>1, <2>2, <2>3, <2>4, <2>5
<1>4. CASE k = 12
  <2>1. FuncStatsScript[12 + 1] = ReturnOf
    <3>1. FuncStatsScript[4 + 9] = GetOfFuncStats[9]
      BY FuncStatsSteps
    <3> QED
      BY <3>1, GetSteps
  <2>2. Inside(12) = Append(Inside(12 + 1), Unnoticed(Get))
    BY InsideAt DEF InGet
  <2>3. Entries(12) = Entries(12 + 1) + 1
    BY EntriesAt
  <2>4. ~Silent(12) /\ ~Silent(12 + 1)
    BY DEF Silent
  <2>5. Unnoticed(Get).fn \in Builtin => Unnoticed(Get).seen
    BY <1>0, ReadersArePits
  <2> QED
    BY <1>0, <1>4, <2>1, <2>2, <2>3, <2>4, <2>5
<1>5. CASE k = 15
  <2>1. FuncStatsScript[15 + 1] = ReturnOf
    BY FuncStatsSteps
  <2>2. Inside(15) = Append(Inside(15 + 1), Noticed(Resume))
    BY InsideAt DEF InResume
  <2>3. Entries(15) = Entries(15 + 1) + 1
    BY EntriesAt
  <2>4. ~Silent(15) /\ ~Silent(15 + 1)
    BY DEF Silent
  <2>5. Noticed(Resume).fn \in Builtin => Noticed(Resume).seen
    BY <1>0, ReadersArePits
  <2> QED
    BY <1>0, <1>5, <2>1, <2>2, <2>3, <2>4, <2>5
<1>6. CASE k = 16
  <2>1. FuncStatsScript[16 + 1] = ReturnOf
    BY FuncStatsSteps
  <2>2. Inside(16) = Append(Inside(16 + 1), Noticed(GetFuncStats))
    BY InsideAt DEF InGetFuncStats
  <2>3. Entries(16) = Entries(16 + 1) + 1
    BY EntriesAt
  <2>4. ~Silent(16) /\ ~Silent(16 + 1)
    BY DEF Silent
  <2>5. Noticed(GetFuncStats).fn \in Builtin => Noticed(GetFuncStats).seen
    BY <1>0, ReadersArePits
  <2> QED
    BY <1>0, <1>6, <2>1, <2>2, <2>3, <2>4, <2>5
<1> QED
  BY <1>1, <1>2, <1>3, <1>4, <1>5, <1>6 DEF Returns

\* The steps that have an effect.
Effects == {2, 6, 8, 10, 14}
\* Such a step changes neither calls nor entries.
LEMMA EffectTable ==
    ASSUME NEW k \in Effects
    PROVE  /\ FuncStatsScript[k + 1] = Effect(IF k \in {2, 6} THEN "pause"
                ELSE IF k = 8 THEN "enumerate" ELSE "resume")
           /\ Inside(k + 1) = Inside(k)
           /\ Entries(k + 1) = Entries(k)
<1>1. FuncStatsScript[k + 1] = Effect(IF k \in {2, 6} THEN "pause"
                ELSE IF k = 8 THEN "enumerate" ELSE "resume")
  <2>1. FuncStatsScript[2 + 1] = Effect("pause")
    BY FuncStatsSteps
  <2>2. FuncStatsScript[6 + 1] = Effect("pause")
    <3>1. FuncStatsScript[4 + 3] = GetOfFuncStats[3]
      BY FuncStatsSteps
    <3> QED
      BY <3>1, GetSteps
  <2>3. FuncStatsScript[8 + 1] = Effect("enumerate")
    <3>1. FuncStatsScript[4 + 5] = GetOfFuncStats[5]
      BY FuncStatsSteps
    <3> QED
      BY <3>1, GetSteps
  <2>4. FuncStatsScript[10 + 1] = Effect("resume")
    <3>1. FuncStatsScript[4 + 7] = GetOfFuncStats[7]
      BY FuncStatsSteps
    <3> QED
      BY <3>1, GetSteps
  <2>5. FuncStatsScript[14 + 1] = Effect("resume")
    BY FuncStatsSteps
  <2> QED
    BY <2>1, <2>2, <2>3, <2>4, <2>5 DEF Effects
<1>2. Inside(k + 1) = Inside(k) /\ Entries(k + 1) = Entries(k)
  BY InsideAt, EntriesAt DEF Effects
<1> QED
  BY <1>1, <1>2

-----------------------------------------------------------------------------
(* What a step of the program does to the two stacks. *)

\* The stacks are well typed.
LEMMA Stacks ==
    ASSUME ProgramTypeOK
    PROVE  /\ stack \in Seq(Entry)
           /\ program \in Seq(Call)
           /\ Len(stack) \in Nat /\ Len(program) \in Nat
<1>1. stack \in Seq(Entry) /\ program \in Seq(Call)
  BY DEF ProgramTypeOK, TypeOK, Entry, Call
<1> QED
  BY <1>1, LenProperties

\* A call is pushed on the program's stack, and when it is reported on the
\* profiler's.
LEMMA CallPushes ==
    ASSUME ProgramTypeOK, NEW p \in Pit, NEW f \in Frame, ProgramCall(p, f)
    PROVE  /\ on' = on
           /\ Len(program') = Len(program) + 1
           /\ \A i \in 1..Len(program) : program'[i] = program[i]
           /\ program'[Len(program) + 1].fn = p
           /\ on => /\ program'[Len(program) + 1] = Noticed(p)
                    /\ Len(stack') = Len(stack) + 1
                    /\ \A i \in 1..Len(stack) : stack'[i] = stack[i]
                    /\ stack'[Len(stack) + 1].pit = p
           /\ ~on => /\ program'[Len(program) + 1] = Unnoticed(p)
                     /\ UNCHANGED vars
<1>1. /\ stack \in Seq(Entry) /\ program \in Seq(Call)
      /\ on \in BOOLEAN /\ now \in Nat
  BY Stacks DEF ProgramTypeOK, TypeOK
<1>2. [fn |-> p, seen |-> on] \in Call
  BY <1>1 DEF Call
<1>3. /\ Len(program') = Len(program) + 1
      /\ \A i \in 1..Len(program) : program'[i] = program[i]
      /\ program'[Len(program) + 1] = [fn |-> p, seen |-> on]
  BY <1>1, <1>2, AppendProperties DEF ProgramCall
<1>4. on => [fn |-> p, seen |-> on] = Noticed(p)
  BY DEF Noticed
<1>5. ~on => [fn |-> p, seen |-> on] = Unnoticed(p)
  BY <1>1 DEF Unnoticed
<1>6. ASSUME on
      PROVE  /\ Len(stack') = Len(stack) + 1
             /\ \A i \in 1..Len(stack) : stack'[i] = stack[i]
             /\ stack'[Len(stack) + 1].pit = p
  <2>1. stack' = Append(stack, [pit |-> p, t0 |-> now])
    BY <1>6 DEF ProgramCall, CallEnter
  <2>2. [pit |-> p, t0 |-> now] \in Entry
    BY <1>1 DEF Entry
  <2>3. /\ Len(stack') = Len(stack) + 1
        /\ \A i \in 1..Len(stack) : stack'[i] = stack[i]
        /\ stack'[Len(stack) + 1] = [pit |-> p, t0 |-> now]
    BY <1>1, <2>1, <2>2, AppendProperties
  <2> QED
    BY <2>3
<1>7. ~on => UNCHANGED vars
  BY DEF ProgramCall
<1>8. on' = on
  BY DEF ProgramCall
<1> QED
  BY <1>3, <1>4, <1>5, <1>6, <1>7, <1>8

\* A return that is reported takes the top off the profiler's stack, if it has
\* one; one that is not leaves the profiler alone.
LEMMA ReturnPops ==
    ASSUME ProgramTypeOK, NEW f \in Frame, ProgramReturn(f)
    PROVE  /\ on' = on
           /\ Len(program) \in Nat \ {0}
           /\ Top(program) = program[Len(program)]
           /\ Len(program') = Len(program) - 1
           /\ \A i \in 1..(Len(program) - 1) : program'[i] = program[i]
           /\ ReturnReported /\ stack # <<>> =>
                /\ Len(stack') = Len(stack) - 1
                /\ \A i \in 1..(Len(stack) - 1) : stack'[i] = stack[i]
           /\ ReturnReported /\ stack = <<>> => stack' = stack
           /\ ~ReturnReported => UNCHANGED vars
<1>1. stack \in Seq(Entry) /\ program \in Seq(Call)
  BY Stacks
<1>2. /\ Len(program) \in Nat \ {0}
      /\ Len(program') = Len(program) - 1
      /\ \A i \in 1..(Len(program) - 1) : program'[i] = program[i]
  BY <1>1, PopKeeps DEF ProgramReturn
<1>3. ASSUME ReturnReported, stack # <<>>
      PROVE  /\ Len(stack') = Len(stack) - 1
             /\ \A i \in 1..(Len(stack) - 1) : stack'[i] = stack[i]
  <2>1. /\ Len(stack) \in Nat \ {0}
        /\ Len(Pop(stack)) = Len(stack) - 1
        /\ \A i \in 1..(Len(stack) - 1) : Pop(stack)[i] = stack[i]
    BY <1>1, <1>3, PopStack
  <2>2. CallLeave(f, FALSE)
    BY <1>3 DEF ProgramReturn
  <2>3. CASE LeaveUnseen(f, FALSE)
    BY <1>3, <2>3 DEF LeaveUnseen
  <2>4. CASE LeaveOutermost(f, FALSE)
    <3>1. Len(stack) = 1 /\ stack' = <<>>
      BY <2>4 DEF LeaveOutermost
    <3>2. Len(stack') = 0
      BY <3>1, EmptySeq
    <3> QED
      BY <3>1, <3>2
  <2>5. CASE LeaveToParent(f, FALSE)
    <3>1. stack' = Pop(stack)
      BY <2>5 DEF LeaveToParent, StackOnLeave
    <3> QED
      BY <2>1, <3>1
  <2> QED
    BY <2>2, <2>3, <2>4, <2>5 DEF CallLeave
<1>4. ASSUME ReturnReported, stack = <<>>
      PROVE  stack' = stack
  <2>1. CallLeave(f, FALSE)
    BY <1>4 DEF ProgramReturn
  <2>2. Len(stack) = 0
    BY <1>4, EmptySeq
  <2>3. LeaveUnseen(f, FALSE)
    <3>1. ~(Len(stack) = 1) /\ ~(Len(stack) > 1)
      BY <2>2
    <3>2. ~LeaveOutermost(f, FALSE)
      BY <3>1 DEF LeaveOutermost
    <3>3. ~LeaveToParent(f, FALSE)
      BY <3>1 DEF LeaveToParent
    <3> QED
      BY <2>1, <3>2, <3>3 DEF CallLeave
  <2> QED
    BY <2>3 DEF LeaveUnseen, vars
<1>5. ~ReturnReported => UNCHANGED vars
  BY DEF ProgramReturn
<1>6. on' = on /\ Top(program) = program[Len(program)]
  BY DEF ProgramReturn, Top
<1> QED
  BY <1>2, <1>3, <1>4, <1>5, <1>6

\* Every step keeps the types.
LEMMA ProgramTypeKept ==
    ASSUME ProgramTypeOK,
           \/ \E p \in Pit, f \in Frame : ProgramCall(p, f)
           \/ \E f \in Frame : ProgramReturn(f)
           \/ ProgramRuns
           \/ Enumerate /\ UNCHANGED programVars
           \/ on' \in BOOLEAN /\ UNCHANGED <<vars, program>>
    PROVE  ProgramTypeOK'
<1>0. /\ TypeOK /\ on \in BOOLEAN
      /\ stack \in Seq(Entry) /\ program \in Seq(Call)
  BY Stacks DEF ProgramTypeOK
<1>1. ASSUME NEW p \in Pit, NEW f \in Frame, ProgramCall(p, f)
      PROVE  ProgramTypeOK'
  <2>1. [Next]_vars
    BY <1>1 DEF ProgramCall, Next, Event
  <2>2. TypeOK'
    BY <1>0, <2>1, TypeStep
  <2>3. [fn |-> p, seen |-> on] \in Call
    BY <1>0 DEF Call
  <2>4. program' \in Seq(Call) /\ on' = on
    BY <1>0, <1>1, <2>3, AppendProperties DEF ProgramCall
  <2> QED
    BY <1>0, <2>2, <2>4 DEF ProgramTypeOK, Call
<1>2. ASSUME NEW f \in Frame, ProgramReturn(f)
      PROVE  ProgramTypeOK'
  <2>1. [Next]_vars
    BY <1>2 DEF ProgramReturn, Next, Event
  <2>2. TypeOK'
    BY <1>0, <2>1, TypeStep
  <2>3. program' \in Seq(Call) /\ on' = on
    BY <1>0, <1>2, PopKeeps DEF ProgramReturn
  <2> QED
    BY <1>0, <2>2, <2>3 DEF ProgramTypeOK, Call
<1>3. CASE ProgramRuns
  <2>1. [Next]_vars
    BY <1>3 DEF ProgramRuns, Next
  <2>2. TypeOK'
    BY <1>0, <2>1, TypeStep
  <2> QED
    BY <1>0, <1>3, <2>2 DEF ProgramTypeOK, Call, ProgramRuns, programVars
<1>4. CASE Enumerate /\ UNCHANGED programVars
  <2>1. [Next]_vars
    BY <1>4 DEF Next
  <2>2. TypeOK'
    BY <1>0, <2>1, TypeStep
  <2> QED
    BY <1>0, <1>4, <2>2 DEF ProgramTypeOK, Call, programVars
<1>5. CASE on' \in BOOLEAN /\ UNCHANGED <<vars, program>>
  <2>1. [Next]_vars
    BY <1>5
  <2>2. TypeOK'
    BY <1>0, <2>1, TypeStep
  <2> QED
    BY <1>0, <1>5, <2>2 DEF ProgramTypeOK, Call
<1> QED
  BY <1>1, <1>2, <1>3, <1>4, <1>5

-----------------------------------------------------------------------------
(* The calls in progress. *)

\* When the two stacks do not move, nothing does.
LEMMA NothingMoves ==
    ASSUME NEW u, NEW b, NEW inside, NEW n, InProgress(u, b, inside, n),
           UNCHANGED <<program, stack>>
    PROVE  InProgress(u, b, inside, n)'
BY DEF InProgress, OwnCalls

\* A call by the reader.
LEMMA InsideCall ==
    ASSUME ProgramTypeOK, NEW u \in Nat, NEW b \in Nat, NEW n \in Nat,
           NEW inside \in Seq(Call), InProgress(u, b, inside, n),
           NEW p \in Pit, NEW f \in Frame, ProgramCall(p, f)
    PROVE  /\ Noticed(p) \in Call /\ Unnoticed(p) \in Call
           /\ on => InProgress(u, b, Append(inside, Noticed(p)), n + 1)'
           /\ ~on => InProgress(u, b, Append(inside, Unnoticed(p)), n)'
<1>1. PICK l \in Nat, m \in Nat, h \in Nat :
         l = Len(program) /\ m = Len(inside) /\ h = Len(stack)
  BY Stacks, LenProperties
<1>2. /\ u <= b /\ l = b + m /\ h = (b - u) + n
      /\ \A i \in 1..u : ~program[i].seen /\ program[i].fn \notin Builtin
      /\ \A i \in (u+1)..b : program[i].seen /\ stack[i-u].pit = program[i].fn
      /\ \A i \in 1..m : program[b + i] = inside[i]
  BY <1>1 DEF InProgress, OwnCalls
<1>3. Noticed(p) \in Call /\ Unnoticed(p) \in Call
  BY DEF Noticed, Unnoticed, Call
<1>4. ASSUME NEW x \in Call, NEW k \in Nat, program'[l + 1] = x,
             Len(program') = l + 1, Len(stack') = (b - u) + k, n <= k,
             \A i \in 1..h : stack'[i] = stack[i],
             \A i \in 1..l : program'[i] = program[i]
      PROVE  InProgress(u, b, Append(inside, x), k)'
  <2>1. /\ Len(Append(inside, x)) = m + 1
        /\ \A i \in 1..m : Append(inside, x)[i] = inside[i]
        /\ Append(inside, x)[m + 1] = x
    BY <1>1, AppendProperties
  <2>2. \A i \in 1..u : i \in 1..l
    BY <1>2
  <2>3. \A i \in (u+1)..b : i \in 1..l /\ i - u \in 1..h
    BY <1>2
  <2>4. \A i \in 1..m : b + i \in 1..l
    BY <1>2
  <2>5. /\ \A i \in 1..u : ~program'[i].seen /\ program'[i].fn \notin Builtin
        /\ \A i \in (u+1)..b :
             program'[i].seen /\ stack'[i-u].pit = program'[i].fn
    <3>1. \A i \in 1..u : program'[i] = program[i]
      BY <1>4, <2>2
    <3>2. \A i \in (u+1)..b :
            program'[i] = program[i] /\ stack'[i-u] = stack[i-u]
      BY <1>4, <2>3
    <3>3. \A i \in 1..u : ~program'[i].seen /\ program'[i].fn \notin Builtin
      BY <1>2, <3>1
    <3> QED
      BY <1>2, <3>2, <3>3
  <2>6. \A i \in 1..(m + 1) : program'[b + i] = Append(inside, x)[i]
    <3>1. \A i \in 1..m : program'[b + i] = Append(inside, x)[i]
      BY <1>2, <1>4, <2>1, <2>4
    <3>2. program'[b + (m + 1)] = Append(inside, x)[m + 1]
      <4>1. b + (m + 1) = l + 1
        BY <1>2
      <4> QED
        BY <1>4, <2>1, <4>1
    <3>3. \A i \in 1..(m + 1) : i \in 1..m \/ i = m + 1
      OBVIOUS
    <3> QED
      BY <3>1, <3>2, <3>3
  <2>7. u <= b /\ b <= l + 1 /\ b - u <= (b - u) + k /\ l + 1 = b + (m + 1)
    BY <1>2
  <2> QED
    BY <1>4, <2>1, <2>5, <2>6, <2>7 DEF InProgress, OwnCalls
<1>5. ASSUME on PROVE InProgress(u, b, Append(inside, Noticed(p)), n + 1)'
  <2>1. /\ Len(program') = l + 1
        /\ \A i \in 1..l : program'[i] = program[i]
        /\ program'[l + 1] = Noticed(p)
        /\ Len(stack') = h + 1
        /\ \A i \in 1..h : stack'[i] = stack[i]
    BY <1>1, <1>5, CallPushes
  <2>2. n + 1 \in Nat /\ n <= n + 1 /\ Len(stack') = (b - u) + (n + 1)
    BY <1>2, <2>1
  <2> QED
    BY <1>3, <1>4, <2>1, <2>2
<1>6. ASSUME ~on PROVE InProgress(u, b, Append(inside, Unnoticed(p)), n)'
  <2>1. /\ Len(program') = l + 1
        /\ \A i \in 1..l : program'[i] = program[i]
        /\ program'[l + 1] = Unnoticed(p)
        /\ stack' = stack
    BY <1>1, <1>6, CallPushes DEF vars
  <2>2. \A i \in 1..h : stack'[i] = stack[i]
    <3>1. stack' = stack
      BY <2>1
    <3> QED
      BY <3>1
  <2>3. n <= n /\ Len(stack') = (b - u) + n
    <3>1. Len(stack') = h /\ h = (b - u) + n
      BY <1>1, <1>2, <2>1
    <3> QED
      BY <3>1
  <2> QED
    BY <1>3, <1>4, <2>1, <2>2, <2>3
<1> QED
  BY <1>3, <1>5, <1>6

\* A return by the reader, from the call x.
LEMMA InsideReturn ==
    ASSUME ProgramTypeOK, NEW u \in Nat, NEW b \in Nat, NEW n \in Nat,
           NEW inside \in Seq(Call), NEW x \in Call, NEW k \in Nat,
           InProgress(u, b, Append(inside, x), n),
           NEW f \in Frame, ProgramReturn(f),
           IF on /\ (x.fn \in Builtin => x.seen) THEN n = k + 1 ELSE n = k
    PROVE  InProgress(u, b, inside, k)'
<1>1. PICK l \in Nat, m \in Nat, h \in Nat :
         l = Len(program) /\ m = Len(inside) /\ h = Len(stack)
  BY Stacks, LenProperties
<1>2. /\ Len(Append(inside, x)) = m + 1
      /\ \A i \in 1..m : Append(inside, x)[i] = inside[i]
      /\ Append(inside, x)[m + 1] = x
  BY <1>1, AppendProperties
<1>3. /\ u <= b /\ l = b + (m + 1) /\ h = (b - u) + n
      /\ \A i \in 1..u : ~program[i].seen /\ program[i].fn \notin Builtin
      /\ \A i \in (u+1)..b : program[i].seen /\ stack[i-u].pit = program[i].fn
      /\ \A i \in 1..(m + 1) : program[b + i] = Append(inside, x)[i]
  BY <1>1, <1>2 DEF InProgress, OwnCalls
<1>4. program[l] = x
  <2>1. m + 1 \in 1..(m + 1) /\ l = b + (m + 1)
    BY <1>3
  <2> QED
    BY <1>2, <1>3, <2>1
<1>5. /\ Len(program') = l - 1
      /\ \A i \in 1..(l - 1) : program'[i] = program[i]
      /\ Top(program) = x
  BY <1>1, <1>4, ReturnPops
<1>6. Len(stack') = (b - u) + k /\ \A i \in 1..((b - u) + k) : stack'[i] = stack[i]
  <2>1. CASE ReturnReported
    <3>1. n = k + 1
      BY <1>5, <2>1 DEF ReturnReported
    <3>2. stack # <<>>
      <4>1. h # 0
        BY <1>3, <3>1
      <4> QED
        BY <1>1, <4>1, EmptySeq
    <3>3. Len(stack') = h - 1 /\ \A i \in 1..(h - 1) : stack'[i] = stack[i]
      BY <1>1, <2>1, <3>2, ReturnPops
    <3>4. h - 1 = (b - u) + k
      BY <1>3, <3>1
    <3> QED
      BY <3>3, <3>4
  <2>2. CASE ~ReturnReported
    <3>1. n = k
      BY <1>5, <2>2 DEF ReturnReported
    <3>2. stack' = stack
      BY <2>2, ReturnPops DEF vars
    <3> QED
      BY <1>1, <1>3, <3>1, <3>2
  <2> QED
    BY <2>1, <2>2
<1>7. \A i \in 1..u : i \in 1..(l - 1)
  BY <1>3
<1>8. \A i \in (u+1)..b : i \in 1..(l - 1) /\ i - u \in 1..((b - u) + k)
  BY <1>3
<1>9. \A i \in 1..m : b + i \in 1..(l - 1) /\ i \in 1..(m + 1)
  BY <1>3
<1>10. /\ \A i \in 1..u : ~program'[i].seen /\ program'[i].fn \notin Builtin
       /\ \A i \in (u+1)..b :
            program'[i].seen /\ stack'[i-u].pit = program'[i].fn
  BY <1>3, <1>5, <1>6, <1>7, <1>8
<1>11. \A i \in 1..m : program'[b + i] = inside[i]
  BY <1>2, <1>3, <1>5, <1>9
<1>12. u <= b /\ b <= l - 1 /\ b - u <= (b - u) + k /\ l - 1 = b + m
  BY <1>3
<1> QED
  BY <1>1, <1>5, <1>6, <1>10, <1>11, <1>12 DEF InProgress, OwnCalls

\* The empty list of calls.
LEMMA NoCallsEmpty == NoCalls \in Seq(Call) /\ Len(NoCalls) = 0
BY EmptySeq DEF NoCalls

\* A call by the program itself.
LEMMA OwnCall ==
    ASSUME ProgramTypeOK, NEW u \in Nat, NEW b \in Nat,
           InProgress(u, b, NoCalls, 0), on,
           NEW p \in Pit, NEW f \in Frame, ProgramCall(p, f)
    PROVE  InProgress(u, b + 1, NoCalls, 0)'
<1>1. PICK l \in Nat, h \in Nat : l = Len(program) /\ h = Len(stack)
  BY Stacks
<1>2. /\ u <= b /\ l = b /\ h = b - u
      /\ \A i \in 1..u : ~program[i].seen /\ program[i].fn \notin Builtin
      /\ \A i \in (u+1)..b : program[i].seen /\ stack[i-u].pit = program[i].fn
  BY <1>1, NoCallsEmpty DEF InProgress, OwnCalls
<1>3. /\ Len(program') = l + 1
      /\ \A i \in 1..l : program'[i] = program[i]
      /\ program'[l + 1] = Noticed(p)
      /\ Len(stack') = h + 1
      /\ \A i \in 1..h : stack'[i] = stack[i]
      /\ stack'[h + 1].pit = p
  BY <1>1, CallPushes
<1>4. \A i \in 1..u : ~program'[i].seen /\ program'[i].fn \notin Builtin
  <2>1. \A i \in 1..u : i \in 1..l
    BY <1>2
  <2> QED
    BY <1>2, <1>3, <2>1
<1>5. \A i \in (u+1)..b : program'[i].seen /\ stack'[i-u].pit = program'[i].fn
  <2>1. \A i \in (u+1)..b : i \in 1..l /\ i - u \in 1..h
    BY <1>2
  <2>2. \A i \in (u+1)..b :
          program'[i] = program[i] /\ stack'[i-u] = stack[i-u]
    BY <1>3, <2>1
  <2> QED
    BY <1>2, <2>2
<1>6. program'[b + 1].seen /\ stack'[(b + 1) - u].pit = program'[b + 1].fn
  <2>1. b + 1 = l + 1 /\ (b + 1) - u = h + 1
    BY <1>2
  <2>2. Noticed(p).seen /\ Noticed(p).fn = p
    BY DEF Noticed
  <2> QED
    BY <1>3, <2>1, <2>2
<1>7. \A i \in (u+1)..(b+1) : i \in (u+1)..b \/ i = b + 1
  BY <1>2
<1>8. \A i \in (u+1)..(b+1) :
        program'[i].seen /\ stack'[i-u].pit = program'[i].fn
  BY <1>5, <1>6, <1>7
<1>9. /\ u <= b + 1 /\ b + 1 <= l + 1 /\ (b + 1) - u <= h + 1
      /\ l + 1 = (b + 1) + 0 /\ h + 1 = ((b + 1) - u) + 0
  BY <1>2
<1> QED
  BY <1>3, <1>4, <1>8, <1>9, NoCallsEmpty DEF InProgress, OwnCalls

\* A return by the program itself: from a call the profiler has seen, which is on
\* top of its stack, or from one it has not, when its stack is empty.
LEMMA OwnReturn ==
    ASSUME ProgramTypeOK, NEW u \in Nat, NEW b \in Nat,
           InProgress(u, b, NoCalls, 0), on, NEW f \in Frame, ProgramReturn(f)
    PROVE  \E v \in Nat, c \in Nat : InProgress(v, c, NoCalls, 0)'
<1>1. PICK l \in Nat, h \in Nat : l = Len(program) /\ h = Len(stack)
  BY Stacks
<1>2. /\ u <= b /\ l = b /\ h = b - u
      /\ \A i \in 1..u : ~program[i].seen /\ program[i].fn \notin Builtin
      /\ \A i \in (u+1)..b : program[i].seen /\ stack[i-u].pit = program[i].fn
  BY <1>1, NoCallsEmpty DEF InProgress, OwnCalls
<1>3. /\ l # 0
      /\ Top(program) = program[l]
      /\ Len(program') = l - 1
      /\ \A i \in 1..(l - 1) : program'[i] = program[i]
  BY <1>1, ReturnPops
<1>4. CASE u < b
  <2>1. b \in (u+1)..b
    BY <1>2, <1>4
  <2>2. ReturnReported
    BY <1>2, <1>3, <2>1 DEF ReturnReported
  <2>3. stack # <<>>
    <3>1. h # 0
      BY <1>2, <1>4
    <3> QED
      BY <1>1, <3>1, EmptySeq
  <2>4. Len(stack') = h - 1 /\ \A i \in 1..(h - 1) : stack'[i] = stack[i]
    BY <1>1, <2>2, <2>3, ReturnPops
  <2>5. \A i \in 1..u : i \in 1..(l - 1)
    BY <1>2, <1>4
  <2>6. \A i \in (u+1)..(b-1) :
          i \in 1..(l - 1) /\ i - u \in 1..(h - 1) /\ i \in (u+1)..b
    BY <1>2
  <2>7. \A i \in 1..u : ~program'[i].seen /\ program'[i].fn \notin Builtin
    BY <1>2, <1>3, <2>5
  <2>8. \A i \in (u+1)..(b-1) :
          program'[i].seen /\ stack'[i-u].pit = program'[i].fn
    <3>1. \A i \in (u+1)..(b-1) :
            program'[i] = program[i] /\ stack'[i-u] = stack[i-u]
      BY <1>3, <2>4, <2>6
    <3> QED
      BY <1>2, <2>6, <3>1
  <2>9. /\ u <= b - 1 /\ b - 1 <= l - 1 /\ (b - 1) - u <= h - 1
        /\ l - 1 = (b - 1) + 0 /\ h - 1 = ((b - 1) - u) + 0 /\ b - 1 \in Nat
    BY <1>2, <1>4
  <2>10. InProgress(u, b - 1, NoCalls, 0)'
    BY <1>3, <2>4, <2>7, <2>8, <2>9, NoCallsEmpty DEF InProgress, OwnCalls
  <2> QED
    BY <2>9, <2>10
<1>5. CASE ~(u < b)
  <2>1. u = b /\ h = 0 /\ b \in 1..u
    BY <1>2, <1>3, <1>5
  <2>2. ReturnReported
    BY <1>2, <1>3, <2>1 DEF ReturnReported
  <2>3. stack = <<>>
    BY <1>1, <2>1, Stacks, EmptySeq
  <2>4. stack' = stack
    BY <2>2, <2>3, ReturnPops
  <2>5. \A i \in 1..(u-1) : i \in 1..(l - 1) /\ i \in 1..u
    BY <1>2, <2>1
  <2>6. \A i \in 1..(u-1) : ~program'[i].seen /\ program'[i].fn \notin Builtin
    BY <1>2, <1>3, <2>5
  <2>7. (u-1)+1 > b-1 /\ \A i \in ((u-1)+1)..(b-1) : FALSE
    BY <2>1
  <2>8. /\ u - 1 <= b - 1 /\ b - 1 <= l - 1 /\ (b - 1) - (u - 1) <= h
        /\ l - 1 = (b - 1) + 0 /\ h = ((b - 1) - (u - 1)) + 0
        /\ b - 1 \in Nat /\ u - 1 \in Nat
    BY <1>2, <1>3, <2>1
  <2>9. InProgress(u - 1, b - 1, NoCalls, 0)'
    BY <1>1, <1>3, <2>4, <2>6, <2>7, <2>8, NoCallsEmpty DEF InProgress, OwnCalls
  <2> QED
    BY <2>8, <2>9
<1> QED
  BY <1>4, <1>5

\* Between the program's own calls the two stacks mirror each other.
LEMMA Mirrored ==
    ASSUME ProgramTypeOK, NEW u \in Nat, NEW b \in Nat,
           InProgress(u, b, NoCalls, 0)
    PROVE  StackMirrorsProgram
<1>1. PICK l \in Nat, h \in Nat : l = Len(program) /\ h = Len(stack)
  BY Stacks
<1>2. /\ u <= b /\ l = b /\ h = b - u
      /\ \A i \in 1..u : ~program[i].seen
      /\ \A i \in (u+1)..b : program[i].seen /\ stack[i-u].pit = program[i].fn
  BY <1>1, NoCallsEmpty DEF InProgress, OwnCalls
<1>3. Seen = (u+1)..b
  <2>1. \A i \in 1..b : i \in 1..u \/ i \in (u+1)..b
    BY <1>2
  <2>2. \A i \in (u+1)..b : i \in 1..b
    BY <1>2
  <2> QED
    BY <1>1, <1>2, <2>1, <2>2 DEF Seen
<1>4. Len(stack) = Cardinality(Seen)
  <2>1. Cardinality((u+1)..b) = IF u + 1 > b THEN 0 ELSE b - (u + 1) + 1
    BY FS_Interval
  <2> QED
    BY <1>1, <1>2, <1>3, <2>1
<1>5. ASSUME NEW i \in Seen
      PROVE  stack[Cardinality({j \in Seen : j <= i})].pit = program[i].fn
  <2>1. i \in Nat /\ i >= u + 1 /\ i <= b
    BY <1>3
  <2>2. {j \in Seen : j <= i} = (u+1)..i
    BY <1>3, <2>1
  <2>3. Cardinality((u+1)..i) = i - u
    <3>1. Cardinality((u+1)..i) = IF u + 1 > i THEN 0 ELSE i - (u + 1) + 1
      BY <2>1, FS_Interval
    <3> QED
      BY <2>1, <3>1
  <2> QED
    BY <1>2, <1>3, <2>2, <2>3
<1> QED
  BY <1>4, <1>5 DEF StackMirrorsProgram

-----------------------------------------------------------------------------
(* The invariant holds. *)

\* The next step of the script.
LEMMA ScriptGoesOn ==
    ASSUME NEW k \in 0..17, Done(k), script # <<>>, script' = Tail(script)
    PROVE  /\ k \in 0..16
           /\ Head(script) = FuncStatsScript[k + 1]
           /\ Done(k + 1)'
<1>1. PICK l \in Nat : l = Len(script) /\ l # 0
  <2>1. script \in Seq(Step)
    BY DEF Done
  <2> QED
    BY <2>1, LenProperties, EmptySeq
<1>2. /\ script \in Seq(Step) /\ l = 17 - k
      /\ \A i \in 1..(17 - k) : script[i] = FuncStatsScript[k + i]
  BY <1>1 DEF Done
<1>3. k \in 0..16 /\ 1 \in 1..(17 - k)
  BY <1>1, <1>2
<1>4. Head(script) = script[1]
  BY <1>1, <1>2
<1>5. /\ script' \in Seq(Step)
      /\ Len(script') = l - 1
      /\ \A i \in 1..(l - 1) : script'[i] = script[i + 1]
  <2>1. /\ Tail(script) \in Seq(Step)
        /\ Len(Tail(script)) = Len(script) - 1
        /\ \A i \in 1..Len(Tail(script)) : Tail(script)[i] = script[i + 1]
    BY <1>2, HeadTailProperties
  <2> QED
    BY <1>1, <2>1
<1>6. l - 1 = 17 - (k + 1)
  BY <1>2
<1>7. \A i \in 1..(17 - (k + 1)) : script'[i] = FuncStatsScript[(k + 1) + i]
  <2>1. \A i \in 1..(17 - (k + 1)) :
          i + 1 \in 1..(17 - k) /\ k + (i + 1) = (k + 1) + i
    BY <1>3
  <2>2. \A i \in 1..(17 - (k + 1)) :
          script'[i] = script[i + 1] /\ script[i + 1] = FuncStatsScript[k + (i + 1)]
    BY <1>2, <1>5, <1>6, <2>1
  <2> QED
    BY <2>1, <2>2
<1>8. Done(k + 1)'
  BY <1>5, <1>6, <1>7 DEF Done
<1> QED
  BY <1>2, <1>3, <1>4, <1>8

\* Before and after a reader.
LEMMA NoReader ==
    ASSUME NEW k \in 0..17, Done(k), script = <<>>
    PROVE  k = 17 /\ Inside(k) = NoCalls /\ Entries(k) = 0 /\ ~Silent(k)
<1>1. Len(script) = 0
  BY EmptySeq
<1>2. k = 17
  BY <1>1 DEF Done
<1> QED
  BY <1>2, InsideAt, EntriesAt DEF Silent

\* The same flags at two places of the script.
LEMMA SameFlags ==
    ASSUME NEW k, NEW j, FlagsAt(k), Silent(j) <=> Silent(k),
           UNCHANGED <<on, running, paused>>
    PROVE  FlagsAt(j)'
BY DEF FlagsAt

\* The invariant holds when profiling begins.
LEMMA ReaderInvInit == ReaderInit => ReaderInv
<1> SUFFICES ASSUME ReaderInit PROVE ReaderInv
  OBVIOUS
<1>1. PICK n \in 0..MaxUnseen, p \in Pit \ Builtin :
         program = [i \in 1..n |-> [fn |-> p, seen |-> FALSE]]
  BY DEF ReaderInit, ProgramInit
<1>2. n \in Nat
  BY ProgramAssumption
<1>3. program \in Seq(Call) /\ Len(program) = n
  BY <1>1, <1>2 DEF Call
<1>4. \A i \in 1..n : ~program[i].seen /\ program[i].fn \notin Builtin
  BY <1>1
<1>5. ProgramTypeOK
  BY <1>3, TypeInit DEF ReaderInit, ProgramInit, ProgramTypeOK, Call
<1>6. Len(stack) = 0
  BY EmptySeq DEF ReaderInit, ProgramInit, Init
<1>7. InProgress(n, n, NoCalls, 0)
  BY <1>2, <1>3, <1>4, <1>6, NoCallsEmpty DEF InProgress, OwnCalls
<1>8. script = <<>> /\ on = TRUE /\ running = TRUE /\ paused = FALSE
  BY DEF ReaderInit, ProgramInit
<1>9. FlagsAt(17)
  BY <1>8 DEF FlagsAt, Silent
<1>10. Done(17)
  <2>1. script \in Seq(Step) /\ Len(script) = 0
    BY <1>8, EmptySeq
  <2> QED
    BY <2>1 DEF Done
<1> QED
  BY <1>2, <1>5, <1>7, <1>9, <1>10, InsideAt, EntriesAt DEF ReaderInv

\* The program's own steps.
LEMMA OwnStepKept ==
    ASSUME ReaderInv, OwnStep
    PROVE  ReaderInv'
<1>1. PICK u \in Nat, b \in Nat, k \in 0..17 :
         /\ InProgress(u, b, Inside(k), Entries(k))
         /\ FlagsAt(k) /\ Done(k)
  BY DEF ReaderInv
<1>2. ProgramTypeOK /\ script = <<>> /\ UNCHANGED <<script, running, paused>>
  BY DEF ReaderInv, OwnStep
<1>3. k = 17 /\ Inside(17) = NoCalls /\ Entries(17) = 0 /\ ~Silent(k)
  BY <1>1, <1>2, NoReader
<1>4. on
  BY <1>1, <1>3 DEF FlagsAt
<1>5. InProgress(u, b, NoCalls, 0)
  BY <1>1, <1>3
<1>6. /\ on' = on /\ ProgramTypeOK'
      /\ \E v \in Nat, c \in Nat : InProgress(v, c, NoCalls, 0)'
  <2>1. ASSUME NEW p \in Pit \ Reader, NEW f \in Frame, ProgramCall(p, f)
        PROVE  /\ on' = on /\ ProgramTypeOK'
               /\ \E v \in Nat, c \in Nat : InProgress(v, c, NoCalls, 0)'
    <3>1. b + 1 \in Nat /\ InProgress(u, b + 1, NoCalls, 0)'
      BY <1>2, <1>4, <1>5, <2>1, OwnCall
    <3> QED
      BY <1>2, <2>1, <3>1, CallPushes, ProgramTypeKept
  <2>2. ASSUME NEW f \in Frame, ProgramReturn(f)
        PROVE  /\ on' = on /\ ProgramTypeOK'
               /\ \E v \in Nat, c \in Nat : InProgress(v, c, NoCalls, 0)'
    BY <1>2, <1>4, <1>5, <2>2, OwnReturn, ReturnPops, ProgramTypeKept
  <2> QED
    BY <2>1, <2>2 DEF OwnStep
<1>7. FlagsAt(17)'
  BY <1>1, <1>2, <1>3, <1>6, SameFlags
<1>8. Done(17)'
  BY <1>1, <1>2, <1>3 DEF Done
<1> QED
  BY <1>3, <1>6, <1>7, <1>8 DEF ReaderInv

\* A reader begins.
LEMMA ReadKept ==
    ASSUME ReaderInv, ReadFuncStats
    PROVE  ReaderInv'
<1>1. PICK u \in Nat, b \in Nat, k \in 0..17 :
         /\ InProgress(u, b, Inside(k), Entries(k))
         /\ FlagsAt(k) /\ Done(k)
  BY DEF ReaderInv
<1>2. /\ ProgramTypeOK /\ script = <<>> /\ script' = FuncStatsScript
      /\ UNCHANGED <<allVars, running, paused>>
  BY DEF ReaderInv, ReadFuncStats, Read
<1>3. k = 17 /\ Inside(17) = NoCalls /\ Entries(17) = 0 /\ ~Silent(k)
  BY <1>1, <1>2, NoReader
<1>4. UNCHANGED <<vars, stack, program, on>>
  BY <1>2 DEF allVars, programVars, vars
<1>5. InProgress(u, b, NoCalls, 0)'
  BY <1>1, <1>3, <1>4, NothingMoves
<1>6. FlagsAt(0)'
  <2>1. ~Silent(0)
    BY DEF Silent
  <2> QED
    BY <1>1, <1>2, <1>3, <1>4, <2>1, SameFlags
<1>7. Done(0)'
  <2>1. \A i \in 1..(17 - 0) : 0 + i = i
    OBVIOUS
  <2> QED
    BY <1>2, <2>1, FuncStatsSteps DEF Done
<1>8. ProgramTypeOK'
  <2>1. on' \in BOOLEAN
    BY <1>2, <1>4 DEF ProgramTypeOK
  <2> QED
    BY <1>2, <1>4, <2>1, ProgramTypeKept
<1> QED
  BY <1>5, <1>6, <1>7, <1>8, InsideAt, EntriesAt DEF ReaderInv

\* The three kinds of steps of a reader: a call ...
LEMMA ReaderCallKept ==
    ASSUME ReaderInv, NEW k \in Calls, NEW u \in Nat, NEW b \in Nat,
           InProgress(u, b, Inside(k), Entries(k)), FlagsAt(k),
           NEW f \in Frame, ReaderStep(f), Head(script) = FuncStatsScript[k + 1]
    PROVE  /\ InProgress(u, b, Inside(k + 1), Entries(k + 1))'
           /\ FlagsAt(k + 1)' /\ ProgramTypeOK'
<1>1. PICK p \in Pit :
         /\ FuncStatsScript[k + 1] = CallOf(p)
         /\ \/ /\ ~Silent(k) /\ ~Silent(k + 1)
               /\ Inside(k + 1) = Append(Inside(k), Noticed(p))
               /\ Entries(k + 1) = Entries(k) + 1
            \/ /\ Silent(k) /\ Silent(k + 1)
               /\ Inside(k + 1) = Append(Inside(k), Unnoticed(p))
               /\ Entries(k + 1) = Entries(k)
  BY CallTable
<1>2. Head(script)[1] = "call" /\ Head(script)[2] = p
  BY <1>1 DEF CallOf
<1>3. ProgramCall(p, f) /\ UNCHANGED <<running, paused>>
  BY <1>2 DEF ReaderStep
<1>4. ProgramTypeOK /\ k \in 0..17 /\ Entries(k) \in Nat
  BY DEF ReaderInv, Calls, Entries
<1>5. Inside(k) \in Seq(Call)
  BY <1>4, InsideCalls
<1>6. on' = on /\ ProgramTypeOK'
  BY <1>3, <1>4, CallPushes, ProgramTypeKept
<1>7. /\ on => InProgress(u, b, Append(Inside(k), Noticed(p)), Entries(k) + 1)'
      /\ ~on => InProgress(u, b, Append(Inside(k), Unnoticed(p)), Entries(k))'
  BY <1>3, <1>4, <1>5, InsideCall
<1>8. on <=> ~Silent(k)
  BY DEF FlagsAt
<1>9. FlagsAt(k + 1)'
  BY <1>1, <1>3, <1>6, SameFlags
<1>10. InProgress(u, b, Inside(k + 1), Entries(k + 1))'
  BY <1>1, <1>7, <1>8
<1> QED
  BY <1>6, <1>9, <1>10

\* ... a return ...
LEMMA ReaderReturnKept ==
    ASSUME ReaderInv, NEW k \in Returns, NEW u \in Nat, NEW b \in Nat,
           InProgress(u, b, Inside(k), Entries(k)), FlagsAt(k),
           NEW f \in Frame, ReaderStep(f), Head(script) = FuncStatsScript[k + 1]
    PROVE  /\ InProgress(u, b, Inside(k + 1), Entries(k + 1))'
           /\ FlagsAt(k + 1)' /\ ProgramTypeOK'
<1>1. PICK x \in Call :
         /\ FuncStatsScript[k + 1] = ReturnOf
         /\ Inside(k) = Append(Inside(k + 1), x)
         /\ Silent(k + 1) <=> Silent(k)
         /\ \/ /\ ~Silent(k) /\ (x.fn \in Builtin => x.seen)
               /\ Entries(k) = Entries(k + 1) + 1
            \/ /\ Silent(k) \/ ~(x.fn \in Builtin => x.seen)
               /\ Entries(k) = Entries(k + 1)
  BY ReturnTable
<1>2. Head(script)[1] = "return"
  BY <1>1 DEF ReturnOf
<1>3. ProgramReturn(f) /\ UNCHANGED <<running, paused>>
  BY <1>2 DEF ReaderStep
<1>4. /\ ProgramTypeOK /\ k + 1 \in 0..17
      /\ Entries(k) \in Nat /\ Entries(k + 1) \in Nat
  BY DEF ReaderInv, Returns, Entries
<1>5. Inside(k + 1) \in Seq(Call)
  BY <1>4, InsideCalls
<1>6. on' = on /\ ProgramTypeOK'
  BY <1>3, <1>4, ReturnPops, ProgramTypeKept
<1>7. on <=> ~Silent(k)
  BY DEF FlagsAt
<1>8. IF on /\ (x.fn \in Builtin => x.seen)
      THEN Entries(k) = Entries(k + 1) + 1 ELSE Entries(k) = Entries(k + 1)
  BY <1>1, <1>7
<1>9. InProgress(u, b, Append(Inside(k + 1), x), Entries(k))
  BY <1>1
<1>10. InProgress(u, b, Inside(k + 1), Entries(k + 1))'
  BY <1>3, <1>4, <1>5, <1>8, <1>9, InsideReturn
<1>11. FlagsAt(k + 1)'
  BY <1>1, <1>3, <1>6, SameFlags
<1> QED
  BY <1>6, <1>10, <1>11

\* ... and an effect.
LEMMA ReaderEffectKept ==
    ASSUME ReaderInv, NEW k \in Effects, NEW u \in Nat, NEW b \in Nat,
           InProgress(u, b, Inside(k), Entries(k)), FlagsAt(k),
           NEW f \in Frame, ReaderStep(f), Head(script) = FuncStatsScript[k + 1]
    PROVE  /\ InProgress(u, b, Inside(k + 1), Entries(k + 1))'
           /\ FlagsAt(k + 1)' /\ ProgramTypeOK'
<1>0. ProgramTypeOK
  BY DEF ReaderInv
<1>1. Inside(k + 1) = Inside(k) /\ Entries(k + 1) = Entries(k)
  BY EffectTable
<1>2. CASE k \in {2, 6}
  <2>1. Head(script)[1] = "pause"
    BY <1>2, EffectTable DEF Effect
  <2>2. PauseEffect
    BY <2>1 DEF ReaderStep
  <2>3. UNCHANGED <<vars, stack, program>>
    BY <2>2 DEF PauseEffect, vars
  <2>4. (k = 2 => ~Silent(k)) /\ (k = 6 => Silent(k)) /\ Silent(k + 1)
    BY <1>2 DEF Silent
  <2>5. FlagsAt(k + 1)' /\ on' \in BOOLEAN
    BY <1>2, <2>2, <2>4 DEF PauseEffect, FlagsAt
  <2> QED
    BY <1>0, <1>1, <2>3, <2>5, NothingMoves, ProgramTypeKept
<1>3. CASE k = 8
  <2>1. Head(script)[1] = "enumerate"
    BY <1>3, EffectTable DEF Effect
  <2>2. Enumerate /\ UNCHANGED <<programVars, running, paused>>
    BY <2>1 DEF ReaderStep
  <2>3. UNCHANGED <<stack, program, on>>
    BY <2>2 DEF Enumerate, programVars
  <2>4. Silent(k) /\ Silent(k + 1)
    BY <1>3 DEF Silent
  <2>5. FlagsAt(k + 1)'
    BY <2>2, <2>3, <2>4, SameFlags
  <2> QED
    BY <1>0, <1>1, <2>2, <2>3, <2>5, NothingMoves, ProgramTypeKept
<1>4. CASE k \in {10, 14}
  <2>1. Head(script)[1] = "resume"
    BY <1>4, EffectTable DEF Effect
  <2>2. ResumeEffect
    BY <2>1 DEF ReaderStep
  <2>3. UNCHANGED <<vars, stack, program>>
    BY <2>2 DEF ResumeEffect, vars
  <2>4. (k = 10 => Silent(k)) /\ (k = 14 => ~Silent(k)) /\ ~Silent(k + 1)
    BY <1>4 DEF Silent
  <2>5. FlagsAt(k + 1)' /\ on' \in BOOLEAN
    BY <1>4, <2>2, <2>4 DEF ResumeEffect, FlagsAt
  <2> QED
    BY <1>0, <1>1, <2>3, <2>5, NothingMoves, ProgramTypeKept
<1> QED
  BY <1>2, <1>3, <1>4 DEF Effects

\* Every step of a reader keeps the invariant.
LEMMA ReaderStepKept ==
    ASSUME ReaderInv, NEW f \in Frame, ReaderStep(f)
    PROVE  ReaderInv'
<1>1. PICK u \in Nat, b \in Nat, k \in 0..17 :
         /\ InProgress(u, b, Inside(k), Entries(k))
         /\ FlagsAt(k) /\ Done(k)
  BY DEF ReaderInv
<1>2. script # <<>> /\ script' = Tail(script)
  BY DEF ReaderStep
<1>3. k \in 0..16 /\ Head(script) = FuncStatsScript[k + 1] /\ Done(k + 1)'
  BY <1>1, <1>2, ScriptGoesOn
<1>4. k \in Calls \/ k \in Returns \/ k \in Effects
  BY <1>3 DEF Calls, Returns, Effects
<1>5. /\ InProgress(u, b, Inside(k + 1), Entries(k + 1))'
      /\ FlagsAt(k + 1)' /\ ProgramTypeOK'
  BY <1>1, <1>3, <1>4, ReaderCallKept, ReaderReturnKept, ReaderEffectKept
<1>6. k + 1 \in 0..17
  BY <1>3
<1> QED
  BY <1>3, <1>5, <1>6 DEF ReaderInv

\* Every step keeps the invariant.
LEMMA ReaderInvStep ==
    ASSUME ReaderInv, [FuncReaderNext]_readerVars
    PROVE  ReaderInv'
<1>1. ASSUME UNCHANGED <<script, running, paused, on, stack, program>>, ProgramTypeOK'
      PROVE  ReaderInv'
  <2>1. PICK u \in Nat, b \in Nat, k \in 0..17 :
           /\ InProgress(u, b, Inside(k), Entries(k))
           /\ FlagsAt(k) /\ Done(k)
    BY DEF ReaderInv
  <2>2. InProgress(u, b, Inside(k), Entries(k))'
    BY <1>1, <2>1, NothingMoves
  <2>3. FlagsAt(k)' /\ Done(k)'
    BY <1>1, <2>1 DEF FlagsAt, Done
  <2> QED
    BY <1>1, <2>2, <2>3 DEF ReaderInv
<1>2. CASE Passes
  <2>1. ProgramTypeOK'
    BY <1>2, ProgramTypeKept DEF ReaderInv, Passes
  <2>2. UNCHANGED <<script, running, paused, on, stack, program>>
    BY <1>2 DEF Passes, ProgramRuns, Tick, programVars
  <2> QED
    BY <1>1, <2>1, <2>2
<1>3. CASE UNCHANGED readerVars
  <2>1. UNCHANGED <<script, running, paused, on, vars, stack, program>>
    BY <1>3 DEF readerVars, allVars, programVars, vars
  <2>2. ProgramTypeOK'
    <3>1. ProgramTypeOK /\ on' \in BOOLEAN
      BY <2>1 DEF ReaderInv, ProgramTypeOK
    <3> QED
      BY <2>1, <3>1, ProgramTypeKept
  <2> QED
    BY <1>1, <2>1, <2>2
<1> QED
  BY <1>2, <1>3, OwnStepKept, ReadKept, ReaderStepKept DEF FuncReaderNext

\* What get_func_stats has done so far, and the calls of the program below it, are
\* on the two stacks as ReaderInv says, after each of its 17 steps.
THEOREM ReaderInvariant == FuncReaderSpec => []ReaderInv
BY ReaderInvInit, ReaderInvStep, PTL DEF FuncReaderSpec

\* The program's stack and the profiler's hold what they should while a program
\* reads its function statistics.
THEOREM ReaderTyped == FuncReaderSpec => []ProgramTypeOK
<1>1. ReaderInv => ProgramTypeOK
  BY DEF ReaderInv
<1> QED
  BY <1>1, ReaderInvariant, PTL

\* Once get_func_stats is done the profiler runs again, is not taken for paused,
\* and the thread delivers events: the two pauses of get_func_stats and
\* YFuncStats.get are both undone, by the inner _resume and not by the outer.
THEOREM ReaderResumes == FuncReaderSpec => []ProfilingResumes
<1>1. ASSUME ReaderInv, script = <<>> PROVE running /\ on /\ ~paused
  <2>1. PICK k \in 0..17 : FlagsAt(k) /\ Done(k)
    BY <1>1 DEF ReaderInv
  <2> QED
    BY <1>1, <2>1, NoReader DEF FlagsAt
<1>2. ReaderInv => ProfilingResumes
  BY <1>1 DEF ProfilingResumes
<1> QED
  BY <1>2, ReaderInvariant, PTL

\* While the program's own functions run, the profiler's stack holds just the
\* calls of the program that it has seen, in their order, however often the
\* program has read its function statistics before: the call of _pause that never
\* gets its return is paid for by the return of get() that never had its call.
THEOREM ReadersAreBalanced == FuncReaderSpec => []ReadersBalance
<1>1. ASSUME ReaderInv, script = <<>> PROVE StackMirrorsProgram
  <2>1. PICK u \in Nat, b \in Nat, k \in 0..17 :
           InProgress(u, b, Inside(k), Entries(k)) /\ Done(k)
    BY <1>1 DEF ReaderInv
  <2>2. InProgress(u, b, NoCalls, 0) /\ ProgramTypeOK
    BY <1>1, <2>1, NoReader DEF ReaderInv
  <2> QED
    BY <2>2, Mirrored
<1>2. ReaderInv => ReadersBalance
  BY <1>1 DEF ReadersBalance
<1> QED
  BY <1>2, ReaderInvariant, PTL
=============================================================================
