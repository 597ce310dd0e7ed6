---------------------------- MODULE GreenletsProofs ----------------------------
(***************************************************************************)
(* Proofs about Greenlets, for any threads, greenlets and modes of start:  *)
(* the pauses are exact, and every call is charged the time for which its  *)
(* greenlet was the one seen running (GreenletTimes).                      *)
(***************************************************************************)
EXTENDS Greenlets, SequenceTheorems, TLAPS

\* What a context is worth when the clock of its thread shows r.
At(c, r) == IF c.paused THEN c.pausedAt ELSE r
AgesAt(c, r) == [i \in 1..Len(c.times) |-> At(c, r) - c.times[i]]

\* No time stamp of a context lies in the future.
Fits(c, r) ==
    /\ c.paused => c.pausedAt <= r
    /\ \A i \in 1..Len(c.times) : c.times[i] <= At(c, r)

Empty(c) == c.times = <<>>

LEMMA ContextParts ==
    ASSUME NEW c \in Context
    PROVE  /\ c = [times |-> c.times, paused |-> c.paused, pausedAt |-> c.pausedAt]
           /\ c.times \in Seq(Nat) /\ Len(c.times) \in Nat
           /\ c.paused \in BOOLEAN /\ c.pausedAt \in Nat
           /\ \A i \in 1..Len(c.times) : c.times[i] \in Nat
           /\ Empty(c) <=> Len(c.times) = 0
<1>1. c.times \in Seq(Nat)
  BY DEF Context
<1>2. Len(c.times) \in Nat /\ \A i \in 1..Len(c.times) : c.times[i] \in Nat
  BY <1>1, LenProperties, ElementOfSeq
<1>3. c.times = <<>> <=> Len(c.times) = 0
  BY <1>1, EmptySeq
<1> QED
  BY <1>1, <1>2, <1>3 DEF Context, Empty

LEMMA MapIsSeq ==
    ASSUME NEW n \in Nat, NEW f, f = [i \in 1..n |-> f[i]],
           \A i \in 1..n : f[i] \in Nat
    PROVE  f \in Seq(Nat) /\ Len(f) = n
<1>1. f \in [1..n -> Nat]
  OBVIOUS
<1> QED
  BY <1>1, SeqDef, LenProperties

LEMMA CreatedStep ==
    ASSUME NEW c \in Context, NEW r \in Nat, Fits(c, r), Empty(c) => ~c.paused
    PROVE  /\ Created(c, r) \in Context
           /\ ~Empty(Created(c, r))
           /\ Fits(Created(c, r), r)
           /\ Created(c, r).paused <=> c.paused
           /\ ~Empty(c) => Created(c, r) = c
           /\ AgesAt(Created(c, r), r) = IF Empty(c) THEN <<0>> ELSE AgesAt(c, r)
<1>1. CASE ~Empty(c)
  BY <1>1 DEF Created, Empty
<1>2. CASE Empty(c)
  <2> DEFINE d == Created(c, r)
  <2>1. d = [c EXCEPT !.times = <<r>>]
    BY <1>2 DEF Created, Empty
  <2>2. <<r>> \in Seq(Nat) /\ Len(<<r>>) = 1 /\ <<r>>[1] = r /\ <<r>> # <<>>
    OBVIOUS
  <2>3. d \in Context
    BY <2>1, <2>2 DEF Context
  <2>4. d.times = <<r>> /\ (d.paused <=> c.paused) /\ ~d.paused
    BY <1>2, <2>1 DEF Context
  <2> HIDE DEF d
  <2>5. At(d, r) = r
    BY <2>4 DEF At
  <2>6. Fits(d, r)
    BY <2>2, <2>4, <2>5 DEF Fits
  <2>7. AgesAt(d, r) = [i \in 1..1 |-> 0]
    BY <2>2, <2>4, <2>5 DEF AgesAt
  <2>8. [i \in 1..1 |-> 0] = <<0>>
    OBVIOUS
  <2>9. ~Empty(d)
    BY <2>2, <2>4 DEF Empty
  <2> QED
    BY <1>2, <2>3, <2>4, <2>6, <2>7, <2>8, <2>9 DEF d
<1> QED
  BY <1>1, <1>2

LEMMA PauseStep ==
    ASSUME NEW c \in Context, NEW r \in Nat, Fits(c, r), ~c.paused
    PROVE  /\ Pause(c, r) \in Context
           /\ Fits(Pause(c, r), r)
           /\ Pause(c, r).paused
           /\ Pause(c, r).times = c.times
           /\ AgesAt(Pause(c, r), r) = AgesAt(c, r)
<1> DEFINE d == Pause(c, r)
<1>1. d \in Context
  BY DEF Pause, Context
<1>2. d.paused /\ d.times = c.times /\ d.pausedAt = r
  BY DEF Pause, Context
<1> HIDE DEF d
<1>3. At(d, r) = r /\ At(c, r) = r
  BY <1>2 DEF At
<1>4. Fits(d, r)
  BY <1>2, <1>3 DEF Fits
<1>5. AgesAt(d, r) = AgesAt(c, r)
  BY <1>2, <1>3 DEF AgesAt
<1> QED
  BY <1>1, <1>2, <1>4, <1>5 DEF d

LEMMA ResumeStep ==
    ASSUME NEW c \in Context, NEW r \in Nat, Fits(c, r)
    PROVE  /\ Resume(c, r) \in Context
           /\ Fits(Resume(c, r), r)
           /\ ~Resume(c, r).paused
           /\ Len(Resume(c, r).times) = Len(c.times)
           /\ AgesAt(Resume(c, r), r) = AgesAt(c, r)
<1>1. CASE ~c.paused
  BY <1>1 DEF Resume
<1>2. CASE c.paused
  <2> DEFINE d == Resume(c, r)
             n == Len(c.times)
             ts == [i \in 1..n |-> c.times[i] + (r - c.pausedAt)]
  <2>1. n \in Nat /\ c.pausedAt \in Nat /\ c.pausedAt <= r
    BY <1>2, ContextParts DEF Fits
  <2>2. \A i \in 1..n : c.times[i] \in Nat /\ c.times[i] <= c.pausedAt
    BY <1>2, ContextParts DEF Fits, At
  <2>3. \A i \in 1..n : ts[i] \in Nat /\ ts[i] <= r /\ r - ts[i] = c.pausedAt - c.times[i]
    BY <2>1, <2>2
  <2>4. ts = [i \in 1..n |-> ts[i]]
    OBVIOUS
  <2>5. d = [c EXCEPT !.paused = FALSE, !.times = ts]
    BY <1>2 DEF Resume
  <2> HIDE DEF ts, n, d
  <2>6. ts \in Seq(Nat) /\ Len(ts) = n
    BY <2>1, <2>3, <2>4, MapIsSeq
  <2>7. d \in Context
    BY <2>5, <2>6 DEF Context
  <2>8. ~d.paused /\ d.times = ts
    BY <2>5 DEF Context
  <2>9. At(d, r) = r /\ At(c, r) = c.pausedAt
    BY <1>2, <2>8 DEF At
  <2>10. Fits(d, r)
    BY <2>3, <2>6, <2>8, <2>9 DEF Fits
  <2>11. AgesAt(d, r) = [i \in 1..n |-> r - ts[i]]
    BY <2>6, <2>8, <2>9 DEF AgesAt
  <2>12. AgesAt(c, r) = [i \in 1..n |-> c.pausedAt - c.times[i]]
    BY <2>9 DEF AgesAt, n
  <2>13. AgesAt(d, r) = AgesAt(c, r)
    BY <2>3, <2>11, <2>12
  <2> QED
    BY <2>6, <2>7, <2>8, <2>10, <2>13 DEF d, n
<1> QED
  BY <1>1, <1>2

LEMMA CalledStep ==
    ASSUME NEW c \in Context, NEW r \in Nat, Fits(c, r), ~c.paused
    PROVE  LET d == [c EXCEPT !.times = Append(@, r)]
           IN  /\ d \in Context
               /\ Fits(d, r)
               /\ ~d.paused
               /\ ~Empty(d)
               /\ AgesAt(d, r) = Append(AgesAt(c, r), 0)
<1> DEFINE n == Len(c.times)
           ts == Append(c.times, r)
           d == [c EXCEPT !.times = ts]
<1>1. c.times \in Seq(Nat) /\ n \in Nat
  BY ContextParts
<1>2. /\ ts \in Seq(Nat) /\ Len(ts) = n + 1 /\ ts[n + 1] = r
      /\ \A i \in 1..n : ts[i] = c.times[i]
  BY <1>1, AppendProperties
<1>3. d \in Context /\ ~d.paused /\ d.times = ts
  BY <1>2 DEF Context
<1> HIDE DEF n, ts, d
<1>4. At(d, r) = r /\ At(c, r) = r
  BY <1>3 DEF At
<1>5. Fits(d, r)
  <2> SUFFICES ASSUME NEW i \in 1..(n + 1) PROVE ts[i] <= r
    BY <1>2, <1>3, <1>4 DEF Fits
  <2>1. i \in 1..n \/ i = n + 1
    BY <1>1
  <2> QED
    BY <1>2, <1>4, <2>1 DEF Fits, n
<1>6. ~Empty(d)
  BY <1>1, <1>2, <1>3, ContextParts
<1>7. AgesAt(d, r) = Append(AgesAt(c, r), 0)
  <2>1. AgesAt(d, r) = [i \in 1..(n + 1) |-> r - ts[i]]
    BY <1>2, <1>3, <1>4 DEF AgesAt
  <2> DEFINE a == [i \in 1..n |-> r - c.times[i]]
  <2>2. AgesAt(c, r) = a
    BY <1>4 DEF AgesAt, n
  <2>3. a = [i \in 1..n |-> a[i]] /\ \A i \in 1..n : a[i] \in Nat
    BY <1>4, ContextParts DEF Fits, n
  <2> HIDE DEF a
  <2>4. a \in Seq(Nat) /\ Len(a) = n
    BY <1>1, <2>3, MapIsSeq
  <2> DEFINE b == Append(a, 0)
  <2>5. /\ b \in Seq(Nat) /\ Len(b) = n + 1 /\ b[n + 1] = 0
        /\ \A i \in 1..n : b[i] = a[i]
    BY <2>4, AppendProperties
  <2>6. b = [i \in 1..(n + 1) |-> b[i]]
    <3>1. b \in [1..(n + 1) -> Nat]
      BY <2>5, LenProperties
    <3> QED
      BY <3>1
  <2> HIDE DEF b
  <2>7. \A i \in 1..(n + 1) : b[i] = r - ts[i]
    <3> SUFFICES ASSUME NEW i \in 1..(n + 1) PROVE b[i] = r - ts[i]
      OBVIOUS
    <3>1. CASE i \in 1..n
      BY <1>2, <2>5, <3>1 DEF a
    <3>2. CASE i = n + 1
      BY <1>2, <2>5, <3>2
    <3> QED
      BY <1>1, <3>1, <3>2
  <2> QED
    BY <2>1, <2>2, <2>6, <2>7 DEF b
<1> QED
  BY <1>3, <1>5, <1>6, <1>7 DEF d, ts

\* A sequence without its last element.
LEMMA FrontStep ==
    ASSUME NEW s \in Seq(Nat), Len(s) > 0
    PROVE  LET f == SubSeq(s, 1, Len(s) - 1)
           IN  /\ f \in Seq(Nat) /\ Len(f) = Len(s) - 1
               /\ \A i \in 1..(Len(s) - 1) : f[i] = s[i]
<1> DEFINE k == Len(s) - 1
           f == SubSeq(s, 1, k)
<1>1. k \in Nat /\ k \in Int /\ 1 \in Int
  BY LenProperties
<1>2. \A i \in 1..k : s[i] \in Nat
  BY LenProperties, ElementOfSeq
<1> HIDE DEF k
<1>3. /\ f \in Seq(Nat) /\ Len(f) = IF 1 <= k THEN k - 1 + 1 ELSE 0
      /\ \A i \in 1..(k - 1 + 1) : f[i] = s[1 + i - 1]
  BY <1>1, <1>2, SubSeqProperties
<1> HIDE DEF f
<1>4. Len(f) = k /\ \A i \in 1..k : f[i] = s[i]
  <2>1. k - 1 + 1 = k /\ (~(1 <= k) => k = 0)
    BY <1>1
  <2>2. \A i \in 1..k : 1 + i - 1 = i
    BY <1>1
  <2> QED
    BY <1>3, <2>1, <2>2
<1> QED
  BY <1>3, <1>4 DEF f, k

LEMMA ReturnedStep ==
    ASSUME NEW c \in Context, NEW r \in Nat, Fits(c, r), ~c.paused,
           Len(c.times) > 1
    PROVE  LET n == Len(c.times)
               d == [c EXCEPT !.times = SubSeq(@, 1, n - 1)]
           IN  /\ d \in Context
               /\ Fits(d, r)
               /\ ~d.paused
               /\ ~Empty(d)
               /\ AgesAt(d, r) = SubSeq(AgesAt(c, r), 1, Len(AgesAt(c, r)) - 1)
               /\ Len(AgesAt(c, r)) = n
               /\ AgesAt(c, r)[Len(AgesAt(c, r))] = r - c.times[n]
               /\ r - c.times[n] \in Nat
<1> DEFINE n == Len(c.times)
           ts == SubSeq(c.times, 1, n - 1)
           d == [c EXCEPT !.times = ts]
           a == [i \in 1..n |-> r - c.times[i]]
<1>1. c.times \in Seq(Nat) /\ n \in Nat /\ n > 1
  BY ContextParts
<1>2. /\ ts \in Seq(Nat) /\ Len(ts) = n - 1
      /\ \A i \in 1..(n - 1) : ts[i] = c.times[i]
  BY <1>1, FrontStep DEF n
<1>3. d \in Context /\ ~d.paused /\ d.times = ts
  BY <1>2 DEF Context
<1>4. a = [i \in 1..n |-> a[i]]
  OBVIOUS
<1> HIDE DEF n, ts, d
<1>5. At(d, r) = r /\ At(c, r) = r
  BY <1>3 DEF At
<1>6. \A i \in 1..n : c.times[i] \in Nat /\ c.times[i] <= r
  BY <1>5, ContextParts DEF Fits, n
<1>7. Fits(d, r)
  <2>1. \A i \in 1..(n - 1) : i \in 1..n
    BY <1>1
  <2>2. \A i \in 1..(n - 1) : ts[i] <= r
    BY <1>2, <1>6, <2>1
  <2> QED
    BY <1>2, <1>3, <1>5, <2>2 DEF Fits
<1>8. ~Empty(d)
  BY <1>1, <1>2, <1>3, ContextParts
<1>9. AgesAt(c, r) = a
  BY <1>5 DEF AgesAt, n
<1>10. \A i \in 1..n : a[i] = r - c.times[i] /\ a[i] \in Nat
  BY <1>6
<1> HIDE DEF a
<1>11. a \in Seq(Nat) /\ Len(a) = n
  BY <1>1, <1>4, <1>10, MapIsSeq
<1>12. AgesAt(d, r) = SubSeq(a, 1, n - 1)
  <2>1. AgesAt(d, r) = [i \in 1..(n - 1) |-> r - ts[i]]
    BY <1>2, <1>3, <1>5 DEF AgesAt
  <2> DEFINE b == SubSeq(a, 1, n - 1)
  <2>2. b \in Seq(Nat) /\ Len(b) = n - 1 /\ \A i \in 1..(n - 1) : b[i] = a[i]
    BY <1>1, <1>11, FrontStep
  <2> HIDE DEF b
  <2>3. b = [i \in 1..(n - 1) |-> b[i]]
    <3>1. b \in [1..(n - 1) -> Nat]
      BY <2>2, LenProperties
    <3> QED
      BY <3>1
  <2>4. \A i \in 1..(n - 1) : b[i] = r - ts[i]
    <3>1. \A i \in 1..(n - 1) : i \in 1..n
      BY <1>1
    <3> QED
      BY <1>2, <1>10, <2>2, <3>1
  <2> QED
    BY <2>1, <2>3, <2>4 DEF b
<1>13. r - c.times[n] \in Nat /\ a[n] = r - c.times[n]
  BY <1>1, <1>6, <1>10
<1> QED
  BY <1>13, <1>1, <1>3, <1>7, <1>8, <1>9, <1>10, <1>11, <1>12 DEF d, ts, n

-----------------------------------------------------------------------------
(* One context: what its ages are, and the passing of time.                *)

LEMMA AgesStep ==
    ASSUME NEW c \in Context, NEW r \in Nat, Fits(c, r)
    PROVE  /\ AgesAt(c, r) \in Seq(Nat)
           /\ Len(AgesAt(c, r)) = Len(c.times)
           /\ AgesAt(c, r) = <<>> <=> Empty(c)
<1> DEFINE a == AgesAt(c, r)
           n == Len(c.times)
<1>1. n \in Nat /\ At(c, r) \in Nat
  BY ContextParts DEF At
<1>2. a = [i \in 1..n |-> At(c, r) - c.times[i]]
  BY DEF AgesAt
<1>3. \A i \in 1..n : c.times[i] \in Nat /\ c.times[i] <= At(c, r)
  BY ContextParts DEF Fits
<1>4. a = [i \in 1..n |-> a[i]] /\ \A i \in 1..n : a[i] \in Nat
  BY <1>1, <1>2, <1>3
<1>5. n = 0 <=> Empty(c)
  BY ContextParts
<1> HIDE DEF a, n
<1>6. a \in Seq(Nat) /\ Len(a) = n
  BY <1>1, <1>4, MapIsSeq
<1>7. a = <<>> <=> n = 0
  BY <1>6, EmptySeq
<1> QED
  BY <1>5, <1>6, <1>7 DEF a, n

LEMMA TickStep ==
    ASSUME NEW c \in Context, NEW r \in Nat, Fits(c, r)
    PROVE  /\ Fits(c, r + 1)
           /\ c.paused \/ Empty(c) => AgesAt(c, r + 1) = AgesAt(c, r)
           /\ ~c.paused => AgesAt(c, r + 1) =
                [i \in 1..Len(AgesAt(c, r)) |-> AgesAt(c, r)[i] + 1]
<1>1. Len(c.times) \in Nat /\ \A i \in 1..Len(c.times) : c.times[i] \in Nat
  BY ContextParts
<1>2. c.pausedAt \in Nat
  BY ContextParts
<1>3. CASE c.paused
  BY <1>1, <1>2, <1>3 DEF Fits, At, AgesAt
<1>4. CASE ~c.paused
  <2> DEFINE n == Len(c.times)
             a == AgesAt(c, r)
  <2>1. At(c, r) = r /\ At(c, r + 1) = r + 1
    BY <1>4 DEF At
  <2>2. a = [i \in 1..n |-> r - c.times[i]]
    BY <2>1 DEF AgesAt
  <2>3. AgesAt(c, r + 1) = [i \in 1..n |-> (r + 1) - c.times[i]]
    BY <2>1 DEF AgesAt
  <2>4. Len(a) = n
    BY AgesStep
  <2>5. Fits(c, r + 1)
    BY <1>1, <1>4, <2>1 DEF Fits
  <2>6. Empty(c) => AgesAt(c, r + 1) = a
    <3>1. Empty(c) => n = 0
      BY ContextParts
    <3> HIDE DEF n, a
    <3>2. 1..0 = {}
      OBVIOUS
    <3> QED
      BY <2>2, <2>3, <3>1, <3>2
  <2>7. [i \in 1..n |-> a[i] + 1] = [i \in 1..n |-> (r + 1) - c.times[i]]
    <3>1. \A i \in 1..n : a[i] + 1 = (r + 1) - c.times[i]
      BY <1>1, <2>2
    <3> QED
      BY <3>1
  <2> QED
    BY <1>4, <2>3, <2>4, <2>5, <2>6, <2>7
<1> QED
  BY <1>3, <1>4

LEMMA ProfileThreadStep ==
    ASSUME NEW c \in Context, NEW r \in Nat, Fits(c, r), ~c.paused
    PROVE  LET d == ProfileThread(c, r)
           IN  /\ d \in Context
               /\ Fits(d, r)
               /\ ~d.paused
               /\ ~Empty(d)
               /\ AgesAt(d, r) = IF Empty(c) THEN <<0>> ELSE AgesAt(c, r)
<1> DEFINE e == Created(c, r)
           d == [e EXCEPT !.paused = FALSE, !.pausedAt = 0]
<1>1. /\ e \in Context /\ ~Empty(e) /\ Fits(e, r) /\ ~e.paused
      /\ AgesAt(e, r) = IF Empty(c) THEN <<0>> ELSE AgesAt(c, r)
  BY CreatedStep
<1> HIDE DEF e
<1>2. d \in Context /\ ~d.paused /\ d.times = e.times
  BY <1>1 DEF Context
<1>3. d = ProfileThread(c, r)
  BY DEF ProfileThread, e
<1> HIDE DEF d
<1>4. At(d, r) = r /\ At(e, r) = r
  BY <1>1, <1>2 DEF At
<1>5. Fits(d, r) /\ ~Empty(d)
  BY <1>1, <1>2, <1>4 DEF Fits, Empty
<1>6. AgesAt(d, r) = AgesAt(e, r)
  BY <1>2, <1>4 DEF AgesAt
<1> QED
  BY <1>1, <1>2, <1>3, <1>5, <1>6

-----------------------------------------------------------------------------
(* The table of contexts, with the greenlets the threads were last seen in. *)

\* A context of greenlet g, whose thread was last seen in q at time r.
GreenletSound(c, g, q, r) ==
    /\ Fits(c, r)
    /\ IF Empty(c) THEN ~c.paused /\ q # g ELSE c.paused <=> q # g
    /\ q = NoGreenlet => Empty(c)

Sound(ck, table, p) ==
    /\ table \in [Greenlet -> Context]
    /\ p \in [Thread -> Greenlet \cup {NoGreenlet}]
    /\ \A t \in Thread : p[t] # NoGreenlet => ThreadOf[p[t]] = t
    /\ \A g \in Greenlet :
         GreenletSound(table[g], g, p[ThreadOf[g]], ck[ThreadOf[g]])

ActiveOnThread == \A t \in Thread : ThreadOf[active[t]] = t

\* What the promised greenlet times need: stamps that are not in the future,
\* a greenlet seen last in its own thread only, and no context in a thread in
\* which none was seen.
IInv == TypeOK /\ Sound(clock, contexts, prev) /\ ActiveOnThread

\* The ages of all greenlets, and what an event of g in a thread makes of them.
AgesOf(ck, table) == [g \in Greenlet |-> AgesAt(table[g], ck[ThreadOf[g]])]
BegunIn(as, g) == IF as[g] = <<>> THEN <<0>> ELSE as[g]

\* The context of the greenlet that runs may have been replaced, by d, before
\* the event is noticed: ProfileThread does so.
LEMMA NoticedStep ==
    ASSUME IInv, NEW t \in Thread, NEW d \in Context,
           Fits(d, clock[t]), d.paused <=> contexts[active[t]].paused,
           Empty(d) => ~d.paused,
           AgesAt(Created(d, clock[t]), clock[t]) =
             BegunIn(AgesOf(clock, contexts), active[t])
    PROVE  LET g     == active[t]
               table == Noticed([contexts EXCEPT ![g] = d], t)
           IN  /\ Sound(clock, table, PrevNoticed(t))
               /\ ~table[g].paused /\ ~Empty(table[g])
               /\ AgesOf(clock, table) = [AgesOf(clock, contexts) EXCEPT
                                            ![g] = BegunIn(AgesOf(clock, contexts), g)]
<1> DEFINE g == active[t]
           r == clock[t]
           p == prev[t]
           e == Created(d, r)
           x == Resume(e, r)
           y == Pause(contexts[p], r)
           first == [contexts EXCEPT ![g] = e]
           table == Noticed([contexts EXCEPT ![g] = d], t)
           as == AgesOf(clock, contexts)
<1>1. /\ contexts \in [Greenlet -> Context] /\ r \in Nat
      /\ g \in Greenlet /\ ThreadOf[g] = t
      /\ ThreadOf \in [Greenlet -> Thread]
      /\ prev \in [Thread -> Greenlet \cup {NoGreenlet}]
      /\ NoGreenlet \notin Greenlet
  BY GreenletsAssumption DEF IInv, TypeOK, ActiveOnThread
<1>2. \A h \in Greenlet :
        GreenletSound(contexts[h], h, prev[ThreadOf[h]], clock[ThreadOf[h]])
  BY DEF IInv, Sound
<1>3. p # NoGreenlet => p \in Greenlet /\ ThreadOf[p] = t
  BY <1>1 DEF IInv, Sound
<1>4. /\ e \in Context /\ ~Empty(e) /\ Fits(e, r) /\ (e.paused <=> d.paused)
      /\ AgesAt(e, r) = BegunIn(as, g)
  BY <1>1, CreatedStep
<1>5. table = SwitchedFrom(p, first, g, r)
  BY <1>1 DEF Noticed
<1> HIDE DEF e
<1>6. /\ x \in Context /\ Fits(x, r) /\ ~x.paused
      /\ AgesAt(x, r) = AgesAt(e, r) /\ ~Empty(x)
  <2>1. /\ x \in Context /\ Fits(x, r) /\ ~x.paused
        /\ AgesAt(x, r) = AgesAt(e, r) /\ Len(x.times) = Len(e.times)
    BY <1>1, <1>4, ResumeStep
  <2> HIDE DEF x
  <2>2. ~Empty(x)
    BY <2>1, <1>4, ContextParts
  <2> QED
    BY <2>1, <2>2
<1>7. ASSUME p \notin {NoGreenlet, g}
      PROVE  /\ y \in Context /\ Fits(y, r) /\ y.paused
             /\ AgesAt(y, r) = AgesAt(contexts[p], r) /\ ~Empty(y)
  <2>1. p \in Greenlet /\ ThreadOf[p] = t /\ contexts[p] \in Context
    BY <1>1, <1>3, <1>7
  <2>2. ~Empty(contexts[p]) /\ ~contexts[p].paused /\ Fits(contexts[p], r)
    BY <1>2, <2>1 DEF GreenletSound
  <2>3. /\ y \in Context /\ Fits(y, r) /\ y.paused /\ y.times = contexts[p].times
        /\ AgesAt(y, r) = AgesAt(contexts[p], r)
    BY <1>1, <2>1, <2>2, PauseStep
  <2> QED
    BY <2>2, <2>3 DEF Empty
<1>8. p \in {NoGreenlet, g} => ~e.paused
  BY <1>1, <1>2, <1>4 DEF GreenletSound
\* What the table holds for the greenlet that runs, and for another one.
<1>9. /\ table \in [Greenlet -> Context]
      /\ table[g] = IF p \in {NoGreenlet, g} THEN e ELSE x
      /\ \A h \in Greenlet \ {g} :
           table[h] = IF p \notin {NoGreenlet, g} /\ h = p THEN y ELSE contexts[h]
  <2>1. CASE p \in {NoGreenlet, g}
    <3>1. table = first
      BY <1>5, <2>1 DEF SwitchedFrom
    <3> HIDE DEF table, x, y
    <3>2. /\ table \in [Greenlet -> Context] /\ table[g] = e
          /\ \A h \in Greenlet \ {g} : table[h] = contexts[h]
      BY <1>1, <1>4, <3>1
    <3> HIDE DEF first
    <3> QED
      BY <2>1, <3>2
  <2>2. CASE p \notin {NoGreenlet, g}
    <3>1. table = [first EXCEPT ![p] = Pause(@, r), ![g] = Resume(@, r)]
      BY <1>5, <2>2 DEF SwitchedFrom
    <3>2. first \in [Greenlet -> Context] /\ first[p] = contexts[p] /\ first[g] = e
      BY <1>1, <1>3, <1>4, <2>2
    <3> HIDE DEF first, table
    <3>3. table = [first EXCEPT ![p] = y, ![g] = x]
      BY <1>1, <1>3, <2>2, <3>1, <3>2
    <3>4. \A h \in Greenlet \ {g} : first[h] = contexts[h]
      BY <1>1 DEF first
    <3> HIDE DEF x, y
    <3> QED
      BY <1>1, <1>3, <1>6, <1>7, <2>2, <3>2, <3>3, <3>4
  <2> QED
    BY <2>1, <2>2
<1> HIDE DEF table, x, y
<1>10. ~table[g].paused /\ ~Empty(table[g]) /\ Fits(table[g], r)
       /\ AgesAt(table[g], r) = BegunIn(as, g)
  BY <1>4, <1>6, <1>8, <1>9
<1>11. \A h \in Greenlet \ {g} :
         AgesAt(table[h], clock[ThreadOf[h]]) = AgesAt(contexts[h], clock[ThreadOf[h]])
  BY <1>3, <1>7, <1>9
<1>12. AgesOf(clock, table) = [as EXCEPT ![g] = BegunIn(as, g)]
  <2>1. \A h \in Greenlet : AgesAt(table[h], clock[ThreadOf[h]]) =
          [as EXCEPT ![g] = BegunIn(as, g)][h]
    BY <1>1, <1>10, <1>11 DEF AgesOf
  <2> QED
    BY <2>1 DEF AgesOf
<1>13. Sound(clock, table, PrevNoticed(t))
  <2> DEFINE q == PrevNoticed(t)
  <2>1. q \in [Thread -> Greenlet \cup {NoGreenlet}] /\ q[t] = g
        /\ \A u \in Thread \ {t} : q[u] = prev[u]
    BY <1>1 DEF PrevNoticed
  <2>2. \A u \in Thread : q[u] # NoGreenlet => ThreadOf[q[u]] = u
    BY <1>1, <2>1 DEF IInv, Sound
  <2> HIDE DEF q
  <2>3. ASSUME NEW h \in Greenlet
        PROVE  GreenletSound(table[h], h, q[ThreadOf[h]], clock[ThreadOf[h]])
    <3>1. CASE h = g
      BY <1>1, <1>10, <2>1, <3>1 DEF GreenletSound
    <3>2. CASE h # g /\ p \notin {NoGreenlet, g} /\ h = p
      BY <1>1, <1>3, <1>7, <1>9, <2>1, <3>2 DEF GreenletSound
    <3>3. CASE h # g /\ ~(p \notin {NoGreenlet, g} /\ h = p)
      <4>1. table[h] = contexts[h]
        BY <1>9, <3>3
      <4>2. CASE ThreadOf[h] # t
        BY <1>1, <1>2, <2>1, <4>1, <4>2 DEF GreenletSound
      <4>3. CASE ThreadOf[h] = t
        <5>1. q[ThreadOf[h]] = g /\ prev[ThreadOf[h]] # h
          BY <1>1, <2>1, <3>3, <4>3
        <5> QED
          BY <1>1, <1>2, <3>3, <4>1, <5>1 DEF GreenletSound
      <4> QED
        BY <4>2, <4>3
    <3> QED
      BY <3>1, <3>2, <3>3
  <2> QED
    BY <1>9, <2>1, <2>2, <2>3 DEF Sound, q
<1> QED
  BY <1>10, <1>12, <1>13 DEF table

LEMMA EventStep ==
    ASSUME IInv, NEW t \in Thread
    PROVE  LET g     == active[t]
               table == Noticed(contexts, t)
           IN  /\ Sound(clock, table, PrevNoticed(t))
               /\ ~table[g].paused /\ ~Empty(table[g])
               /\ AgesOf(clock, table) = [AgesOf(clock, contexts) EXCEPT
                                            ![g] = BegunIn(AgesOf(clock, contexts), g)]
<1> DEFINE g == active[t]
           r == clock[t]
           c == contexts[g]
<1>1. /\ contexts \in [Greenlet -> Context] /\ r \in Nat
      /\ g \in Greenlet /\ ThreadOf[g] = t /\ c \in Context
      /\ GreenletSound(c, g, prev[t], r)
  BY DEF IInv, TypeOK, ActiveOnThread, Sound
<1>2. Fits(c, r) /\ (Empty(c) => ~c.paused)
  BY <1>1 DEF GreenletSound
<1>3. AgesOf(clock, contexts)[g] = AgesAt(c, r)
  BY <1>1 DEF AgesOf
<1>4. AgesAt(Created(c, r), r) = IF Empty(c) THEN <<0>> ELSE AgesAt(c, r)
  BY <1>1, <1>2, CreatedStep
<1>5. AgesAt(c, r) = <<>> <=> Empty(c)
  BY <1>1, <1>2, AgesStep
<1>6. AgesAt(Created(c, r), r) = BegunIn(AgesOf(clock, contexts), g)
  BY <1>3, <1>4, <1>5 DEF BegunIn
<1>7. [contexts EXCEPT ![g] = c] = contexts
  BY <1>1
<1> HIDE DEF c
<1>8. c.paused <=> contexts[g].paused
  BY DEF c
<1> QED
  BY <1>1, <1>2, <1>6, <1>7, <1>8, NoticedStep

\* The context of a greenlet that runs.
Live(c, r) == Fits(c, r) /\ ~c.paused /\ ~Empty(c)

\* The ages of one greenlet alone are new: those of context c.
OnlyAge(ck, old, new, own, c) ==
    AgesOf(ck, new) =
      [AgesOf(ck, old) EXCEPT ![own] = AgesAt(c, ck[ThreadOf[own]])]

LEMMA ReplacedStep ==
    ASSUME NEW ck, NEW old, NEW seen, Sound(ck, old, seen),
           NEW own \in Greenlet, seen[ThreadOf[own]] = own, NEW c \in Context,
           Live(c, ck[ThreadOf[own]]),
           NEW new, new = [old EXCEPT ![own] = c]
    PROVE  Sound(ck, new, seen) /\ OnlyAge(ck, old, new, own, c)
<1>1. /\ new \in [Greenlet -> Context] /\ new[own] = c
      /\ \A h \in Greenlet \ {own} : new[h] = old[h]
  BY DEF Sound
<1>2. GreenletSound(c, own, seen[ThreadOf[own]], ck[ThreadOf[own]])
  BY GreenletsAssumption DEF GreenletSound, Live
<1>3. \A h \in Greenlet :
        GreenletSound(new[h], h, seen[ThreadOf[h]], ck[ThreadOf[h]])
  BY <1>1, <1>2 DEF Sound
<1>4. Sound(ck, new, seen)
  BY <1>1, <1>3 DEF Sound
<1>5. OnlyAge(ck, old, new, own, c)
  BY <1>1 DEF AgesOf, OnlyAge
<1> QED
  BY <1>4, <1>5

-----------------------------------------------------------------------------
(* The steps of the profiler are steps of GreenletTimes.                   *)

Promises == Promised!Next \/ UNCHANGED Promised!vars

LEMMA SeeIs ==
    ASSUME NEW t \in Thread, NEW g \in Greenlet,
           prev' = [prev EXCEPT ![t] = g],
           AgesOf(clock, contexts)' =
             [AgesOf(clock, contexts) EXCEPT ![g] = BegunIn(AgesOf(clock, contexts), g)],
           elapsed' = elapsed
    PROVE  Promises
<1>1. Promised!See(t, g)
  BY DEF Promised!See, Promised!Begun, AgesOf, BegunIn, Ages, Reading, AgesAt, At
<1> QED
  BY <1>1 DEF Promises, Promised!Next

LEMMA TickAction ==
    ASSUME IInv, NEW t \in Thread, Tick(t)
    PROVE  IInv' /\ Promises
<1> DEFINE as == AgesOf(clock, contexts)
<1> USE GreenletsAssumption
<1>1. /\ clock' \in [Thread -> Nat] /\ clock'[t] = clock[t] + 1 /\ clock[t] \in Nat
      /\ \A u \in Thread \ {t} : clock'[u] = clock[u]
      /\ contexts' = contexts /\ prev' = prev /\ elapsed' = elapsed
      /\ TypeOK' /\ ActiveOnThread'
  BY DEF IInv, TypeOK, Tick, session, ActiveOnThread
<1>2. /\ contexts \in [Greenlet -> Context]
      /\ \A g \in Greenlet :
           GreenletSound(contexts[g], g, prev[ThreadOf[g]], clock[ThreadOf[g]])
  BY DEF IInv, Sound
<1>3. ASSUME NEW g \in Greenlet
      PROVE  /\ GreenletSound(contexts[g], g, prev[ThreadOf[g]], clock'[ThreadOf[g]])
             /\ as'[g] = IF prev[t] = g THEN [i \in 1..Len(as[g]) |-> as[g][i] + 1]
                         ELSE as[g]
  <2> DEFINE c == contexts[g]
  <2>1. /\ c \in Context /\ GreenletSound(c, g, prev[ThreadOf[g]], clock[ThreadOf[g]])
        /\ as[g] = AgesAt(c, clock[ThreadOf[g]]) /\ as'[g] = AgesAt(c, clock'[ThreadOf[g]])
    BY <1>1, <1>2 DEF AgesOf
  <2>2. prev[t] = g => ThreadOf[g] = t
    BY DEF IInv, Sound
  <2> HIDE DEF c, as
  <2>3. CASE ThreadOf[g] # t
    BY <1>1, <2>1, <2>2, <2>3 DEF c
  <2>4. CASE ThreadOf[g] = t
    <3>1. Fits(c, clock[t])
      BY <2>1, <2>4 DEF GreenletSound
    <3>2. /\ Fits(c, clock'[t])
          /\ c.paused \/ Empty(c) => as'[g] = as[g]
          /\ ~c.paused => as'[g] = [i \in 1..Len(as[g]) |-> as[g][i] + 1]
      <4> DEFINE r == clock[t]
      <4>1. clock'[t] = r + 1 /\ r \in Nat
        BY <1>1
      <4> HIDE DEF r
      <4>2. as[g] = AgesAt(c, r) /\ as'[g] = AgesAt(c, r + 1) /\ Fits(c, r)
        BY <2>1, <2>4, <3>1, <4>1 DEF r
      <4>3. /\ Fits(c, r + 1)
            /\ c.paused \/ Empty(c) => AgesAt(c, r + 1) = AgesAt(c, r)
            /\ ~c.paused => AgesAt(c, r + 1) =
                 [i \in 1..Len(AgesAt(c, r)) |-> AgesAt(c, r)[i] + 1]
        BY <2>1, <4>1, <4>2, TickStep
      <4> QED
        BY <4>1, <4>2, <4>3
    <3>3. IF prev[t] = g THEN ~c.paused ELSE c.paused \/ Empty(c)
      BY <2>1, <2>4 DEF GreenletSound
    <3>4. GreenletSound(c, g, prev[t], clock'[t])
      BY <2>1, <2>4, <3>2 DEF GreenletSound
    <3> QED
      BY <2>4, <3>2, <3>3, <3>4 DEF c
  <2> QED
    BY <2>3, <2>4
<1>4. IInv'
  BY <1>1, <1>3 DEF IInv, Sound
<1>5. as = [g \in Greenlet |-> Ages(g)] /\ as' = [g \in Greenlet |-> Ages(g)']
  BY DEF AgesOf, Ages, Reading, AgesAt, At
<1>6. as = [g \in Greenlet |-> as[g]] /\ as' = [g \in Greenlet |-> as'[g]]
  BY <1>5
<1> HIDE DEF as
<1>7. CASE prev[t] = NoGreenlet
  <2>1. as' = as
    BY <1>3, <1>6, <1>7
  <2> QED
    BY <1>1, <1>4, <1>5, <2>1 DEF Promises, Promised!vars
<1>8. CASE prev[t] # NoGreenlet
  <2>1. prev[t] \in Greenlet
    BY <1>8 DEF IInv, TypeOK
  <2>2. as' = [as EXCEPT ![prev[t]] = [i \in 1..Len(@) |-> @[i] + 1]]
    BY <1>3, <1>6, <2>1
  <2>3. Promised!Pass(t)
    BY <1>1, <1>8, <2>2 DEF Promised!Pass, as, AgesOf, Ages, Reading, AgesAt, At
  <2> QED
    BY <1>4, <2>3 DEF Promises, Promised!Next
<1> QED
  BY <1>7, <1>8

LEMMA LookAction ==
    ASSUME IInv, NEW t \in Thread, Look(t)
    PROVE  IInv' /\ Promises
<1>1. active[t] \in Greenlet
  BY DEF IInv, TypeOK
<1>2. /\ prev' = PrevNoticed(t) /\ contexts' = Noticed(contexts, t)
      /\ UNCHANGED <<clock, active, session, elapsed>>
  BY DEF Look, Event
<1>3. Sound(clock', contexts', prev')
  BY <1>2, EventStep
<1>4. IInv'
  BY <1>2, <1>3 DEF IInv, TypeOK, Sound, session, ActiveOnThread
<1>5. AgesOf(clock, contexts)' = [AgesOf(clock, contexts) EXCEPT
        ![active[t]] = BegunIn(AgesOf(clock, contexts), active[t])]
  BY <1>2, EventStep
<1>6. prev' = [prev EXCEPT ![t] = active[t]]
  BY <1>2 DEF PrevNoticed
<1> QED
  BY <1>1, <1>2, <1>4, <1>5, <1>6, SeeIs

LEMMA CallAction ==
    ASSUME IInv, NEW t \in Thread, Call(t)
    PROVE  IInv' /\ Promises
<1> DEFINE g == active[t]
           r == clock[t]
           table == Noticed(contexts, t)
           q == PrevNoticed(t)
           d == [table[g] EXCEPT !.times = Append(@, r)]
           as == AgesOf(clock, contexts)
<1>1. g \in Greenlet /\ ThreadOf[g] = t /\ r \in Nat /\ prev \in [Thread -> Greenlet \cup {NoGreenlet}]
  BY DEF IInv, TypeOK, ActiveOnThread
<1>2. /\ prev' = q /\ q[t] = g /\ contexts' = [table EXCEPT ![g].times = Append(@, r)]
      /\ UNCHANGED <<clock, active, session, elapsed>>
  BY <1>1 DEF Call, Event, PrevNoticed
<1>3. /\ Sound(clock, table, q) /\ ~table[g].paused /\ ~Empty(table[g])
      /\ AgesOf(clock, table) = [as EXCEPT ![g] = BegunIn(as, g)]
  BY EventStep
<1>4. table[g] \in Context /\ Fits(table[g], r)
  BY <1>1, <1>3 DEF Sound, GreenletSound
<1>5. contexts' = [table EXCEPT ![g] = d]
  BY <1>2
<1> HIDE DEF table, q
<1>6. d \in Context /\ Fits(d, r) /\ ~d.paused /\ ~Empty(d)
      /\ AgesAt(d, r) = Append(AgesAt(table[g], r), 0)
  BY <1>1, <1>3, <1>4, CalledStep
<1> HIDE DEF d
<1>7. /\ Sound(clock, contexts', q)
      /\ AgesOf(clock, contexts') = [AgesOf(clock, table) EXCEPT ![g] = AgesAt(d, r)]
  <2>1. q[ThreadOf[g]] = g /\ Fits(d, clock[ThreadOf[g]]) /\ r = clock[ThreadOf[g]]
    BY <1>1, <1>2, <1>6
  <2> HIDE DEF g, r
  <2>2. Live(d, clock[ThreadOf[g]])
    BY <1>6, <2>1 DEF Live
  <2>3. Sound(clock, contexts', q) /\ OnlyAge(clock, table, contexts', g, d)
    BY <1>1, <1>3, <1>5, <1>6, <2>1, <2>2, ReplacedStep
  <2> QED
    BY <2>1, <2>3 DEF OnlyAge
<1>8. IInv'
  <2>1. contexts' \in [Greenlet -> Context]
    BY <1>7 DEF Sound
  <2>2. prev' \in [Thread -> Greenlet \cup {NoGreenlet}]
    BY <1>2, <1>7 DEF Sound
  <2> QED
    BY <1>2, <1>7, <2>1, <2>2 DEF IInv, TypeOK, session, ActiveOnThread
<1>9. AgesOf(clock, table)[g] = AgesAt(table[g], r) /\ as = [h \in Greenlet |-> as[h]]
  BY <1>1 DEF AgesOf
<1> HIDE DEF as
<1>10. AgesAt(table[g], r) = BegunIn(as, g)
  BY <1>1, <1>3, <1>9
<1>11. AgesOf(clock, contexts)' = [as EXCEPT ![g] = Append(BegunIn(as, g), 0)]
  BY <1>1, <1>2, <1>3, <1>6, <1>7, <1>9, <1>10
<1>12. prev' = [prev EXCEPT ![t] = g]
  BY <1>2 DEF PrevNoticed, q
<1>13. Promised!Enter(t, g)
  BY <1>2, <1>11, <1>12
     DEF Promised!Enter, Promised!Begun, as, AgesOf, BegunIn, Ages, Reading, AgesAt, At
<1> QED
  BY <1>1, <1>8, <1>13 DEF Promises, Promised!Next

LEMMA ReturnAction ==
    ASSUME IInv, NEW t \in Thread, Return(t)
    PROVE  IInv' /\ Promises
<1> DEFINE g == active[t]
           r == clock[t]
           table == Noticed(contexts, t)
           q == PrevNoticed(t)
           d == [table[g] EXCEPT !.times = SubSeq(@, 1, Len(table[g].times) - 1)]
           as == AgesOf(clock, contexts)
           a == AgesAt(table[g], r)
<1>1. /\ g \in Greenlet /\ ThreadOf[g] = t /\ r \in Nat
      /\ prev \in [Thread -> Greenlet \cup {NoGreenlet}]
      /\ contexts[g] \in Context /\ Fits(contexts[g], r)
      /\ Len(contexts[g].times) > 1
  BY DEF IInv, TypeOK, ActiveOnThread, Sound, GreenletSound, Return
<1>2. /\ prev' = q /\ q[t] = g
      /\ contexts' = [table EXCEPT ![g].times = SubSeq(@, 1, Len(table[g].times) - 1)]
      /\ elapsed' = r - table[g].times[Len(table[g].times)]
      /\ UNCHANGED <<clock, active, session>>
  BY <1>1 DEF Return, Event, PrevNoticed
<1>3. /\ Sound(clock, table, q) /\ ~table[g].paused /\ ~Empty(table[g])
      /\ AgesOf(clock, table) = [as EXCEPT ![g] = BegunIn(as, g)]
  BY EventStep
<1>4. table[g] \in Context /\ Fits(table[g], r)
  BY <1>1, <1>3 DEF Sound, GreenletSound
<1>5. contexts' = [table EXCEPT ![g] = d]
  BY <1>2
<1> HIDE DEF table, q
<1>6. as[g] = AgesAt(contexts[g], r) /\ as = [h \in Greenlet |-> as[h]]
      /\ AgesOf(clock, table)[g] = a
  BY <1>1 DEF AgesOf
\* The call was there before the event was noticed.
<1>7. as[g] = a /\ Len(as[g]) > 1 /\ Len(table[g].times) > 1
  <2>1. Len(as[g]) = Len(contexts[g].times) /\ (as[g] = <<>> <=> Empty(contexts[g]))
    BY <1>1, <1>6, AgesStep
  <2>2. ~Empty(contexts[g])
    BY <1>1, ContextParts
  <2>3. BegunIn(as, g) = as[g]
    BY <2>1, <2>2 DEF BegunIn
  <2> HIDE DEF as
  <2>4. a = as[g]
    BY <1>1, <1>3, <1>6, <2>3
  <2>5. Len(a) = Len(table[g].times)
    BY <1>1, <1>4, AgesStep
  <2> QED
    BY <1>1, <2>1, <2>4, <2>5
<1>8. /\ d \in Context /\ Fits(d, r) /\ ~d.paused /\ ~Empty(d)
      /\ AgesAt(d, r) = SubSeq(a, 1, Len(a) - 1)
      /\ elapsed' = a[Len(a)] /\ elapsed' \in Nat
  <2>1. LET n == Len(table[g].times)
            e == [table[g] EXCEPT !.times = SubSeq(@, 1, n - 1)]
        IN  /\ e \in Context /\ Fits(e, r) /\ ~e.paused /\ ~Empty(e)
            /\ AgesAt(e, r) = SubSeq(a, 1, Len(a) - 1) /\ Len(a) = n
            /\ a[Len(a)] = r - table[g].times[n]
            /\ r - table[g].times[n] \in Nat
    BY <1>1, <1>3, <1>4, <1>7, ReturnedStep
  <2> QED
    BY <1>2, <2>1
<1> HIDE DEF d, a
<1>9. Sound(clock, contexts', q) /\ OnlyAge(clock, table, contexts', g, d)
  <2>1. q[ThreadOf[g]] = g /\ Fits(d, clock[ThreadOf[g]])
    BY <1>1, <1>2, <1>8
  <2> HIDE DEF g, r
  <2>2. Live(d, clock[ThreadOf[g]])
    BY <1>8, <2>1 DEF Live
  <2> QED
    BY <1>1, <1>3, <1>5, <1>8, <2>1, <2>2, ReplacedStep
<1>10. IInv'
  <2>1. contexts' \in [Greenlet -> Context]
    BY <1>9 DEF Sound
  <2>2. prev' \in [Thread -> Greenlet \cup {NoGreenlet}]
    BY <1>2, <1>9 DEF Sound
  <2> QED
    BY <1>2, <1>8, <1>9, <2>1, <2>2 DEF IInv, TypeOK, session, ActiveOnThread
<1>11. AgesOf(clock, contexts) = as
  OBVIOUS
<1> HIDE DEF as
<1>12. AgesOf(clock, contexts)' = [as EXCEPT ![g] = SubSeq(@, 1, Len(@) - 1)]
  <2>1. AgesOf(clock, contexts') = [AgesOf(clock, table) EXCEPT ![g] = AgesAt(d, r)]
    BY <1>1, <1>9 DEF OnlyAge
  <2> HIDE DEF g, r
  <2>2. AgesOf(clock, contexts') = [as EXCEPT ![g] = SubSeq(as[g], 1, Len(as[g]) - 1)]
    BY <1>1, <1>3, <1>6, <1>7, <1>8, <2>1
  <2> QED
    BY <1>2, <2>2
<1>13. prev' = [prev EXCEPT ![t] = g] /\ elapsed' = as[g][Len(as[g])] /\ Len(as[g]) > 1
  BY <1>2, <1>7, <1>8 DEF PrevNoticed, q
<1>14. Promised!Leave(t, g)
  BY <1>12, <1>13
     DEF Promised!Leave, as, AgesOf, Ages, Reading, AgesAt, At
<1> QED
  BY <1>1, <1>10, <1>14 DEF Promises, Promised!Next

LEMMA StartInAction ==
    ASSUME IInv, NEW t \in Thread, NEW m \in BOOLEAN, KeepsPause(t, m),
           StartIn(t, m, contexts)
    PROVE  IInv' /\ Promises
<1> DEFINE g == active[t]
           r == clock[t]
           c == contexts[g]
           d == ProfileThread(c, r)
           as == AgesOf(clock, contexts)
<1>1. /\ g \in Greenlet /\ ThreadOf[g] = t /\ r \in Nat /\ c \in Context
      /\ contexts \in [Greenlet -> Context] /\ GreenletSound(c, g, prev[t], r)
      /\ prev \in [Thread -> Greenlet \cup {NoGreenlet}]
  BY DEF IInv, TypeOK, ActiveOnThread, Sound
<1>2. /\ prev' = PrevNoticed(t) /\ UNCHANGED <<clock, active, elapsed>>
      /\ running' \in BOOLEAN /\ multi' \in BOOLEAN /\ profiled' \subseteq Thread
      /\ initialCtx' \in Greenlet \cup {NoGreenlet}
  BY <1>1 DEF StartIn, IInv, TypeOK
<1>3. /\ Sound(clock, contexts', PrevNoticed(t))
      /\ AgesOf(clock, contexts') = [as EXCEPT ![g] = BegunIn(as, g)]
  <2>1. CASE m
    BY <2>1, EventStep DEF StartIn
  <2>2. CASE ~m
    <3>1. Fits(c, r) /\ ~c.paused
      BY <1>1, <2>2 DEF KeepsPause, GreenletSound
    <3>2. /\ d \in Context /\ Fits(d, r) /\ ~d.paused /\ ~Empty(d)
          /\ AgesAt(d, r) = IF Empty(c) THEN <<0>> ELSE AgesAt(c, r)
      BY <1>1, <3>1, ProfileThreadStep
    <3>3. as[g] = AgesAt(c, r) /\ (AgesAt(c, r) = <<>> <=> Empty(c))
      BY <1>1, <3>1, AgesStep DEF AgesOf
    <3>4. contexts' = Noticed([contexts EXCEPT ![g] = d], t)
      BY <2>2 DEF StartIn
    <3> HIDE DEF d
    <3>5. Created(d, r) = d
      BY <3>2 DEF Created, Empty
    <3>6. AgesAt(Created(d, r), r) = BegunIn(as, g)
      BY <3>2, <3>3, <3>5 DEF BegunIn
    <3>7. d.paused <=> contexts[g].paused
      BY <3>1, <3>2
    <3> QED
      BY <3>2, <3>4, <3>6, <3>7, NoticedStep
  <2> QED
    BY <2>1, <2>2
<1>4. contexts' \in [Greenlet -> Context]
      /\ prev' \in [Thread -> Greenlet \cup {NoGreenlet}]
  BY <1>2, <1>3 DEF Sound
<1>5. IInv'
  BY <1>2, <1>3, <1>4 DEF IInv, TypeOK, ActiveOnThread
<1>6. AgesOf(clock, contexts)' = [as EXCEPT ![g] = BegunIn(as, g)]
  BY <1>2, <1>3
<1>7. prev' = [prev EXCEPT ![t] = g]
  BY <1>2 DEF PrevNoticed
<1> QED
  BY <1>1, <1>2, <1>5, <1>6, <1>7, SeeIs

\* A switch is seen by nobody, and stop() leaves the contexts alone.
LEMMA UnseenAction ==
    ASSUME IInv, (\E t \in Thread, g \in Greenlet : Switch(t, g)) \/ Stop
    PROVE  IInv' /\ Promises
<1>1. UNCHANGED <<clock, contexts, prev, elapsed>>
  BY DEF Switch, Stop
<1>2. CASE \E t \in Thread, g \in Greenlet : Switch(t, g)
  <2>1. IInv'
    BY <1>2 DEF Switch, session, IInv, TypeOK, ActiveOnThread, Sound
  <2> QED
    BY <1>1, <2>1 DEF Promises, Promised!vars, Ages, Reading
<1>3. CASE Stop
  <2>1. IInv'
    BY <1>3 DEF Stop, IInv, TypeOK, ActiveOnThread, Sound
  <2> QED
    BY <1>1, <2>1 DEF Promises, Promised!vars, Ages, Reading
<1> QED
  BY <1>2, <1>3

LEMMA NoContextFacts ==
    /\ NoContext \in Context /\ Empty(NoContext) /\ ~NoContext.paused
    /\ \A r \in Nat : Fits(NoContext, r) /\ AgesAt(NoContext, r) = <<>>
<1>1. /\ NoContext \in Context /\ NoContext.times = <<>> /\ ~NoContext.paused
      /\ Len(NoContext.times) = 0
  BY DEF NoContext, Context
<1>2. Empty(NoContext)
  BY <1>1 DEF Empty
<1> HIDE DEF NoContext
<1>3. ASSUME NEW r \in Nat PROVE Fits(NoContext, r) /\ AgesAt(NoContext, r) = <<>>
  <2>1. Fits(NoContext, r)
    BY <1>1 DEF Fits
  <2> QED
    BY <1>1, <1>2, <2>1, AgesStep
<1> QED
  BY <1>1, <1>2, <1>3

LEMMA ClearAction ==
    ASSUME IInv, Clear
    PROVE  IInv' /\ Promises
<1>1. /\ clock' = clock /\ active' = active /\ elapsed' = elapsed
      /\ contexts' = [g \in Greenlet |-> NoContext]
      /\ prev' = [t \in Thread |-> NoGreenlet]
      /\ clock \in [Thread -> Nat] /\ ThreadOf \in [Greenlet -> Thread]
  BY GreenletsAssumption DEF Clear, IInv, TypeOK
<1>2. TypeOK' /\ ActiveOnThread'
  BY <1>1, NoContextFacts DEF Clear, IInv, TypeOK, ActiveOnThread
<1>3. \A g \in Greenlet :
        GreenletSound(contexts'[g], g, prev'[ThreadOf[g]], clock'[ThreadOf[g]])
  BY <1>1, NoContextFacts, GreenletsAssumption DEF GreenletSound
<1>4. IInv'
  BY <1>1, <1>2, <1>3 DEF IInv, Sound, TypeOK
<1>5. AgesOf(clock, contexts)' = [g \in Greenlet |-> <<>>]
  BY <1>1, NoContextFacts DEF AgesOf
<1>6. Promised!Forget
  BY <1>1, <1>5 DEF Promised!Forget, AgesOf, Ages, Reading, AgesAt, At
<1> QED
  BY <1>4, <1>6 DEF Promises, Promised!Next

LEMMA ClearRunningAction ==
    ASSUME IInv, NEW t \in Thread, ClearRunning(t)
    PROVE  IInv' /\ Promises
<1> DEFINE g == active[t]
           c == Created(NoContext, clock[t])
<1>1. /\ clock' = clock /\ active' = active /\ elapsed' = elapsed
      /\ contexts' = [h \in Greenlet |-> IF h = g THEN c ELSE NoContext]
      /\ prev' = [u \in Thread |-> IF u = t THEN g ELSE NoGreenlet]
      /\ clock \in [Thread -> Nat] /\ ThreadOf \in [Greenlet -> Thread]
      /\ g \in Greenlet /\ ThreadOf[g] = t /\ clock[t] \in Nat
  BY GreenletsAssumption DEF ClearRunning, IInv, TypeOK, ActiveOnThread
<1>2. /\ c \in Context /\ ~Empty(c) /\ Fits(c, clock[t]) /\ ~c.paused
      /\ AgesAt(c, clock[t]) = <<0>>
  <2>1. /\ NoContext \in Context /\ Fits(NoContext, clock[t])
        /\ Empty(NoContext) /\ ~NoContext.paused
    BY <1>1, NoContextFacts
  <2> HIDE DEF NoContext
  <2>2. /\ Created(NoContext, clock[t]) \in Context
        /\ ~Empty(Created(NoContext, clock[t]))
        /\ Fits(Created(NoContext, clock[t]), clock[t])
        /\ Created(NoContext, clock[t]).paused <=> NoContext.paused
        /\ AgesAt(Created(NoContext, clock[t]), clock[t]) =
             IF Empty(NoContext) THEN <<0>> ELSE AgesAt(NoContext, clock[t])
    BY <1>1, <2>1, CreatedStep
  <2> QED
    BY <2>1, <2>2
<1> HIDE DEF c
<1>3. TypeOK' /\ ActiveOnThread'
  <2>1. contexts' \in [Greenlet -> Context]
    BY <1>1, <1>2, NoContextFacts
  <2> QED
    BY <1>1, <2>1 DEF ClearRunning, IInv, TypeOK, ActiveOnThread
<1>4. ASSUME NEW h \in Greenlet
      PROVE  GreenletSound(contexts'[h], h, prev'[ThreadOf[h]], clock'[ThreadOf[h]])
  <2>1. CASE h = g
    BY <1>1, <1>2, <2>1, GreenletsAssumption DEF GreenletSound
  <2>2. CASE h # g
    <3>1. contexts'[h] = NoContext /\ prev'[ThreadOf[h]] # h
      BY <1>1, <2>2, GreenletsAssumption
    <3> QED
      BY <1>1, <3>1, NoContextFacts DEF GreenletSound
  <2> QED
    BY <2>1, <2>2
<1>5. IInv'
  BY <1>1, <1>3, <1>4 DEF IInv, Sound, TypeOK
<1>6. AgesOf(clock, contexts)' = [h \in Greenlet |-> IF h = g THEN <<0>> ELSE <<>>]
  <2>1. \A h \in Greenlet : AgesAt(contexts'[h], clock'[ThreadOf[h]]) =
                              IF h = g THEN <<0>> ELSE <<>>
    BY <1>1, <1>2, NoContextFacts
  <2> QED
    BY <2>1 DEF AgesOf
<1>7. Promised!ForgetAndSee(t, g)
  BY <1>1, <1>6 DEF Promised!ForgetAndSee, AgesOf, Ages, Reading, AgesAt, At
<1> QED
  BY <1>1, <1>5, <1>7 DEF Promises, Promised!Next

LEMMA InitSound == Init => IInv /\ Promised!Init
<1> SUFFICES ASSUME Init PROVE IInv /\ Promised!Init
  OBVIOUS
<1>1. /\ clock = [t \in Thread |-> 0] /\ ThreadOf \in [Greenlet -> Thread]
      /\ contexts = [g \in Greenlet |-> NoContext]
      /\ prev = [t \in Thread |-> NoGreenlet]
  BY GreenletsAssumption DEF Init
<1>2. TypeOK /\ ActiveOnThread
  BY NoContextFacts DEF Init, TypeOK, ActiveOnThread
<1>3. \A g \in Greenlet :
        GreenletSound(contexts[g], g, prev[ThreadOf[g]], clock[ThreadOf[g]])
  BY <1>1, NoContextFacts, GreenletsAssumption DEF GreenletSound
<1>4. IInv
  BY <1>1, <1>2, <1>3 DEF IInv, Sound, TypeOK
<1>5. AgesOf(clock, contexts) = [g \in Greenlet |-> <<>>]
  BY <1>1, NoContextFacts DEF AgesOf
<1> QED
  BY <1>1, <1>4, <1>5
     DEF Init, Promised!Init, AgesOf, Ages, Reading, AgesAt, At

LEMMA NextStep == IInv /\ [NextKeepingPauses]_vars => IInv' /\ Promises
<1> SUFFICES ASSUME IInv, [NextKeepingPauses]_vars PROVE IInv' /\ Promises
  OBVIOUS
<1> USE GreenletsAssumption
<1>1. ASSUME NEW t \in Thread, Tick(t) PROVE IInv' /\ Promises
  BY <1>1, TickAction
<1>2. ASSUME NEW t \in Thread, Look(t) PROVE IInv' /\ Promises
  BY <1>2, LookAction
<1>3. ASSUME NEW t \in Thread, Call(t) PROVE IInv' /\ Promises
  BY <1>3, CallAction
<1>4. ASSUME NEW t \in Thread, Return(t) PROVE IInv' /\ Promises
  BY <1>4, ReturnAction
<1>5. ASSUME NEW t \in Thread, NEW m \in StartModes, KeepsPause(t, m), Start(t, m)
      PROVE  IInv' /\ Promises
  BY <1>5, StartInAction DEF Start
<1>6. ASSUME NEW t \in Thread, KeepsPause(t, multi), Read(t)
      PROVE  IInv' /\ Promises
  <2>1. multi \in BOOLEAN
    BY DEF IInv, TypeOK
  <2> QED
    BY <1>6, <2>1, StartInAction DEF Read
<1>7. ASSUME NEW t \in Thread, ClearRunning(t) PROVE IInv' /\ Promises
  BY <1>7, ClearRunningAction
<1>8. CASE UNCHANGED vars
  <2>1. IInv'
    BY <1>8 DEF vars, session, IInv, TypeOK, ActiveOnThread, Sound
  <2> QED
    BY <1>8, <2>1 DEF vars, Promises, Promised!vars, Ages, Reading
<1> QED
  BY <1>1, <1>2, <1>3, <1>4, <1>5, <1>6, <1>7, <1>8, UnseenAction, ClearAction
     DEF NextKeepingPauses, Environment, Events

LEMMA SoundIsPaused == IInv => TypeOK /\ AllPausedButLast
  BY DEF IInv, Sound, GreenletSound, AllPausedButLast, Known, Empty

\* For any threads and greenlets, whatever is called, switched, started, stopped,
\* read and cleared: all greenlets of a thread that are known are paused but
\* the one seen last, unless start(profile_greenlets=False) is called in one that
\* is paused (_pause_greenlet_ctx, _resume_greenlet_ctx, _profile_thread).
THEOREM PausesExact == SpecKeepingPauses => [](TypeOK /\ AllPausedButLast)
<1>1. Init => IInv
  BY InitSound
<1>2. IInv /\ [NextKeepingPauses]_vars => IInv'
  BY NextStep
<1> QED
  BY <1>1, <1>2, SoundIsPaused, PTL DEF SpecKeepingPauses

\* Under the same condition every call is charged the time for which its greenlet
\* was the one last seen in its thread, although time stamps are only moved
\* when the next event shows that a switch has happened.
THEOREM OwnTimeCharged == SpecKeepingPauses => ChargesOwnTime
<1>1. Init => IInv /\ Promised!Init
  BY InitSound
<1>2. IInv /\ [NextKeepingPauses]_vars => IInv' /\ [Promised!Next]_Promised!vars
  BY NextStep DEF Promises
<1> QED
  BY <1>1, <1>2, PTL DEF SpecKeepingPauses, ChargesOwnTime, Promised!Spec
===============================================================================
