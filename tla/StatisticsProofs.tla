--------------------------- MODULE StatisticsProofs ---------------------------
(***************************************************************************)
(* Proofs about the objects that hold function statistics (Statistics),    *)
(* for any functions, sessions, filters and files.                         *)
(***************************************************************************)
EXTENDS Statistics, FiniteSetTheorems, FunctionTheorems, WellFoundedInduction, TLAPS

-----------------------------------------------------------------------------
(* Folding a finite set. *)

\* g has what step makes of each subset of T, the element that pick names being
\* the last.
Folded(g, base, step, pick, T) ==
    g = [s \in SUBSET T |-> IF s = {} THEN base ELSE step[s][g[s \ {pick[s]}]]]

\* pick names an element of each subset of T.
Picks(pick, T) == \A s \in SUBSET T : s # {} => pick[s] \in s

\* Induction over a finite set, as the provers can use it: among some of its
\* subsets there is one that contains no other.
LEMMA Smallest ==
    ASSUME NEW S, IsFiniteSet(S), NEW Us, Us \subseteq SUBSET S, Us # {}
    PROVE  \E T \in Us : \A U \in Us : U \subseteq T => U = T
<1>1. Us \subseteq FiniteSubsetsOf(S)
  BY FS_FiniteSubsetsOfFinite
<1>2. IsWellFoundedOn(StrictSubsetOrdering(S), FiniteSubsetsOf(S))
  BY FS_StrictSubsetOrderingWellFounded
<1>3. PICK T \in Us : \A U \in Us : ~ (<<U, T>> \in StrictSubsetOrdering(S))
  BY <1>1, <1>2, WFMin
<1> QED BY <1>3 DEF StrictSubsetOrdering

\* Two such functions agree where both are defined.
LEMMA FoldedAgree ==
    ASSUME NEW base, NEW step, NEW pick, NEW T, IsFiniteSet(T), Picks(pick, T), NEW U,
           NEW g, NEW h, Folded(g, base, step, pick, T), Folded(h, base, step, pick, U),
           NEW u, u \subseteq T, u \subseteq U
    PROVE  g[u] = h[u]
<1> DEFINE Bad == {s \in SUBSET T : s \subseteq U /\ g[s] # h[s]}
<1>1. SUFFICES ASSUME Bad # {} PROVE FALSE
  OBVIOUS
<1>2. Bad \subseteq SUBSET T
  OBVIOUS
<1>3. PICK s \in Bad : \A r \in Bad : r \subseteq s => r = s
  <2> HIDE DEF Bad
  <2> QED BY <1>1, <1>2, Smallest
<1>4. s # {}
  BY <1>3 DEF Folded
<1>5. pick[s] \in s
  BY <1>3, <1>4 DEF Picks
<1>6. s \ {pick[s]} \notin Bad
  BY <1>3, <1>5
<1>7. g[s \ {pick[s]}] = h[s \ {pick[s]}]
  BY <1>3, <1>6
<1>8. g[s] = step[s][g[s \ {pick[s]}]] /\ h[s] = step[s][h[s \ {pick[s]}]]
  BY <1>3, <1>4 DEF Folded
<1> QED BY <1>3, <1>7, <1>8

\* The same with its parameters bound, for the places where g and h are terms.
LEMMA FoldedAgreeAt ==
    \A base, step, pick, T, U, g, h :
      /\ IsFiniteSet(T) /\ Picks(pick, T) /\ U \subseteq T
      /\ Folded(g, base, step, pick, T) /\ Folded(h, base, step, pick, U)
      => g[U] = h[U]
BY FoldedAgree

\* There is such a function, by induction over the subsets of S.
LEMMA FoldedExists ==
    ASSUME NEW S, IsFiniteSet(S), NEW base, NEW step, NEW pick, Picks(pick, S)
    PROVE  \E g : Folded(g, base, step, pick, S)
<1> DEFINE Is(g, T) == Folded(g, base, step, pick, T)
           Bad == {T \in SUBSET S : \A g : ~ Is(g, T)}
<1>1. SUFFICES ASSUME Bad # {} PROVE FALSE
  OBVIOUS
<1>2. PICK T \in Bad : \A U \in Bad : U \subseteq T => U = T
  <2>1. Bad \subseteq SUBSET S
    OBVIOUS
  <2> HIDE DEF Bad
  <2> QED BY <1>1, <2>1, Smallest
<1> DEFINE G == [U \in SUBSET T |-> CHOOSE g : Is(g, U)]
           part(s) == IF s = {} THEN base ELSE step[s][G[s \ {pick[s]}][s \ {pick[s]}]]
           g == [s \in SUBSET T |-> IF s = T THEN part(T) ELSE G[s][s]]
<1>3. \A U \in SUBSET T : U # T => Is(G[U], U)
  <2> TAKE U \in SUBSET T
  <2> HAVE U # T
  <2>1. \E h : Is(h, U)
    BY <1>2
  <2> HIDE DEF Is
  <2> QED BY <2>1
<1>4. \A s \in SUBSET T : s # {} => pick[s] \in s
  BY DEF Picks
<1>5. \A s \in SUBSET T : s # T => G[s][s] = part(s)
  <2> TAKE s \in SUBSET T
  <2> HAVE s # T
  <2>0. CASE s = {}
    <3>1. Is(G[s], s)
      BY <1>3
    <3>2. G[s][s] = base
      <4> HIDE DEF G
      <4> QED BY <2>0, <3>1 DEF Folded
    <3> QED BY <2>0, <3>2
  <2>5. CASE s # {}
    <3> DEFINE r == s \ {pick[s]}
    <3>1. r \in SUBSET T /\ r # T /\ r \subseteq s
      BY <1>4, <2>5
    <3>2. Is(G[s], s) /\ Is(G[r], r)
      BY <1>3, <3>1
    <3>3. IsFiniteSet(s) /\ Picks(pick, s)
      BY FS_Subset DEF Picks
    <3>5. G[s][r] = G[r][r]
      <4> SUFFICES ASSUME NEW a, NEW b, a = G[s], b = G[r] PROVE a[r] = b[r]
        OBVIOUS
      <4>1. Is(a, s) /\ Is(b, r)
        BY <3>2
      <4> HIDE DEF G, r
      <4> QED BY <3>1, <3>3, <4>1, FoldedAgreeAt
    <3>6. G[s][s] = step[s][G[s][r]]
      <4> HIDE DEF G
      <4> QED BY <2>5, <3>2 DEF Folded
    <3> QED BY <2>5, <3>5, <3>6
  <2> QED BY <2>0, <2>5
<1>6. \A s \in SUBSET T : g[s] = part(s)
  <2> HIDE DEF G, part
  <2> QED BY <1>5
<1>7. \A s \in SUBSET T : s # {} => g[s \ {pick[s]}] = G[s \ {pick[s]}][s \ {pick[s]}]
  <2> TAKE s \in SUBSET T
  <2> HAVE s # {}
  <2>1. s \ {pick[s]} \in SUBSET T /\ s \ {pick[s]} # T
    BY <1>4
  <2> HIDE DEF G, part
  <2> QED BY <2>1
<1>8. Is(g, T)
  <2>1. \A s \in SUBSET T :
           g[s] = IF s = {} THEN base ELSE step[s][g[s \ {pick[s]}]]
    <3> HIDE DEF G, g
    <3> QED BY <1>6, <1>7
  <2>2. g = [s \in SUBSET T |-> g[s]]
    OBVIOUS
  <2> HIDE DEF g
  <2> QED BY <2>1, <2>2 DEF Folded
<1> QED BY <1>2, <1>8

\* What holds for the empty set, and for a set if it does for the set without the
\* element that was picked, holds for all.
LEMMA SubsetInduction ==
    ASSUME NEW S, IsFiniteSet(S), NEW pick, Picks(pick, S), NEW Good,
           {} \in Good,
           \A s \in SUBSET S : s # {} /\ s \ {pick[s]} \in Good => s \in Good
    PROVE  \A s \in SUBSET S : s \in Good
<1> DEFINE Bad == {s \in SUBSET S : s \notin Good}
<1>1. SUFFICES ASSUME Bad # {} PROVE FALSE
  OBVIOUS
<1>2. PICK T \in Bad : \A U \in Bad : U \subseteq T => U = T
  <2>1. Bad \subseteq SUBSET S
    OBVIOUS
  <2> HIDE DEF Bad
  <2> QED BY <1>1, <2>1, Smallest
<1>3. T # {} /\ pick[T] \in T
  BY <1>2 DEF Picks
<1>4. T \ {pick[T]} \notin Bad
  BY <1>2, <1>3
<1> QED BY <1>2, <1>3, <1>4

\* The greatest element of a finite set of numbers.
LEMMA MaxIs ==
    ASSUME NEW S \in SUBSET Nat, IsFiniteSet(S), S # {}
    PROVE  Max(S) \in S /\ \A x \in S : x <= Max(S)
<1> DEFINE Good == {s \in SUBSET S : s = {} \/ \E m \in s : \A x \in s : x <= m}
           pick == [s \in SUBSET S |-> CHOOSE x \in s : TRUE]
<1>1. Picks(pick, S)
  BY DEF Picks
<1>2. \A s \in SUBSET S : s # {} /\ s \ {pick[s]} \in Good => s \in Good
  <2> SUFFICES ASSUME NEW s \in SUBSET S, s # {}, s \ {pick[s]} \in Good,
                      NEW p, p = pick[s]
               PROVE  \E m \in s : \A x \in s : x <= m
    OBVIOUS
  <2>1. p \in s
    BY <1>1 DEF Picks
  <2>0. p \in Nat
    BY <2>1
  <2> HIDE DEF pick
  <2>2. CASE s \ {p} = {}
    <3>1. p <= p
      BY <2>0
    <3>2. \A x \in s : x <= p
      BY <2>2, <3>1
    <3> QED BY <2>1, <3>2
  <2>3. CASE s \ {p} # {}
    <3>1. PICK m \in s \ {p} : \A x \in s \ {p} : x <= m
      BY <2>3 DEF pick
    <3>2. \A x \in s : x \in Nat
      OBVIOUS
    <3>3. CASE p <= m
      BY <3>1, <3>2, <3>3
    <3>4. CASE m <= p
      BY <2>1, <3>1, <3>2, <3>4
    <3> QED BY <2>1, <3>2, <3>3, <3>4
  <2> QED BY <2>2, <2>3
<1>3. {} \in Good
  OBVIOUS
<1>4. S \in Good
  <2> HIDE DEF Good, pick
  <2>1. \A s \in SUBSET S : s \in Good
    BY <1>1, <1>2, <1>3, SubsetInduction
  <2> QED BY <2>1
<1>5. \E m \in S : \A x \in S : m >= x
  <2>1. PICK m \in S : \A x \in S : x <= m
    BY <1>4
  <2>2. \A x \in S : x \in Nat
    OBVIOUS
  <2> QED BY <2>1, <2>2
<1>6. Max(S) \in S /\ \A x \in S : Max(S) >= x
  BY <1>5 DEF Max
<1>7. \A x \in S : x \in Nat
  OBVIOUS
<1> QED BY <1>6, <1>7

-----------------------------------------------------------------------------
(* Sums. *)

\* g is what the sum of fun defines on the subsets of T.
First(s) == CHOOSE x \in s : TRUE
Sums(g, fun, T) ==
    g = [s \in SUBSET T |->
           IF s = {} THEN 0 ELSE fun[First(s)] + g[s \ {First(s)}]]

\* Two functions that hold such sums agree where both are defined.
LEMMA SumsAgree ==
    ASSUME NEW fun, NEW T, IsFiniteSet(T), NEW U,
           NEW g, NEW h, Sums(g, fun, T), Sums(h, fun, U),
           NEW u, u \subseteq T, u \subseteq U
    PROVE  g[u] = h[u]
<1> DEFINE Bad == {s \in SUBSET T : s \subseteq U /\ g[s] # h[s]}
<1>1. SUFFICES ASSUME Bad # {} PROVE FALSE
  OBVIOUS
<1>2. Bad \subseteq SUBSET T
  OBVIOUS
<1>3. PICK s \in Bad : \A r \in Bad : r \subseteq s => r = s
  <2> HIDE DEF Bad
  <2> QED BY <1>1, <1>2, Smallest
<1>4. s # {}
  BY <1>3 DEF Sums
<1>5. First(s) \in s
  BY <1>4 DEF First
<1>6. s \ {First(s)} \notin Bad
  BY <1>3, <1>5
<1>7. g[s \ {First(s)}] = h[s \ {First(s)}]
  BY <1>3, <1>6
<1>8. g[s] = fun[First(s)] + g[s \ {First(s)}] /\ h[s] = fun[First(s)] + h[s \ {First(s)}]
  BY <1>3, <1>4 DEF Sums
<1> QED BY <1>3, <1>7, <1>8

\* There is such a function.
LEMMA SumsExist ==
    ASSUME NEW S, IsFiniteSet(S), NEW fun, \A x \in S : fun[x] \in Int
    PROVE  \E g : Sums(g, fun, S)
<1> DEFINE pick == [s \in SUBSET S |-> First(s)]
           step == [s \in SUBSET S |-> [v \in Int |-> fun[First(s)] + v]]
<1>1. \A s \in SUBSET S : s # {} => First(s) \in s
  BY DEF First
<1>2. Picks(pick, S)
  BY <1>1 DEF Picks
<1>3. PICK g : Folded(g, 0, step, pick, S)
  <2> HIDE DEF step, pick
  <2> QED BY <1>2, FoldedExists
<1>4. g = [s \in SUBSET S |-> g[s]] /\ g[{}] = 0
  <2> HIDE DEF step, pick
  <2> QED BY <1>3 DEF Folded
<1>5. \A s \in SUBSET S : s # {} => g[s] = step[s][g[s \ {First(s)}]]
  <2> HIDE DEF step
  <2> QED BY <1>3 DEF Folded
<1>6. \A s \in SUBSET S : s # {} /\ g[s \ {First(s)}] \in Int =>
         g[s] = fun[First(s)] + g[s \ {First(s)}]
  BY <1>5
<1>7. \A s \in SUBSET S : g[s] \in Int
  <2> DEFINE Good == {s \in SUBSET S : g[s] \in Int}
  <2>1. {} \in Good
    BY <1>4
  <2>2. \A s \in SUBSET S : s # {} /\ s \ {pick[s]} \in Good => s \in Good
    <3> TAKE s \in SUBSET S
    <3> HAVE s # {} /\ s \ {pick[s]} \in Good
    <3>1. g[s \ {First(s)}] \in Int /\ fun[First(s)] \in Int
      BY <1>1
    <3>2. g[s] = fun[First(s)] + g[s \ {First(s)}]
      <4> HIDE DEF step
      <4> QED BY <1>6, <3>1
    <3> QED BY <3>1, <3>2
  <2>3. \A s \in SUBSET S : s \in Good
    <3> HIDE DEF Good, pick
    <3> QED BY <1>2, <2>1, <2>2, SubsetInduction
  <2> QED BY <2>3
<1>8. \A s \in SUBSET S : g[s] = IF s = {} THEN 0 ELSE fun[First(s)] + g[s \ {First(s)}]
  <2> HIDE DEF step
  <2> QED BY <1>1, <1>4, <1>6, <1>7
<1> QED BY <1>4, <1>8 DEF Sums

\* SumFunctionOnSet, a recursive CHOOSE of the community modules, is its value.
LEMMA SumIs ==
    ASSUME NEW S, IsFiniteSet(S), NEW fun, \A x \in S : fun[x] \in Int,
           NEW g, Sums(g, fun, S), NEW T \in SUBSET S
    PROVE  SumFunctionOnSet(fun, T) = g[T]
<1>1. IsFiniteSet(T)
  BY FS_Subset
<1>2. SumFunctionOnSet(fun, T) = (CHOOSE h : Sums(h, fun, T))[T]
  BY DEF SumFunctionOnSet, FoldFunctionOnSet, MapThenFoldSet, Sums, First
<1>3. Sums(CHOOSE h : Sums(h, fun, T), fun, T)
  BY <1>1, SumsExist
<1> QED BY <1>1, <1>2, <1>3, SumsAgree

\* The sum of a set is the value at the element CHOOSE picks plus the sum of the rest.
LEMMA SumUnfold ==
    ASSUME NEW S, IsFiniteSet(S), NEW fun, \A x \in S : fun[x] \in Int
    PROVE  SumFunctionOnSet(fun, S) =
             IF S = {} THEN 0
             ELSE fun[First(S)] + SumFunctionOnSet(fun, S \ {First(S)})
<1>1. PICK g : Sums(g, fun, S)
  BY SumsExist
<1>2. SumFunctionOnSet(fun, S) = g[S]
  BY <1>1, SumIs
<1>3. SumFunctionOnSet(fun, S \ {First(S)}) = g[S \ {First(S)}]
  BY <1>1, SumIs
<1> QED BY <1>1, <1>2, <1>3 DEF Sums

\* The empty sum.
LEMMA SumOfNone == \A fun : SumFunctionOnSet(fun, {}) = 0
<1> SUFFICES ASSUME NEW fun PROVE SumFunctionOnSet(fun, {}) = 0
  OBVIOUS
<1>1. IsFiniteSet({})
  BY FS_EmptySet
<1> QED BY <1>1, SumUnfold

\* A sum of integers is an integer.
LEMMA SumInt ==
    ASSUME NEW S, IsFiniteSet(S), NEW fun, \A x \in S : fun[x] \in Int
    PROVE  SumFunctionOnSet(fun, S) \in Int
<1> DEFINE Bad == {T \in SUBSET S : SumFunctionOnSet(fun, T) \notin Int}
<1>1. SUFFICES ASSUME Bad # {} PROVE FALSE
  OBVIOUS
<1>2. PICK T \in Bad : \A U \in Bad : U \subseteq T => U = T
  <2>1. Bad \subseteq SUBSET S
    OBVIOUS
  <2> HIDE DEF Bad
  <2> QED BY <1>1, <2>1, Smallest
<1>3. IsFiniteSet(T) /\ T \subseteq S /\ SumFunctionOnSet(fun, T) \notin Int
  BY FS_Subset
<1>4. T # {}
  <2> SUFFICES ASSUME T = {} PROVE FALSE
    OBVIOUS
  <2>1. SumFunctionOnSet(fun, T) = 0
    BY SumOfNone
  <2> QED BY <1>3, <2>1
<1>5. First(T) \in T
  BY <1>4 DEF First
<1>6. SumFunctionOnSet(fun, T \ {First(T)}) \in Int
  BY <1>2, <1>5
<1>7. SumFunctionOnSet(fun, T) = fun[First(T)] + SumFunctionOnSet(fun, T \ {First(T)})
  BY <1>3, <1>4, SumUnfold
<1>8. fun[First(T)] \in Int
  BY <1>3, <1>5
<1> QED BY <1>3, <1>6, <1>7, <1>8

\* Any element may be taken out of the sum.
LEMMA SumRemove ==
    ASSUME NEW S, IsFiniteSet(S), NEW fun, \A x \in S : fun[x] \in Int, NEW x \in S
    PROVE  SumFunctionOnSet(fun, S) = fun[x] + SumFunctionOnSet(fun, S \ {x})
<1> DEFINE sum(T) == SumFunctionOnSet(fun, T)
           Bad == {T \in SUBSET S : \E y \in T : sum(T) # fun[y] + sum(T \ {y})}
<1>1. SUFFICES ASSUME Bad # {} PROVE FALSE
  OBVIOUS
<1>2. PICK T \in Bad : \A U \in Bad : U \subseteq T => U = T
  <2>1. Bad \subseteq SUBSET S
    OBVIOUS
  <2> HIDE DEF Bad
  <2> QED BY <1>1, <2>1, Smallest
<1>3. PICK y \in T : sum(T) # fun[y] + sum(T \ {y})
  BY <1>2
<1> DEFINE z == First(T)
<1>4. z \in T
  BY <1>3 DEF First
<1>5. \A U \in SUBSET S : IsFiniteSet(U) /\ sum(U) \in Int
  <2> TAKE U \in SUBSET S
  <2>1. IsFiniteSet(U)
    BY FS_Subset
  <2> QED BY <2>1, SumInt
<1>6. sum(T) = fun[z] + sum(T \ {z})
  BY <1>4, <1>5, SumUnfold
<1>7. y # z
  BY <1>3, <1>6
<1>8. T \ {z} \notin Bad /\ T \ {y} \notin Bad
  BY <1>2, <1>4
<1>9. sum(T \ {z}) = fun[y] + sum((T \ {z}) \ {y})
  BY <1>3, <1>7, <1>8
<1>10. sum(T \ {y}) = fun[z] + sum((T \ {y}) \ {z})
  BY <1>4, <1>7, <1>8
<1>11. (T \ {y}) \ {z} = (T \ {z}) \ {y}
  OBVIOUS
<1>12. fun[y] \in Int /\ fun[z] \in Int /\ sum((T \ {z}) \ {y}) \in Int
  BY <1>4, <1>5
<1> HIDE DEF sum, z
<1> QED BY <1>3, <1>6, <1>9, <1>10, <1>11, <1>12

\* The sum depends on the values on the set only.
LEMMA SumSame ==
    ASSUME NEW S, IsFiniteSet(S), NEW f, NEW g,
           \A x \in S : f[x] = g[x] /\ f[x] \in Int
    PROVE  SumFunctionOnSet(f, S) = SumFunctionOnSet(g, S)
<1> DEFINE Bad == {T \in SUBSET S : SumFunctionOnSet(f, T) # SumFunctionOnSet(g, T)}
<1>1. SUFFICES ASSUME Bad # {} PROVE FALSE
  OBVIOUS
<1>2. PICK T \in Bad : \A U \in Bad : U \subseteq T => U = T
  <2>1. Bad \subseteq SUBSET S
    OBVIOUS
  <2> HIDE DEF Bad
  <2> QED BY <1>1, <2>1, Smallest
<1>3. IsFiniteSet(T)
  BY FS_Subset
<1>4. T # {}
  BY <1>2, SumOfNone
<1>5. First(T) \in T
  BY <1>4 DEF First
<1>6. SumFunctionOnSet(f, T \ {First(T)}) = SumFunctionOnSet(g, T \ {First(T)})
  BY <1>2, <1>5
<1> QED BY <1>2, <1>3, <1>4, <1>5, <1>6, SumUnfold

\* An element joins.
LEMMA SumAdd ==
    ASSUME NEW S, IsFiniteSet(S), NEW f, NEW x, x \notin S,
           \A y \in S : f[y] \in Int, f[x] \in Int
    PROVE  SumFunctionOnSet(f, S \cup {x}) = f[x] + SumFunctionOnSet(f, S)
<1>1. IsFiniteSet(S \cup {x})
  BY FS_AddElement
<1>2. (S \cup {x}) \ {x} = S
  OBVIOUS
<1> QED BY <1>1, <1>2, SumRemove

-----------------------------------------------------------------------------
(* Tables, and appending to them. *)

\* The maps from some elements of A to elements of B, and the tables of items of I.
Map(A, B) == UNION {[D -> B] : D \in SUBSET A}
Table(I) == [items: Map(Fn, I), byIndex: Map(Nat, Fn)]

\* The entries are at places, and V says what tables may come out of those at a
\* set of places.
Steps(E, t, V) ==
    /\ IsFiniteSet(DOMAIN E) /\ DOMAIN E \in SUBSET Nat
    /\ t \in V[{}]
    /\ \A s \in SUBSET DOMAIN E, k \in DOMAIN E : k \notin s =>
         \A u \in V[s] : Appended(u, E[k].fn, E[k].item) \in V[s \cup {k}]

\* If an entry more leads from one set of tables to the next, then all of the
\* entries lead to the last.
LEMMA AppendedAllIn ==
    ASSUME NEW E, NEW t, NEW V, Steps(E, t, V)
    PROVE  AppendedAll(t, E) \in V[DOMAIN E]
<1> DEFINE D == DOMAIN E
           pick == [s \in SUBSET D |-> Max(s)]
           Us == UNION {V[s] : s \in SUBSET D}
           next(s, u) == Appended(u, E[Max(s)].fn, E[Max(s)].item)
           step == [s \in SUBSET D |-> [u \in Us |-> next(s, u)]]
           Is(h) == h = [s \in SUBSET D |-> IF s = {} THEN t ELSE next(s, h[s \ {Max(s)}])]
           Good(h) == {s \in SUBSET D : h[s] \in V[s]}
<1>1. \A s \in SUBSET D : s # {} => Max(s) \in s
  <2> TAKE s \in SUBSET D
  <2>1. IsFiniteSet(s) /\ s \in SUBSET Nat
    BY FS_Subset DEF Steps
  <2> QED BY <2>1, MaxIs
<1>2. Picks(pick, D) /\ IsFiniteSet(D)
  BY <1>1 DEF Picks, Steps
<1>3. \A s \in SUBSET D : s # {} => \A u \in V[s \ {Max(s)}] : next(s, u) \in V[s]
  <2> TAKE s \in SUBSET D
  <2> HAVE s # {}
  <2>1. PICK k \in s : k = Max(s)
    BY <1>1
  <2>2. (s \ {k}) \cup {k} = s /\ k \in D /\ s \ {k} \in SUBSET D
    BY <2>1
  <2>3. \A u \in V[s \ {k}] : Appended(u, E[k].fn, E[k].item) \in V[s]
    BY <2>2 DEF Steps
  <2> QED BY <2>1, <2>3
<1>4. \E h : Is(h)
  <2>1. PICK h : Folded(h, t, step, pick, D)
    <3> HIDE DEF step, pick, D
    <3> QED BY <1>2, FoldedExists
  <2>2. \A s \in SUBSET D : s # {} => h[s] = step[s][h[s \ {Max(s)}]]
    <3> HIDE DEF step
    <3> QED BY <2>1 DEF Folded
  <2>3. h = [s \in SUBSET D |-> h[s]] /\ h[{}] = t
    <3> HIDE DEF step, pick
    <3> QED BY <2>1 DEF Folded
  <2>4. \A s \in SUBSET D : s # {} /\ h[s \ {Max(s)}] \in V[s \ {Max(s)}] =>
           h[s] = next(s, h[s \ {Max(s)}])
    <3> TAKE s \in SUBSET D
    <3> HAVE s # {} /\ h[s \ {Max(s)}] \in V[s \ {Max(s)}]
    <3>1. h[s \ {Max(s)}] \in Us
      BY <1>1
    <3>2. step[s][h[s \ {Max(s)}]] = next(s, h[s \ {Max(s)}])
      <4> HIDE DEF Us, next
      <4> QED BY <3>1
    <3> QED BY <2>2, <3>2
  <2>5. \A s \in SUBSET D : s \in Good(h)
    <3>1. {} \in Good(h)
      BY <2>3 DEF Steps
    <3>2. \A s \in SUBSET D : s # {} /\ s \ {pick[s]} \in Good(h) => s \in Good(h)
      <4> HIDE DEF step, next
      <4> QED BY <1>1, <1>3, <2>4
    <3> HIDE DEF Good, pick, D
    <3> QED BY <1>2, <3>1, <3>2, SubsetInduction
  <2>6. \A s \in SUBSET D : h[s] = IF s = {} THEN t ELSE next(s, h[s \ {Max(s)}])
    <3> TAKE s \in SUBSET D
    <3>1. CASE s = {}
      BY <2>3, <3>1
    <3>2. CASE s # {}
      <4>1. s \ {Max(s)} \in Good(h)
        <5> HIDE DEF Good
        <5> QED BY <2>5
      <4> HIDE DEF next
      <4> QED BY <2>4, <3>2, <4>1
    <3> QED BY <3>1, <3>2
  <2> HIDE DEF next
  <2> QED BY <2>3, <2>6
<1>5. AppendedAll(t, E) = (CHOOSE h : Is(h))[D]
  BY DEF AppendedAll, MapThenFoldSet
<1>6. PICK h : h = (CHOOSE h2 : Is(h2)) /\ Is(h)
  <2> HIDE DEF Is
  <2> QED BY <1>4
<1>7. \A s \in SUBSET D : s \in Good(h)
  <2>1. {} \in Good(h)
    BY <1>6 DEF Steps
  <2>2. \A s \in SUBSET D : s # {} => h[s] = next(s, h[s \ {Max(s)}])
    <3> HIDE DEF next
    <3> QED BY <1>6
  <2>3. \A s \in SUBSET D : s # {} /\ s \ {pick[s]} \in Good(h) => s \in Good(h)
    <3> TAKE s \in SUBSET D
    <3> HAVE s # {} /\ s \ {pick[s]} \in Good(h)
    <3>1. h[s \ {Max(s)}] \in V[s \ {Max(s)}]
      OBVIOUS
    <3>2. h[s] \in V[s]
      <4> HIDE DEF next, Good, pick
      <4> QED BY <1>3, <2>2, <3>1
    <3> QED BY <3>2
  <2> HIDE DEF Good, pick, D
  <2> QED BY <1>2, <2>1, <2>3, SubsetInduction
<1>8. h[D] \in V[D]
  <2>1. D \in Good(h)
    <3> HIDE DEF Good
    <3> QED BY <1>7
  <2> QED BY <2>1
<1> HIDE DEF Is
<1> QED BY <1>5, <1>6, <1>8

LEMMA MapParts ==
    ASSUME NEW A, NEW B, NEW m \in Map(A, B)
    PROVE  /\ DOMAIN m \subseteq A
           /\ m = [x \in DOMAIN m |-> m[x]]
           /\ \A x \in DOMAIN m : m[x] \in B
BY DEF Map

LEMMA MapMade ==
    ASSUME NEW A, NEW B, NEW m, DOMAIN m \subseteq A, m = [x \in DOMAIN m |-> m[x]],
           \A x \in DOMAIN m : m[x] \in B
    PROVE  m \in Map(A, B)
<1>1. m \in [DOMAIN m -> B]
  OBVIOUS
<1> QED BY <1>1 DEF Map

\* n is map m of A to B with b for a, unless m has a value for a.
HasPut(n, m, a, b, A, B) ==
    /\ n \in Map(A, B)
    /\ DOMAIN n = DOMAIN m \cup {a}
    /\ \A x \in DOMAIN m : n[x] = m[x]
    /\ a \notin DOMAIN m => n[a] = b

LEMMA Put ==
    ASSUME NEW A, NEW B, NEW m \in Map(A, B), NEW a \in A, NEW b \in B
    PROVE  HasPut(SetDefault(m, a, b), m, a, b, A, B)
<1> SUFFICES ASSUME NEW n, n = SetDefault(m, a, b)
             PROVE  HasPut(n, m, a, b, A, B)
  OBVIOUS
<1>1. /\ DOMAIN n = DOMAIN m \cup {a}
      /\ n = [x \in DOMAIN n |-> n[x]]
      /\ \A x \in DOMAIN m : n[x] = m[x]
      /\ a \notin DOMAIN m => n[a] = b
  BY DEF SetDefault
<1>2. \A x \in DOMAIN n : n[x] \in B
  BY <1>1, MapParts
<1>3. DOMAIN n \subseteq A
  BY <1>1, MapParts
<1>4. n \in Map(A, B)
  BY <1>1, <1>2, <1>3, MapMade
<1> QED BY <1>1, <1>4 DEF HasPut

LEMMA TableParts ==
    ASSUME NEW I, NEW t \in Table(I)
    PROVE  /\ t = [items |-> t.items, byIndex |-> t.byIndex]
           /\ t.items \in Map(Fn, I) /\ t.byIndex \in Map(Nat, Fn)
           /\ Known(t) \subseteq Fn
           /\ \A f \in Known(t) : t.items[f] \in I
           /\ DOMAIN t.byIndex \subseteq Nat
           /\ \A i \in DOMAIN t.byIndex : t.byIndex[i] \in Fn
<1>1. t.items \in Map(Fn, I) /\ t.byIndex \in Map(Nat, Fn)
  BY DEF Table
<1> QED BY <1>1, MapParts DEF Known, Table

\* Item e may be appended under f: it is the first, or += is defined for it.
Addable(a, e, I) ==
    /\ Increased(a, e) \in I
    /\ Increased(a, e).index = a.index
    /\ Increased(a, e).ncall = a.ncall + e.ncall

LEMMA AppendedOne ==
    ASSUME NEW I, NEW u \in Table(I), NEW f \in Fn, NEW e \in I, e.index \in Nat,
           f \notin Known(u) \/ \A a \in I : Addable(a, e, I),
           NEW w, w = Appended(u, f, e)
    PROVE  /\ w \in Table(I)
           /\ Known(w) = Known(u) \cup {f}
           /\ \A g \in Known(u) : g # f => w.items[g] = u.items[g]
           /\ f \notin Known(u) => w.items[f] = e
           /\ f \in Known(u) => w.items[f] = Increased(u.items[f], e)
           /\ DOMAIN w.byIndex = DOMAIN u.byIndex \cup {e.index}
           /\ \A i \in DOMAIN u.byIndex : w.byIndex[i] = u.byIndex[i]
           /\ e.index \notin DOMAIN u.byIndex => w.byIndex[e.index] = f
<1>1. u.items \in Map(Fn, I) /\ u.byIndex \in Map(Nat, Fn)
  BY TableParts
<1>2. w.byIndex = SetDefault(u.byIndex, e.index, f)
  BY DEF Appended
<1>3. /\ w.byIndex \in Map(Nat, Fn)
      /\ DOMAIN w.byIndex = DOMAIN u.byIndex \cup {e.index}
      /\ \A i \in DOMAIN u.byIndex : w.byIndex[i] = u.byIndex[i]
      /\ e.index \notin DOMAIN u.byIndex => w.byIndex[e.index] = f
  <2>1. HasPut(w.byIndex, u.byIndex, e.index, f, Nat, Fn)
    BY <1>1, <1>2, Put
  <2> QED BY <2>1 DEF HasPut
<1>4. /\ w.items \in Map(Fn, I)
      /\ DOMAIN w.items = DOMAIN u.items \cup {f}
      /\ \A g \in DOMAIN u.items : g # f => w.items[g] = u.items[g]
      /\ f \notin DOMAIN u.items => w.items[f] = e
      /\ f \in DOMAIN u.items => w.items[f] = Increased(u.items[f], e)
  <2>1. CASE f \in DOMAIN u.items
    <3>1. w.items = [u.items EXCEPT ![f] = Increased(@, e)]
      BY <2>1 DEF Appended, Known
    <3>2. Increased(u.items[f], e) \in I
      BY <1>1, <2>1, MapParts DEF Addable, Known
    <3>3. PICK r \in I : r = Increased(u.items[f], e)
      BY <3>2
    <3>4. w.items = [g \in DOMAIN u.items |-> IF g = f THEN r ELSE u.items[g]]
      BY <3>1, <3>3
    <3>5. \A g \in DOMAIN w.items : w.items[g] \in I
      BY <1>1, <3>4, MapParts
    <3>6. w.items \in Map(Fn, I)
      BY <1>1, <3>4, <3>5, MapParts, MapMade
    <3> QED BY <2>1, <3>3, <3>4, <3>6
  <2>2. CASE f \notin DOMAIN u.items
    <3>1. w.items = SetDefault(u.items, f, e)
      BY <2>2 DEF Appended, Known
    <3>2. HasPut(w.items, u.items, f, e, Fn, I)
      BY <1>1, <3>1, Put
    <3> QED BY <2>2, <3>2 DEF HasPut
  <2> QED BY <2>1, <2>2
<1>5. w = [items |-> w.items, byIndex |-> w.byIndex]
  BY DEF Appended
<1>6. w \in Table(I)
  BY <1>3, <1>4, <1>5 DEF Table
<1> QED BY <1>3, <1>4, <1>6 DEF Known

-----------------------------------------------------------------------------
(* What comes out of appending some items. *)

Names(E, s) == {E[k].fn : k \in s}
Indexes(E, s) == {E[k].item.index : k \in s}
Of(E, s, f) == {k \in s : E[k].fn = f}
Counts(E) == [k \in DOMAIN E |-> E[k].item.ncall]

\* The entry at k is the only item of its function.
Single(t, E, k) ==
    /\ E[k].fn \notin Known(t)
    /\ \A j \in DOMAIN E : E[j].fn = E[k].fn => j = k

\* Items of I, and += where it is needed.
Suits(t, E, I) ==
    /\ IsFiniteSet(DOMAIN E) /\ DOMAIN E \in SUBSET Nat
    /\ t \in Table(I)
    /\ \A a \in I : a.index \in Nat /\ a.ncall \in Nat
    /\ \A k \in DOMAIN E :
         /\ E[k].fn \in Fn /\ E[k].item \in I
         /\ Single(t, E, k) \/ \A a \in I : Addable(a, E[k].item, I)

\* The indexes of table u, made of t and the entries at the places in s: those of
\* t find what they did, and the others the function of an entry that has them.
IndexesFrom(u, t, E, s) ==
    /\ DOMAIN u.byIndex = DOMAIN t.byIndex \cup Indexes(E, s)
    /\ \A i \in DOMAIN t.byIndex : u.byIndex[i] = t.byIndex[i]
    /\ \A i \in Indexes(E, s) : i \notin DOMAIN t.byIndex =>
         \E k \in s : E[k].item.index = i /\ u.byIndex[i] = E[k].fn

\* The items of u: the calls add up, the first index remains.
ItemsFrom(u, t, E, s) ==
    /\ Known(u) = Known(t) \cup Names(E, s)
    /\ \A f \in Known(t) : /\ u.items[f].index = t.items[f].index
                           /\ f \notin Names(E, s) => u.items[f] = t.items[f]
    /\ \A f \in Names(E, s) : f \notin Known(t) =>
         \E k \in Of(E, s, f) : u.items[f].index = E[k].item.index
    /\ \A k \in s : Single(t, E, k) => u.items[E[k].fn] = E[k].item
    /\ \A f \in Known(u) :
         u.items[f].ncall = CallsIn(t, f) + SumFunctionOnSet(Counts(E), Of(E, s, f))

From(t, E, s, I) ==
    {u \in Table(I) : IndexesFrom(u, t, E, s) /\ ItemsFrom(u, t, E, s)}

LEMMA FromNothing ==
    ASSUME NEW t, NEW E, NEW I, Suits(t, E, I)
    PROVE  t \in From(t, E, {}, I)
<1>1. t \in Table(I) /\ \A f \in Known(t) : t.items[f].ncall \in Nat
  BY TableParts DEF Suits
<1>2. Names(E, {}) = {} /\ Indexes(E, {}) = {} /\ \A f : Of(E, {}, f) = {}
  BY DEF Names, Indexes, Of
<1>3. IndexesFrom(t, t, E, {})
  BY <1>2 DEF IndexesFrom
<1>4. \A f \in Known(t) : t.items[f].ncall = CallsIn(t, f) + SumFunctionOnSet(Counts(E), Of(E, {}, f))
  <2> TAKE f \in Known(t)
  <2>1. SumFunctionOnSet(Counts(E), Of(E, {}, f)) = 0
    BY <1>2, SumOfNone
  <2>2. CallsIn(t, f) = t.items[f].ncall
    BY DEF CallsIn
  <2> QED BY <1>1, <2>1, <2>2
<1>5. ItemsFrom(t, t, E, {})
  BY <1>2, <1>4 DEF ItemsFrom
<1> QED BY <1>1, <1>3, <1>5 DEF From

LEMMA FromOneMore ==
    ASSUME NEW t, NEW E, NEW I, Suits(t, E, I),
           NEW s \in SUBSET DOMAIN E, NEW k \in DOMAIN E, k \notin s,
           NEW u \in From(t, E, s, I),
           NEW w, w = Appended(u, E[k].fn, E[k].item)
    PROVE  w \in From(t, E, s \cup {k}, I)
<1> DEFINE s1 == s \cup {k}
<1>1. PICK f \in Fn : f = E[k].fn
  BY DEF Suits
<1>2. PICK e \in I : e = E[k].item
  BY DEF Suits
<1>3. /\ u \in Table(I) /\ IndexesFrom(u, t, E, s) /\ ItemsFrom(u, t, E, s)
      /\ \A a \in I : a.index \in Nat /\ a.ncall \in Nat
  BY DEF From, Suits
<1>4. /\ Names(E, s1) = Names(E, s) \cup {f}
      /\ Indexes(E, s1) = Indexes(E, s) \cup {e.index}
      /\ Of(E, s1, f) = Of(E, s, f) \cup {k} /\ k \notin Of(E, s, f)
      /\ \A g : g # f => Of(E, s1, g) = Of(E, s, g)
  BY <1>1, <1>2 DEF Names, Indexes, Of
<1>5. Single(t, E, k) => f \notin Known(u)
  <2> SUFFICES ASSUME Single(t, E, k), f \in Known(u) PROVE FALSE
    OBVIOUS
  <2>1. f \in Names(E, s)
    BY <1>1, <1>3 DEF Single, ItemsFrom
  <2> QED BY <1>1, <2>1 DEF Single, Names
<1>6. f \notin Known(u) \/ \A a \in I : Addable(a, e, I)
  BY <1>2, <1>5 DEF Suits
<1>7. /\ w \in Table(I)
      /\ Known(w) = Known(u) \cup {f}
      /\ \A g \in Known(u) : g # f => w.items[g] = u.items[g]
      /\ f \notin Known(u) => w.items[f] = e
      /\ f \in Known(u) => w.items[f] = Increased(u.items[f], e)
      /\ DOMAIN w.byIndex = DOMAIN u.byIndex \cup {e.index}
      /\ \A i \in DOMAIN u.byIndex : w.byIndex[i] = u.byIndex[i]
      /\ e.index \notin DOMAIN u.byIndex => w.byIndex[e.index] = f
  BY <1>1, <1>2, <1>3, <1>6, AppendedOne
<1>8. f \in Known(u) => Addable(u.items[f], e, I) /\ u.items[f] \in I
  BY <1>3, <1>6, TableParts
<1>9. IndexesFrom(w, t, E, s1)
  <2>1. DOMAIN w.byIndex = DOMAIN t.byIndex \cup Indexes(E, s1)
    BY <1>3, <1>4, <1>7 DEF IndexesFrom
  <2>2. \A i \in DOMAIN t.byIndex : w.byIndex[i] = t.byIndex[i]
    BY <1>3, <1>7 DEF IndexesFrom
  <2>3. \A i \in Indexes(E, s1) : i \notin DOMAIN t.byIndex =>
          \E j \in s1 : E[j].item.index = i /\ w.byIndex[i] = E[j].fn
    <3> TAKE i \in Indexes(E, s1)
    <3> HAVE i \notin DOMAIN t.byIndex
    <3>1. CASE i \in Indexes(E, s)
      BY <1>3, <1>7, <3>1 DEF IndexesFrom
    <3>2. CASE i \notin Indexes(E, s)
      <4>1. i = e.index /\ i \notin DOMAIN u.byIndex
        BY <1>3, <1>4, <3>2 DEF IndexesFrom
      <4> QED BY <1>1, <1>2, <1>7, <4>1
    <3> QED BY <3>1, <3>2
  <2> QED BY <2>1, <2>2, <2>3 DEF IndexesFrom
<1>10. ItemsFrom(w, t, E, s1)
  <2>1. Known(w) = Known(t) \cup Names(E, s1)
    BY <1>3, <1>4, <1>7 DEF ItemsFrom
  <2>2. \A g \in Known(t) : /\ w.items[g].index = t.items[g].index
                            /\ g \notin Names(E, s1) => w.items[g] = t.items[g]
    <3> TAKE g \in Known(t)
    <3>0. g \in Known(u)
      BY <1>3 DEF ItemsFrom
    <3>1. CASE g = f
      <4>1. w.items[f].index = u.items[f].index
        BY <1>7, <1>8, <3>0, <3>1 DEF Addable
      <4> QED BY <1>3, <1>4, <3>1, <4>1 DEF ItemsFrom
    <3>2. CASE g # f
      BY <1>3, <1>4, <1>7, <3>0, <3>2 DEF ItemsFrom
    <3> QED BY <3>1, <3>2
  <2>3. \A g \in Names(E, s1) : g \notin Known(t) =>
          \E j \in Of(E, s1, g) : w.items[g].index = E[j].item.index
    <3> TAKE g \in Names(E, s1)
    <3> HAVE g \notin Known(t)
    <3>1. CASE g \in Names(E, s)
      <4>1. g \in Known(u)
        BY <1>3, <3>1 DEF ItemsFrom
      <4>2. w.items[g].index = u.items[g].index
        BY <1>7, <1>8, <4>1 DEF Addable
      <4>3. PICK j \in Of(E, s, g) : u.items[g].index = E[j].item.index
        BY <1>3, <3>1 DEF ItemsFrom
      <4> QED BY <4>2, <4>3 DEF Of
    <3>2. CASE g \notin Names(E, s)
      <4>1. g = f /\ g \notin Known(u)
        BY <1>3, <1>4, <3>2 DEF ItemsFrom
      <4> QED BY <1>2, <1>4, <1>7, <4>1
    <3> QED BY <3>1, <3>2
  <2>4. \A j \in s1 : Single(t, E, j) => w.items[E[j].fn] = E[j].item
    <3> TAKE j \in s1
    <3> HAVE Single(t, E, j)
    <3>1. CASE j = k
      BY <1>1, <1>2, <1>5, <1>7, <3>1
    <3>2. CASE j # k
      <4>1. E[j].fn # f
        BY <1>1, <3>2 DEF Single
      <4>2. E[j].fn \in Known(u)
        BY <1>3, <3>2 DEF ItemsFrom, Names
      <4> QED BY <1>3, <1>7, <3>2, <4>1, <4>2 DEF ItemsFrom
    <3> QED BY <3>1, <3>2
  <2>5. \A g \in Known(w) :
          w.items[g].ncall = CallsIn(t, g) + SumFunctionOnSet(Counts(E), Of(E, s1, g))
    <3> TAKE g \in Known(w)
    <3>1. CASE g # f
      <4>1. g \in Known(u) /\ w.items[g] = u.items[g]
        BY <1>7, <3>1
      <4> QED BY <1>3, <1>4, <3>1, <4>1 DEF ItemsFrom
    <3>2. CASE g = f
      <4> DEFINE before == SumFunctionOnSet(Counts(E), Of(E, s, f))
                 after  == SumFunctionOnSet(Counts(E), Of(E, s1, f))
      <4>1. IsFiniteSet(Of(E, s, f)) /\ Of(E, s, f) \subseteq DOMAIN E
        <5>1. Of(E, s, f) \subseteq DOMAIN E
          BY DEF Of
        <5> QED BY <5>1, FS_Subset DEF Suits
      <4>2. \A j \in DOMAIN E : Counts(E)[j] \in Int
        BY <1>3 DEF Counts, Suits
      <4>3. Counts(E)[k] = e.ncall /\ e.ncall \in Nat
        BY <1>2, <1>3 DEF Counts
      <4>4. after = e.ncall + before
        <5>1. PICK c, O : c = Counts(E) /\ O = Of(E, s, f)
          OBVIOUS
        <5>2. /\ IsFiniteSet(O) /\ k \notin O /\ c[k] \in Int
              /\ \A j \in O : c[j] \in Int
          BY <1>4, <4>1, <4>2, <4>3, <5>1
        <5>3. SumFunctionOnSet(c, O \cup {k}) = c[k] + SumFunctionOnSet(c, O)
          BY <5>2, SumAdd
        <5>4. Of(E, s1, f) = O \cup {k}
          BY <1>4, <5>1
        <5> QED BY <4>3, <5>1, <5>3, <5>4
      <4>5. before \in Int
        BY <4>1, <4>2, SumInt
      <4>6. CASE f \in Known(u)
        <5>1. w.items[f].ncall = u.items[f].ncall + e.ncall
          BY <1>7, <1>8, <4>6 DEF Addable
        <5>2. u.items[f].ncall = CallsIn(t, f) + before
          BY <1>3, <4>6 DEF ItemsFrom
        <5>3. CallsIn(t, f) \in Int
          <6>1. \A h \in Known(t) : t.items[h].ncall \in Nat
            BY TableParts DEF Suits
          <6> QED BY <6>1 DEF CallsIn
        <5>4. w.items[f].ncall = CallsIn(t, f) + after
          <6> HIDE DEF before, after
          <6> QED BY <4>3, <4>4, <4>5, <5>1, <5>2, <5>3
        <5> QED BY <3>2, <5>4
      <4>7. CASE f \notin Known(u)
        <5>1. w.items[f].ncall = e.ncall
          BY <1>7, <4>7
        <5>2. f \notin Known(t) /\ f \notin Names(E, s)
          BY <1>3, <4>7 DEF ItemsFrom
        <5>3. Of(E, s, f) = {}
          BY <5>2 DEF Of, Names
        <5>4. before = 0
          BY <5>3, SumOfNone
        <5>5. CallsIn(t, f) = 0
          BY <5>2 DEF CallsIn
        <5>6. w.items[f].ncall = CallsIn(t, f) + after
          <6> HIDE DEF before, after
          <6> QED BY <4>3, <4>4, <5>1, <5>4, <5>5
        <5> QED BY <3>2, <5>6
      <4> QED BY <4>6, <4>7
    <3> QED BY <3>1, <3>2
  <2> QED BY <2>1, <2>2, <2>3, <2>4, <2>5 DEF ItemsFrom
<1> QED BY <1>7, <1>9, <1>10 DEF From

\* All entries that suit the table can be appended.
LEMMA AppendedAllFrom ==
    ASSUME NEW t, NEW E, NEW I, Suits(t, E, I)
    PROVE  AppendedAll(t, E) \in From(t, E, DOMAIN E, I)
<1> DEFINE V == [s \in SUBSET DOMAIN E |-> From(t, E, s, I)]
<1>1. \A s \in SUBSET DOMAIN E, k \in DOMAIN E : k \notin s =>
         \A u \in V[s] : Appended(u, E[k].fn, E[k].item) \in V[s \cup {k}]
  <2> TAKE s \in SUBSET DOMAIN E, k \in DOMAIN E
  <2> HAVE k \notin s
  <2> TAKE u \in V[s]
  <2>1. Appended(u, E[k].fn, E[k].item) \in From(t, E, s \cup {k}, I)
    BY FromOneMore
  <2> QED BY <2>1
<1>2. t \in V[{}]
  BY FromNothing
<1>3. Steps(E, t, V)
  <2> HIDE DEF V
  <2> QED BY <1>1, <1>2 DEF Steps, Suits
<1>4. AppendedAll(t, E) \in V[DOMAIN E]
  BY <1>3, AppendedAllIn
<1> QED BY <1>4

-----------------------------------------------------------------------------
(* Orders of a finite set. *)

\* A sequence that names every element of S once.
Orders(order, S) ==
    /\ order \in [1..Cardinality(S) -> S] /\ Cardinality(S) \in Nat
    /\ \A i, j \in DOMAIN order : order[i] = order[j] => i = j
    /\ \A x \in S : \E i \in DOMAIN order : order[i] = x

LEMMA InjectionOrders ==
    ASSUME NEW S, IsFiniteSet(S), NEW order \in [1..Cardinality(S) -> S],
           \A i, j \in 1..Cardinality(S) : order[i] = order[j] => i = j
    PROVE  Orders(order, S)
<1>1. Cardinality(S) \in Nat
  BY FS_CardinalityType
<1>2. Cardinality(1..Cardinality(S)) = Cardinality(S)
  <2>1. PICK n \in Nat : n = Cardinality(S)
    BY <1>1
  <2>2. Cardinality(1..n) = IF 1 > n THEN 0 ELSE n - 1 + 1
    BY FS_Interval
  <2> QED BY <2>1, <2>2
<1>3. order \in Injection(1..Cardinality(S), S)
  BY Fun_IsInj
<1>4. order \in Surjection(1..Cardinality(S), S)
  BY <1>2, <1>3, FS_Injection
<1>5. \A x \in S : \E i \in 1..Cardinality(S) : order[i] = x
  BY <1>4 DEF Surjection
<1> QED BY <1>1, <1>5 DEF Orders

LEMMA SetToSeqOrders ==
    ASSUME NEW S, IsFiniteSet(S)
    PROVE  Orders(SetToSeq(S), S)
<1>1. \E f \in [1..Cardinality(S) -> S] : IsInjective(f)
  <2>1. ExistsBijection(1..Cardinality(S), S)
    BY FS_CardinalityType
  <2>2. PICK f : f \in Bijection(1..Cardinality(S), S)
    BY <2>1, Fun_ExistsBij
  <2>3. f \in [1..Cardinality(S) -> S] /\ \A a, b \in 1..Cardinality(S) : f[a] = f[b] => a = b
    BY <2>2, Fun_BijectionProperties
  <2> QED BY <2>3 DEF IsInjective
<1>2. PICK f \in [1..Cardinality(S) -> S] : f = SetToSeq(S) /\ IsInjective(f)
  BY <1>1 DEF SetToSeq
<1>3. \A i, j \in 1..Cardinality(S) : f[i] = f[j] => i = j
  BY <1>2 DEF IsInjective
<1> QED BY <1>2, <1>3, InjectionOrders

LEMMA SetToSeqsOrder ==
    ASSUME NEW S, IsFiniteSet(S), NEW order \in SetToSeqs(S)
    PROVE  Orders(order, S)
<1>1. order \in [1..Cardinality(S) -> S]
      /\ \A i, j \in 1..Cardinality(S) : order[i] = order[j] => i = j
  BY DEF SetToSeqs
<1> QED BY <1>1, InjectionOrders

\* The places of an order are numbers from 1 on.
LEMMA OrderPlaces ==
    ASSUME NEW S, NEW order, Orders(order, S)
    PROVE  /\ IsFiniteSet(DOMAIN order) /\ DOMAIN order \in SUBSET Nat
           /\ DOMAIN order = 1..Len(order) /\ Len(order) \in Nat
<1>1. PICK n \in Nat : n = Cardinality(S)
  BY DEF Orders
<1>2. DOMAIN order = 1..n /\ order \in Seq(S)
  BY <1>1 DEF Orders
<1>3. Len(order) = n
  BY <1>2
<1>4. IsFiniteSet(1..n)
  BY FS_Interval
<1> QED BY <1>2, <1>3, <1>4

-----------------------------------------------------------------------------
(* The tables of a session, of an object, and of the callees of a function. *)

ChildTable == Table(Kid)
Raw == [index: Nat, ncall: Nat, children: Seq(Kid)]
Func == [index: Nat, ncall: Nat, children: ChildTable]

LEMMA NoTableIs ==
    ASSUME NEW I
    PROVE  /\ NoTable \in Table(I) /\ Known(NoTable) = {}
           /\ DOMAIN NoTable.byIndex = {}
           /\ \A f : CallsIn(NoTable, f) = 0
<1>1. <<>> \in Map(Fn, I) /\ <<>> \in Map(Nat, Fn)
  <2>1. DOMAIN <<>> = {} /\ <<>> = [x \in {} |-> x]
    OBVIOUS
  <2> QED BY <2>1, MapMade
<1>2. NoTable \in Table(I)
  BY <1>1 DEF NoTable, Table
<1>3. Known(NoTable) = {} /\ DOMAIN NoTable.byIndex = {}
  BY DEF NoTable, Known
<1> QED BY <1>2, <1>3 DEF CallsIn

LEMMA KidsAdd ==
    ASSUME NEW a \in Kid, NEW e \in Kid
    PROVE  Addable(a, e, Kid)
<1>1. "children" \notin DOMAIN a
  BY DEF Kid
<1>2. Increased(a, e) = [a EXCEPT !.ncall = @ + e.ncall]
  BY <1>1 DEF Increased, PlusChild
<1> QED BY <1>2 DEF Addable, Kid

LEMMA RawAdd ==
    ASSUME NEW a \in Raw, NEW e \in Raw
    PROVE  Addable(a, e, Raw) /\ Increased(a, e).children = a.children \o e.children
<1>1. "children" \in DOMAIN a
  BY DEF Raw
<1>2. Increased(a, e) = [a EXCEPT !.ncall = @ + e.ncall, !.children = @ \o e.children]
  BY <1>1 DEF Increased, PlusRecord
<1>3. a.children \o e.children \in Seq(Kid)
  BY DEF Raw
<1>4. PICK c \in Seq(Kid) : c = a.children \o e.children
  BY <1>3
<1>5. PICK n \in Nat : n = a.ncall + e.ncall
  BY DEF Raw
<1>6. Increased(a, e) = [a EXCEPT !.ncall = n, !.children = c]
  BY <1>2, <1>4, <1>5
<1>7. PICK r : r = Increased(a, e)
  OBVIOUS
<1>8. r \in Raw /\ r.index = a.index /\ r.ncall = n /\ r.children = c
  BY <1>6, <1>7 DEF Raw
<1> QED BY <1>4, <1>5, <1>7, <1>8 DEF Addable

\* Index i finds function f.
Finds(table, i, f) == i \in DOMAIN table.byIndex /\ table.byIndex[i] = f

\* What an index finds is there, and functions are found by their indexes.
Sound(table) ==
    /\ \A i \in DOMAIN table.byIndex : table.byIndex[i] \in Known(table)
    /\ \A f \in Known(table) : Finds(table, table.items[f].index, f)

\* A table of functions: it is sound, and finds callees by their indexes.
Consistent(table) ==
    /\ table \in Table(Func)
    /\ Sound(table)
    /\ \A f \in Known(table) : \A g \in Known(table.items[f].children) :
         Finds(table, table.items[f].children.items[g].index, g)

\* The records of a session: no index is there twice.
Records(records) ==
    /\ records \in Seq(Record)
    /\ \A i, j \in DOMAIN records : records[i].index = records[j].index => i = j

Passed(records, kept) == {k \in DOMAIN records : records[k].index \in kept}
RecordEntries(records, kept) ==
    [k \in Passed(records, kept) |->
       Entry(records[k].fn, [index    |-> records[k].index,
                             ncall    |-> records[k].ncall,
                             children |-> records[k].kids])]

LEMMA SeqPlaces ==
    ASSUME NEW S, NEW s \in Seq(S), NEW D \in SUBSET DOMAIN s
    PROVE  IsFiniteSet(D) /\ D \in SUBSET Nat /\ \A k \in D : s[k] \in S
<1>1. PICK n \in Nat : n = Len(s)
  OBVIOUS
<1>2. DOMAIN s = 1..n
  BY <1>1
<1>3. IsFiniteSet(1..n)
  BY FS_Interval
<1>4. IsFiniteSet(D)
  BY <1>2, <1>3, FS_Subset
<1>5. \A k \in 1..n : s[k] \in S
  BY <1>1
<1> QED BY <1>2, <1>4, <1>5

LEMMA RecordEntriesSuit ==
    ASSUME NEW records, Records(records), NEW kept
    PROVE  Suits(NoTable, RecordEntries(records, kept), Raw)
<1> DEFINE E == RecordEntries(records, kept)
           D == Passed(records, kept)
<1>1. DOMAIN E = D /\ D \in SUBSET DOMAIN records
  BY DEF RecordEntries, Passed
<1>2. IsFiniteSet(D) /\ D \in SUBSET Nat /\ \A k \in D : records[k] \in Record
  <2> HIDE DEF D
  <2> QED BY <1>1, SeqPlaces DEF Records
<1>3. \A k \in D : E[k].fn \in Fn /\ E[k].item \in Raw
  <2> TAKE k \in D
  <2>1. PICK r \in Record : r = records[k]
    BY <1>2
  <2>2. E[k] = Entry(r.fn, [index |-> r.index, ncall |-> r.ncall, children |-> r.kids])
    BY <2>1 DEF RecordEntries
  <2>3. E[k].fn = r.fn /\ E[k].item = [index |-> r.index, ncall |-> r.ncall, children |-> r.kids]
    BY <2>2 DEF Entry
  <2> QED BY <2>3 DEF Record, Raw
<1>4. \A k \in D : \A a \in Raw : Addable(a, E[k].item, Raw)
  BY <1>3, RawAdd
<1>5. \A a \in Raw : a.index \in Nat /\ a.ncall \in Nat
  BY DEF Raw
<1>6. NoTable \in Table(Raw)
  BY NoTableIs
<1> HIDE DEF E, D
<1> QED BY <1>1, <1>2, <1>3, <1>4, <1>5, <1>6 DEF Suits, E

LEMMA EnumeratedIs ==
    ASSUME NEW records, Records(records), NEW kept,
           NEW t, t = Enumerated(records, kept)
    PROVE  /\ t \in From(NoTable, RecordEntries(records, kept), Passed(records, kept), Raw)
           /\ Sound(t)
           /\ \A i \in DOMAIN t.byIndex :
                i \in kept /\ \E k \in DOMAIN records : records[k].index = i
<1>1. PICK E : E = RecordEntries(records, kept)
  OBVIOUS
<1>2. PICK D : D = Passed(records, kept)
  OBVIOUS
<1>3. DOMAIN E = D /\ D \in SUBSET DOMAIN records
  BY <1>1, <1>2 DEF RecordEntries, Passed
<1>4. \A k \in D : E[k].item.index = records[k].index /\ records[k].index \in kept
  BY <1>1, <1>2 DEF RecordEntries, Passed, Entry
<1>5. t = AppendedAll(NoTable, E)
  BY <1>1 DEF Enumerated, RecordEntries, Passed
<1>6. Suits(NoTable, E, Raw)
  BY <1>1, RecordEntriesSuit
<1>7. t \in From(NoTable, E, D, Raw)
  BY <1>3, <1>5, <1>6, AppendedAllFrom
<1>8. IndexesFrom(t, NoTable, E, D) /\ ItemsFrom(t, NoTable, E, D)
  BY <1>7 DEF From
<1>9. /\ DOMAIN t.byIndex = Indexes(E, D) /\ Known(t) = Names(E, D)
      /\ \A i \in Indexes(E, D) : \E k \in D : E[k].item.index = i /\ t.byIndex[i] = E[k].fn
      /\ \A f \in Names(E, D) : \E k \in Of(E, D, f) : t.items[f].index = E[k].item.index
  <2>1. DOMAIN NoTable.byIndex = {} /\ Known(NoTable) = {}
    BY NoTableIs
  <2> QED BY <1>8, <2>1 DEF IndexesFrom, ItemsFrom
<1>10. \A i \in DOMAIN t.byIndex : t.byIndex[i] \in Known(t)
  BY <1>9 DEF Names
<1>11. \A f \in Known(t) : Finds(t, t.items[f].index, f)
  <2> TAKE f \in Known(t)
  <2>1. PICK k \in Of(E, D, f) : t.items[f].index = E[k].item.index
    BY <1>9
  <2>2. k \in D /\ E[k].fn = f
    BY DEF Of
  <2>3. E[k].item.index \in Indexes(E, D)
    BY <2>2 DEF Indexes
  <2>4. PICK j \in D : E[j].item.index = E[k].item.index /\ t.byIndex[E[k].item.index] = E[j].fn
    BY <1>9, <2>3
  <2>5. j = k
    BY <1>3, <1>4, <2>2, <2>4 DEF Records
  <2> QED BY <1>9, <2>1, <2>2, <2>3, <2>4, <2>5 DEF Finds
<1>12. \A i \in DOMAIN t.byIndex : i \in kept /\ \E k \in DOMAIN records : records[k].index = i
  BY <1>3, <1>4, <1>9 DEF Indexes
<1> QED BY <1>1, <1>2, <1>7, <1>10, <1>11, <1>12 DEF Sound

Valid(t, kids) == {k \in DOMAIN kids : kids[k].index \in DOMAIN t.byIndex}
KidEntries(t, kids) ==
    [k \in Valid(t, kids) |-> Entry(t.byIndex[kids[k].index], kids[k])]

LEMMA KidEntriesSuit ==
    ASSUME NEW t \in Table(Raw), NEW kids \in Seq(Kid)
    PROVE  Suits(NoTable, KidEntries(t, kids), Kid)
<1> DEFINE E == KidEntries(t, kids)
           D == Valid(t, kids)
<1>1. DOMAIN E = D /\ D \in SUBSET DOMAIN kids
  BY DEF KidEntries, Valid
<1>2. IsFiniteSet(D) /\ D \in SUBSET Nat /\ \A k \in D : kids[k] \in Kid
  <2> HIDE DEF D
  <2> QED BY <1>1, SeqPlaces
<1>3. \A k \in D : E[k].fn \in Fn /\ E[k].item \in Kid
  <2> TAKE k \in D
  <2>1. E[k].fn = t.byIndex[kids[k].index] /\ E[k].item = kids[k]
    BY DEF KidEntries, Entry
  <2>2. t.byIndex[kids[k].index] \in Fn
    BY TableParts DEF Valid
  <2> QED BY <1>2, <2>1, <2>2
<1>4. \A k \in D : \A a \in Kid : Addable(a, E[k].item, Kid)
  BY <1>3, KidsAdd
<1>5. \A a \in Kid : a.index \in Nat /\ a.ncall \in Nat
  BY DEF Kid
<1>6. NoTable \in Table(Kid)
  BY NoTableIs
<1> HIDE DEF E, D
<1> QED BY <1>1, <1>2, <1>3, <1>4, <1>5, <1>6 DEF Suits, E

LEMMA ConvertedIs ==
    ASSUME NEW t \in Table(Raw), NEW kids \in Seq(Kid), NEW c, c = Converted(t, kids)
    PROVE  /\ c \in From(NoTable, KidEntries(t, kids), Valid(t, kids), Kid)
           /\ \A g \in Known(c) : Finds(t, c.items[g].index, g)
<1>1. PICK E : E = KidEntries(t, kids)
  OBVIOUS
<1>2. PICK D : D = Valid(t, kids)
  OBVIOUS
<1>3. DOMAIN E = D /\ D \in SUBSET DOMAIN kids
  BY <1>1, <1>2 DEF KidEntries, Valid
<1>4. \A k \in D : /\ E[k].item.index = kids[k].index
                   /\ Finds(t, kids[k].index, E[k].fn)
  BY <1>1, <1>2 DEF KidEntries, Valid, Entry, Finds
<1>5. c = AppendedAll(NoTable, E)
  BY <1>1 DEF Converted, KidEntries, Valid
<1>6. Suits(NoTable, E, Kid)
  BY <1>1, KidEntriesSuit
<1>7. c \in From(NoTable, E, D, Kid)
  BY <1>3, <1>5, <1>6, AppendedAllFrom
<1>8. ItemsFrom(c, NoTable, E, D)
  BY <1>7 DEF From
<1>9. /\ Known(c) = Names(E, D)
      /\ \A f \in Names(E, D) : \E k \in Of(E, D, f) : c.items[f].index = E[k].item.index
  <2>1. Known(NoTable) = {}
    BY NoTableIs
  <2> QED BY <1>8, <2>1 DEF ItemsFrom
<1>10. \A g \in Known(c) : Finds(t, c.items[g].index, g)
  <2> TAKE g \in Known(c)
  <2>1. PICK k \in Of(E, D, g) : c.items[g].index = E[k].item.index
    BY <1>9
  <2>2. k \in D /\ E[k].fn = g
    BY DEF Of
  <2> QED BY <1>4, <2>1, <2>2
<1> QED BY <1>1, <1>2, <1>7, <1>10

LEMMA WithChildrenIs ==
    ASSUME NEW t \in Table(Raw), Sound(t), NEW u, u = WithChildren(t)
    PROVE  /\ Consistent(u) /\ u.byIndex = t.byIndex /\ Known(u) = Known(t)
           /\ \A f \in Known(t) :
                /\ u.items[f].children = Converted(t, t.items[f].children)
                /\ u.items[f].ncall = t.items[f].ncall
<1>1. u = [t EXCEPT !.items = [f \in Known(t) |->
             [t.items[f] EXCEPT !.children = Converted(t, t.items[f].children)]]]
  BY DEF WithChildren, Known
<1>2. t = [items |-> t.items, byIndex |-> t.byIndex]
  BY TableParts
<1>3. /\ u = [items |-> u.items, byIndex |-> t.byIndex]
      /\ u.items = [f \in Known(t) |->
           [t.items[f] EXCEPT !.children = Converted(t, t.items[f].children)]]
  BY <1>1, <1>2
<1>4. \A f \in Known(t) :
         /\ u.items[f] \in Func
         /\ u.items[f].index = t.items[f].index
         /\ u.items[f].ncall = t.items[f].ncall
         /\ u.items[f].children = Converted(t, t.items[f].children)
         /\ \A g \in Known(u.items[f].children) :
              Finds(t, u.items[f].children.items[g].index, g)
  <2> TAKE f \in Known(t)
  <2>1. PICK r \in Raw : r = t.items[f]
    BY TableParts
  <2>2. PICK c : c = Converted(t, r.children)
    OBVIOUS
  <2>3. r.children \in Seq(Kid)
    BY DEF Raw
  <2>4. c \in ChildTable /\ \A g \in Known(c) : Finds(t, c.items[g].index, g)
    BY <2>2, <2>3, ConvertedIs DEF From, ChildTable
  <2>5. u.items[f] = [r EXCEPT !.children = c]
    BY <1>3, <2>1, <2>2
  <2>6. PICK w : w = u.items[f]
    OBVIOUS
  <2>7. w \in Func /\ w.index = r.index /\ w.ncall = r.ncall /\ w.children = c
    BY <2>4, <2>5, <2>6 DEF Raw, Func
  <2> QED BY <2>1, <2>2, <2>4, <2>6, <2>7
<1>5. Known(u) = Known(t) /\ u.byIndex = t.byIndex
  BY <1>3 DEF Known
<1>6. u \in Table(Func)
  <2>1. DOMAIN u.items = Known(t) /\ Known(t) \subseteq Fn
    BY <1>3, TableParts
  <2>2. u.items = [f \in DOMAIN u.items |-> u.items[f]]
    BY <1>3
  <2>3. u.items \in Map(Fn, Func)
    BY <1>4, <2>1, <2>2, MapMade
  <2>4. t.byIndex \in Map(Nat, Fn)
    BY TableParts
  <2> QED BY <1>3, <2>3, <2>4 DEF Table
<1>7. Sound(u)
  BY <1>4, <1>5 DEF Sound, Finds
<1> QED BY <1>4, <1>5, <1>6, <1>7 DEF Consistent, Finds

\* A sum over one element.
LEMMA SumOfOne ==
    ASSUME NEW fun, NEW x, fun[x] \in Int
    PROVE  SumFunctionOnSet(fun, {x}) = fun[x]
<1>1. IsFiniteSet({}) /\ x \notin {}
  BY FS_EmptySet
<1>2. SumFunctionOnSet(fun, {} \cup {x}) = fun[x] + SumFunctionOnSet(fun, {})
  BY <1>1, SumAdd
<1>3. SumFunctionOnSet(fun, {}) = 0
  BY SumOfNone
<1>4. {} \cup {x} = {x}
  OBVIOUS
<1> QED BY <1>2, <1>3, <1>4

\* The tables of the callees of a function, one in the object and one in a file.
LEMMA ChildrenMergedIs ==
    ASSUME NEW ours \in ChildTable, NEW others \in ChildTable,
           NEW m, m = ChildrenMerged(ours, others)
    PROVE  /\ m \in ChildTable
           /\ Known(m) = Known(ours) \cup Known(others)
           /\ \A g \in Known(ours) : m.items[g].index = ours.items[g].index
           /\ \A g \in Known(others) \ Known(ours) : m.items[g].index = others.items[g].index
           /\ \A g : CallsIn(m, g) = CallsIn(ours, g) + CallsIn(others, g)
<1>1. PICK order : order = SetToSeq(Known(others))
  OBVIOUS
<1>2. PICK S \in SUBSET Fn : S = Known(others)
  BY TableParts DEF ChildTable
<1>3. IsFiniteSet(S)
  BY SessionAssumption, FS_Subset
<1>4. Orders(order, S)
  BY <1>1, <1>2, <1>3, SetToSeqOrders
<1>5. PICK D : D = DOMAIN order /\ IsFiniteSet(D) /\ D \in SUBSET Nat
  BY <1>4, OrderPlaces
<1>6. PICK E : E = [k \in DOMAIN order |-> Entry(order[k], others.items[order[k]])]
  OBVIOUS
<1>7. \A k \in D : order[k] \in S
  BY <1>4, <1>5 DEF Orders
<1>8. \A g \in S : others.items[g] \in Kid
  BY <1>2, TableParts DEF ChildTable
<1>9. DOMAIN E = D /\ \A k \in D : E[k].fn = order[k] /\ E[k].item = others.items[order[k]]
  BY <1>5, <1>6 DEF Entry
<1>10. Suits(ours, E, Kid)
  <2>1. \A k \in D : E[k].fn \in Fn /\ E[k].item \in Kid
    BY <1>7, <1>8, <1>9
  <2>2. \A k \in D : \A a \in Kid : Addable(a, E[k].item, Kid)
    BY <2>1, KidsAdd
  <2>3. \A a \in Kid : a.index \in Nat /\ a.ncall \in Nat
    BY DEF Kid
  <2> QED BY <1>5, <1>9, <2>1, <2>2, <2>3 DEF Suits, ChildTable
<1>11. m = AppendedAll(ours, E)
  BY <1>1, <1>6 DEF ChildrenMerged
<1>12. m \in Table(Kid) /\ ItemsFrom(m, ours, E, D)
  BY <1>9, <1>10, <1>11, AppendedAllFrom DEF From
<1>13. Names(E, D) = S
  <2>1. \A g \in S : \E k \in D : order[k] = g
    BY <1>4, <1>5 DEF Orders
  <2> QED BY <1>7, <1>9, <2>1 DEF Names
<1>14. \A g \in S \ Known(ours) : m.items[g].index = others.items[g].index
  <2> TAKE g \in S \ Known(ours)
  <2>1. PICK k \in Of(E, D, g) : m.items[g].index = E[k].item.index
    BY <1>12, <1>13 DEF ItemsFrom
  <2> QED BY <1>9, <2>1 DEF Of
<1>15. \A g : SumFunctionOnSet(Counts(E), Of(E, D, g)) = CallsIn(others, g)
  <2> TAKE g
  <2>1. CASE g \in S
    <3>1. PICK k \in D : order[k] = g
      BY <1>4, <1>5, <2>1 DEF Orders
    <3>2. \A j \in D : order[j] = g => j = k
      BY <1>4, <1>5, <3>1 DEF Orders
    <3>3. Of(E, D, g) = {k}
      BY <1>9, <3>1, <3>2 DEF Of
    <3>4. Counts(E)[k] = others.items[g].ncall
      BY <1>9, <3>1 DEF Counts
    <3>5. others.items[g].ncall \in Int
      BY <1>8, <2>1 DEF Kid
    <3>6. SumFunctionOnSet(Counts(E), {k}) = others.items[g].ncall
      BY <3>4, <3>5, SumOfOne
    <3> QED BY <1>2, <2>1, <3>3, <3>6 DEF CallsIn
  <2>2. CASE g \notin S
    <3>1. Of(E, D, g) = {}
      BY <1>13, <2>2 DEF Of, Names
    <3> QED BY <1>2, <2>2, <3>1, SumOfNone DEF CallsIn
  <2> QED BY <2>1, <2>2
<1>16. Known(m) = Known(ours) \cup S
  BY <1>12, <1>13 DEF ItemsFrom
<1>17. \A g : CallsIn(m, g) = CallsIn(ours, g) + CallsIn(others, g)
  <2> TAKE g
  <2>1. CASE g \in Known(m)
    BY <1>12, <1>15, <2>1 DEF ItemsFrom, CallsIn
  <2>2. CASE g \notin Known(m)
    BY <1>2, <1>16, <2>2 DEF CallsIn
  <2> QED BY <2>1, <2>2
<1> QED BY <1>2, <1>12, <1>14, <1>16, <1>17 DEF ItemsFrom, ChildTable

\* No index of the object is greater than i.
UpTo(table, i) == i \in Nat /\ \A j \in DOMAIN table.byIndex : j <= i

LEMMA RenumberedIs ==
    ASSUME NEW ours, ours = stats.table, Consistent(ours), NEW T, Consistent(T),
           NEW i, UpTo(ours, i),
           NEW order \in SetToSeqs(Known(T) \ Known(ours)),
           NEW known, known = Renumbered(T, order, i)
    PROVE  /\ known \in Table(Func) /\ Sound(known)
           /\ Known(known) = Known(ours) \cup Known(T)
           /\ ToSet(order) = Known(T) \ Known(ours)
           /\ UpTo(known, i + Len(order))
           /\ \A j \in DOMAIN ours.byIndex : Finds(known, j, ours.byIndex[j])
           /\ \A f \in Known(ours) : known.items[f] = ours.items[f]
           /\ \A f \in Known(T) \ Known(ours) :
                /\ known.items[f].ncall = T.items[f].ncall
                /\ known.items[f].children = T.items[f].children
<1>1. PICK S : S = Known(T) \ Known(ours)
  OBVIOUS
<1>2. S \subseteq Fn /\ \A f \in S : T.items[f] \in Func
  BY <1>1, TableParts DEF Consistent
<1>3. Orders(order, S)
  <2>1. IsFiniteSet(S)
    BY <1>2, SessionAssumption, FS_Subset
  <2> QED BY <1>1, <2>1, SetToSeqsOrder
<1>4. PICK D : D = DOMAIN order
  OBVIOUS
<1>5. PICK n \in Nat : n = Len(order) /\ D = 1..n /\ IsFiniteSet(D) /\ D \in SUBSET Nat
  BY <1>3, <1>4, OrderPlaces
<1>6. PICK E : E = [k \in DOMAIN order |->
                      Entry(order[k], [T.items[order[k]] EXCEPT !.index = i + k])]
  OBVIOUS
<1>7. \A k \in D : order[k] \in S /\ T.items[order[k]] \in Func
  BY <1>2, <1>3, <1>4 DEF Orders
<1>8. DOMAIN E = D
  BY <1>4, <1>6
<1>9. \A k \in D : /\ E[k].fn = order[k] /\ E[k].item \in Func
                   /\ E[k].item.index = i + k
                   /\ E[k].item.ncall = T.items[order[k]].ncall
                   /\ E[k].item.children = T.items[order[k]].children
  <2> TAKE k \in D
  <2>1. PICK r \in Func : r = T.items[order[k]]
    BY <1>7
  <2>2. PICK x \in Nat : x = i + k
    BY <1>5 DEF UpTo
  <2>3. PICK w : w = [r EXCEPT !.index = x]
    OBVIOUS
  <2>4. w \in Func /\ w.index = x /\ w.ncall = r.ncall /\ w.children = r.children
    BY <2>3 DEF Func
  <2>5. E[k] = Entry(order[k], w)
    BY <1>4, <1>6, <2>1, <2>2, <2>3
  <2>6. E[k].fn = order[k] /\ E[k].item = w
    BY <2>5 DEF Entry
  <2> QED BY <2>1, <2>2, <2>4, <2>6
<1>10. \A k \in D : Single(ours, E, k)
  <2> TAKE k \in D
  <2>1. E[k].fn \notin Known(ours)
    BY <1>1, <1>7, <1>9
  <2>2. \A j \in D : E[j].fn = E[k].fn => j = k
    BY <1>3, <1>4, <1>9 DEF Orders
  <2> QED BY <1>8, <2>1, <2>2 DEF Single
<1>11. Suits(ours, E, Func)
  <2>1. \A k \in D : E[k].fn \in Fn
    BY <1>2, <1>7, <1>9
  <2>2. \A a \in Func : a.index \in Nat /\ a.ncall \in Nat
    BY DEF Func
  <2> QED BY <1>5, <1>8, <1>9, <1>10, <2>1, <2>2 DEF Suits, Consistent
<1>12. known = AppendedAll(ours, E)
  BY <1>6 DEF Renumbered
<1>13. known \in Table(Func) /\ IndexesFrom(known, ours, E, D) /\ ItemsFrom(known, ours, E, D)
  BY <1>8, <1>11, <1>12, AppendedAllFrom DEF From
<1>14. Names(E, D) = S
  <2>1. \A f \in S : \E k \in D : order[k] = f
    BY <1>3, <1>4 DEF Orders
  <2> QED BY <1>7, <1>9, <2>1 DEF Names
<1>15. ToSet(order) = S
  <2>1. \A f \in S : \E k \in D : order[k] = f
    BY <1>3, <1>4 DEF Orders
  <2> QED BY <1>4, <1>7, <2>1 DEF ToSet
<1>16. Known(known) = Known(ours) \cup S
  BY <1>13, <1>14 DEF ItemsFrom
<1>17. \A f \in Known(ours) : known.items[f] = ours.items[f]
  BY <1>1, <1>13, <1>14 DEF ItemsFrom
<1>18. \A k \in D : known.items[order[k]] = E[k].item
  BY <1>9, <1>10, <1>13 DEF ItemsFrom
<1>19. \A f \in S : /\ known.items[f].ncall = T.items[f].ncall
                    /\ known.items[f].children = T.items[f].children
  <2> TAKE f \in S
  <2>1. PICK k \in D : order[k] = f
    BY <1>3, <1>4 DEF Orders
  <2> QED BY <1>9, <1>18, <2>1
<1>20. \A k \in D : i + k \notin DOMAIN ours.byIndex
  <2> TAKE k \in D
  <2>1. ~ (i + k <= i)
    BY <1>5 DEF UpTo
  <2> QED BY <2>1 DEF UpTo
<1>21. \A k \in D : Finds(known, i + k, order[k])
  <2> TAKE k \in D
  <2>1. i + k \in Indexes(E, D)
    BY <1>9 DEF Indexes
  <2>2. PICK j \in D : E[j].item.index = i + k /\ known.byIndex[i + k] = E[j].fn
    BY <1>13, <1>20, <2>1 DEF IndexesFrom
  <2>3. i + j = i + k
    BY <1>9, <2>2
  <2>4. j = k
    BY <1>5, <2>3 DEF UpTo
  <2> QED BY <1>9, <1>13, <2>1, <2>2, <2>4 DEF Finds, IndexesFrom
<1>22. \A j \in DOMAIN ours.byIndex : Finds(known, j, ours.byIndex[j])
  BY <1>13 DEF IndexesFrom, Finds
<1>23. \A j \in DOMAIN known.byIndex : j \in DOMAIN ours.byIndex \/ \E k \in D : j = i + k
  <2>1. \A j \in Indexes(E, D) : \E k \in D : j = i + k
    BY <1>9 DEF Indexes
  <2> QED BY <1>13, <2>1 DEF IndexesFrom
<1>24. Sound(known)
  <2>1. \A j \in DOMAIN known.byIndex : known.byIndex[j] \in Known(known)
    <3> TAKE j \in DOMAIN known.byIndex
    <3>1. CASE j \in DOMAIN ours.byIndex
      BY <1>16, <1>22, <3>1 DEF Finds, Consistent, Sound
    <3>2. CASE \E k \in D : j = i + k
      BY <1>7, <1>16, <1>21, <3>2 DEF Finds
    <3> QED BY <1>23, <3>1, <3>2
  <2>2. \A f \in Known(known) : Finds(known, known.items[f].index, f)
    <3> TAKE f \in Known(known)
    <3>1. CASE f \in Known(ours)
      BY <1>17, <1>22, <3>1 DEF Finds, Consistent, Sound
    <3>2. CASE f \in S
      <4>1. PICK k \in D : order[k] = f
        BY <1>3, <1>4, <3>2 DEF Orders
      <4> QED BY <1>9, <1>18, <1>21, <4>1
    <3> QED BY <1>16, <3>1, <3>2
  <2> QED BY <2>1, <2>2 DEF Sound
<1>25. UpTo(known, i + n)
  <2>1. i + n \in Nat
    BY DEF UpTo
  <2>2. \A j \in DOMAIN ours.byIndex : j <= i + n
    <3> TAKE j \in DOMAIN ours.byIndex
    <3>1. j \in Nat /\ j <= i /\ i \in Nat
      BY TableParts DEF UpTo, Consistent
    <3> QED BY <3>1
  <2>3. \A k \in D : i + k <= i + n
    BY <1>5 DEF UpTo
  <2> QED BY <1>23, <2>1, <2>2, <2>3 DEF UpTo
<1> QED BY <1>1, <1>5, <1>13, <1>15, <1>16, <1>17, <1>19, <1>22, <1>24, <1>25

LEMMA ChildrenFixedIs ==
    ASSUME NEW known \in Table(Func), Sound(known),
           NEW c \in ChildTable, Known(c) \subseteq Known(known),
           NEW d, d = ChildrenFixed(c, known)
    PROVE  /\ d \in ChildTable /\ Known(d) = Known(c)
           /\ \A g \in Known(d) : Finds(known, d.items[g].index, g)
           /\ \A g : CallsIn(d, g) = CallsIn(c, g)
<1>1. c = [items |-> c.items, byIndex |-> c.byIndex]
  BY TableParts DEF ChildTable
<1>2. d = [c EXCEPT !.items = [g \in Known(c) |->
             [c.items[g] EXCEPT !.index = known.items[g].index]]]
  BY DEF ChildrenFixed
<1>3. /\ d = [items |-> d.items, byIndex |-> c.byIndex]
      /\ d.items = [g \in Known(c) |-> [c.items[g] EXCEPT !.index = known.items[g].index]]
  BY <1>1, <1>2
<1>4. \A g \in Known(c) : /\ d.items[g] \in Kid
                          /\ d.items[g].index = known.items[g].index
                          /\ d.items[g].ncall = c.items[g].ncall
  <2> TAKE g \in Known(c)
  <2>1. PICK k \in Kid : k = c.items[g]
    BY TableParts DEF ChildTable
  <2>6. known.items[g] \in Func
    BY TableParts
  <2>2. PICK i \in Nat : i = known.items[g].index
    BY <2>6 DEF Func
  <2>3. PICK w : w = [k EXCEPT !.index = i]
    OBVIOUS
  <2>4. w \in Kid /\ w.index = i /\ w.ncall = k.ncall
    BY <2>3 DEF Kid
  <2>5. d.items[g] = w
    BY <1>3, <2>1, <2>2, <2>3
  <2> QED BY <2>1, <2>2, <2>4, <2>5
<1>5. Known(d) = Known(c)
  BY <1>3 DEF Known
<1>6. d \in ChildTable
  <2>1. DOMAIN d.items = Known(c) /\ Known(c) \subseteq Fn
    BY <1>3, TableParts DEF ChildTable
  <2>2. d.items = [g \in DOMAIN d.items |-> d.items[g]]
    BY <1>3
  <2>3. d.items \in Map(Fn, Kid)
    BY <1>4, <2>1, <2>2, MapMade
  <2>4. c.byIndex \in Map(Nat, Fn)
    BY TableParts DEF ChildTable
  <2> QED BY <1>3, <2>3, <2>4 DEF Table, ChildTable
<1>7. \A g \in Known(d) : Finds(known, d.items[g].index, g)
  BY <1>4, <1>5 DEF Sound
<1>8. \A g : CallsIn(d, g) = CallsIn(c, g)
  BY <1>4, <1>5 DEF CallsIn
<1> QED BY <1>5, <1>6, <1>7, <1>8

\* Function f of the object after the file T is merged in, known being the object
\* with the functions that it did not have.
LEMMA MergedFunction ==
    ASSUME NEW ours, Consistent(ours), NEW T, Consistent(T),
           NEW known \in Table(Func), Sound(known),
           Known(known) = Known(ours) \cup Known(T),
           NEW new, new = Known(T) \ Known(ours),
           \A j \in DOMAIN ours.byIndex : Finds(known, j, ours.byIndex[j]),
           \A f \in Known(ours) : known.items[f] = ours.items[f],
           \A f \in Known(T) \ Known(ours) :
              /\ known.items[f].ncall = T.items[f].ncall
              /\ known.items[f].children = T.items[f].children,
           NEW u, u = Merged(known, T, new),
           NEW f \in Known(known)
    PROVE  /\ u.items[f] \in Func
           /\ u.items[f].index = known.items[f].index
           /\ \A g \in Known(u.items[f].children) :
                Finds(known, u.items[f].children.items[g].index, g)
           /\ u.items[f].ncall = CallsIn(ours, f) + CallsIn(T, f)
           /\ \A g : CallsIn(u.items[f].children, g) = PairsIn(ours, f, g) + PairsIn(T, f, g)
<1> DEFINE fixed == ChildrenFixed(T.items[f].children, known)
           other == [T.items[f] EXCEPT !.children = fixed]
<1>0. u.items[f] = IF f \notin Known(T) THEN known.items[f]
                   ELSE IF f \in new THEN [known.items[f] EXCEPT !.children = other.children]
                   ELSE Plus(known.items[f], other)
  <2>1. known = [items |-> known.items, byIndex |-> known.byIndex]
    BY TableParts
  <2> QED BY <2>1 DEF Merged
<1>1. PICK k \in Func : k = known.items[f]
  BY TableParts
<1>2. \A h \in Known(ours) : ours.items[h] \in Func
  BY TableParts DEF Consistent
<1>3. \A h \in Known(T) : T.items[h] \in Func
  BY TableParts DEF Consistent
<1>4. \A t2, h : t2 \in ChildTable => CallsIn(t2, h) \in Nat
  <2> SUFFICES ASSUME NEW t2, NEW h, t2 \in ChildTable PROVE CallsIn(t2, h) \in Nat
    OBVIOUS
  <2>1. \A x \in Known(t2) : t2.items[x] \in Kid
    BY TableParts DEF ChildTable
  <2> QED BY <2>1 DEF CallsIn, Kid
<1>5. f \in Known(ours) => \A g \in Known(k.children) : Finds(known, k.children.items[g].index, g)
  BY <1>1 DEF Consistent, Finds
<1>6. CASE f \notin Known(T)
  <2>1. f \in Known(ours) /\ k = ours.items[f] /\ u.items[f] = k
    BY <1>0, <1>1, <1>6
  <2>2. CallsIn(T, f) = 0 /\ CallsIn(ours, f) = k.ncall /\ k.ncall \in Nat
    BY <1>6, <2>1 DEF CallsIn, Func
  <2>3. \A g : PairsIn(T, f, g) = 0 /\ PairsIn(ours, f, g) = CallsIn(k.children, g)
    BY <1>6, <2>1 DEF PairsIn
  <2>4. \A g : CallsIn(k.children, g) \in Nat
    BY <1>4 DEF Func
  <2>5. \A g : CallsIn(k.children, g) = PairsIn(ours, f, g) + PairsIn(T, f, g)
    BY <2>3, <2>4
  <2>6. k.ncall = CallsIn(ours, f) + CallsIn(T, f)
    BY <2>2
  <2> QED BY <1>1, <1>5, <2>1, <2>5, <2>6
<1>7. CASE f \in Known(T)
  <2>1. PICK o \in Func : o = T.items[f]
    BY <1>3, <1>7
  <2>2. PICK d : d = fixed
    OBVIOUS
  <2>3. o.children \in ChildTable /\ Known(o.children) \subseteq Known(known)
    <3>1. \A g \in Known(o.children) : g \in Known(T)
      BY <1>7, <2>1 DEF Consistent, Finds, Sound
    <3> QED BY <3>1 DEF Func
  <2>4. /\ d \in ChildTable
        /\ \A g \in Known(d) : Finds(known, d.items[g].index, g)
        /\ \A g : CallsIn(d, g) = CallsIn(o.children, g)
    BY <2>1, <2>2, <2>3, ChildrenFixedIs
  <2>5. PICK w : w = other
    OBVIOUS
  <2>6. w.children = d /\ w.ncall = o.ncall /\ o.ncall \in Nat
    BY <2>1, <2>2, <2>5 DEF Func
  <2>7. CallsIn(T, f) = o.ncall /\ \A g : PairsIn(T, f, g) = CallsIn(d, g)
    BY <1>7, <2>1, <2>4 DEF CallsIn, PairsIn
  <2>8. CASE f \in new
    <3>1. f \notin Known(ours) /\ k.ncall = o.ncall
      BY <1>1, <2>1, <2>8
    <3>2. PICK r : r = [k EXCEPT !.children = d]
      OBVIOUS
    <3>3. r \in Func /\ r.index = k.index /\ r.ncall = k.ncall /\ r.children = d
      BY <2>4, <3>2 DEF Func
    <3>4. u.items[f] = r
      BY <1>0, <1>1, <1>7, <2>5, <2>6, <2>8, <3>2
    <3>5. CallsIn(ours, f) = 0 /\ \A g : PairsIn(ours, f, g) = 0
      BY <3>1 DEF CallsIn, PairsIn
    <3>6. r.ncall = CallsIn(ours, f) + CallsIn(T, f)
      BY <2>6, <2>7, <3>1, <3>3, <3>5
    <3>7. \A g : CallsIn(d, g) = PairsIn(ours, f, g) + PairsIn(T, f, g)
      BY <1>4, <2>4, <2>7, <3>5
    <3> QED BY <1>1, <2>4, <3>3, <3>4, <3>6, <3>7
  <2>9. CASE f \notin new
    <3>1. f \in Known(ours) /\ k = ours.items[f]
      BY <1>1, <1>7, <2>9
    <3>2. u.items[f] = Plus(k, w)
      <4> HIDE DEF other
      <4> QED BY <1>0, <1>1, <1>7, <2>5, <2>9
    <3>3. PICK m : m = ChildrenMerged(k.children, d)
      OBVIOUS
    <3>4. PICK n : n = k.ncall + o.ncall
      OBVIOUS
    <3>5. u.items[f] = [k EXCEPT !.ncall = n, !.children = m]
      BY <2>6, <3>2, <3>3, <3>4 DEF Plus
    <3>6. /\ m \in ChildTable
          /\ Known(m) = Known(k.children) \cup Known(d)
          /\ \A g \in Known(k.children) : m.items[g].index = k.children.items[g].index
          /\ \A g \in Known(d) \ Known(k.children) : m.items[g].index = d.items[g].index
          /\ \A g : CallsIn(m, g) = CallsIn(k.children, g) + CallsIn(d, g)
      BY <2>4, <3>3, ChildrenMergedIs DEF Func
    <3>7. n \in Nat
      BY <2>6, <3>4 DEF Func
    <3>8. PICK r : r = u.items[f]
      OBVIOUS
    <3>9. r \in Func /\ r.index = k.index /\ r.ncall = n /\ r.children = m
      BY <3>5, <3>6, <3>7, <3>8 DEF Func
    <3>10. \A g \in Known(m) : Finds(known, m.items[g].index, g)
      BY <1>5, <2>4, <3>1, <3>6
    <3>11. CallsIn(ours, f) = k.ncall /\ \A g : PairsIn(ours, f, g) = CallsIn(k.children, g)
      BY <3>1 DEF CallsIn, PairsIn
    <3>12. n = CallsIn(ours, f) + CallsIn(T, f)
      BY <2>7, <3>4, <3>11
    <3>13. \A g : CallsIn(m, g) = PairsIn(ours, f, g) + PairsIn(T, f, g)
      BY <2>7, <3>6, <3>11
    <3> QED BY <1>1, <3>8, <3>9, <3>10, <3>12, <3>13
  <2> QED BY <2>8, <2>9
<1> QED BY <1>6, <1>7

LEMMA AddedIs ==
    ASSUME NEW ours, ours = stats.table, Consistent(ours), NEW T, Consistent(T),
           NEW i, UpTo(ours, i),
           NEW order \in SetToSeqs(Known(T) \ Known(ours)),
           NEW u, u = Merged(Renumbered(T, order, i), T, ToSet(order))
    PROVE  /\ Consistent(u) /\ UpTo(u, i + Len(order))
           /\ Known(u) = Known(ours) \cup Known(T)
           /\ \A f : CallsIn(u, f) = CallsIn(ours, f) + CallsIn(T, f)
           /\ \A f, g : PairsIn(u, f, g) = PairsIn(ours, f, g) + PairsIn(T, f, g)
<1>1. PICK known : known = Renumbered(T, order, i)
  OBVIOUS
<1>2. PICK new : new = ToSet(order)
  OBVIOUS
<1>3. /\ known \in Table(Func) /\ Sound(known)
      /\ Known(known) = Known(ours) \cup Known(T)
      /\ new = Known(T) \ Known(ours)
      /\ UpTo(known, i + Len(order))
      /\ \A j \in DOMAIN ours.byIndex : Finds(known, j, ours.byIndex[j])
      /\ \A f \in Known(ours) : known.items[f] = ours.items[f]
      /\ \A f \in Known(T) \ Known(ours) :
           /\ known.items[f].ncall = T.items[f].ncall
           /\ known.items[f].children = T.items[f].children
  BY <1>1, <1>2, RenumberedIs
<1>4. u = Merged(known, T, new)
  BY <1>1, <1>2
<1>5. \A f \in Known(known) :
        /\ u.items[f] \in Func
        /\ u.items[f].index = known.items[f].index
        /\ \A g \in Known(u.items[f].children) :
             Finds(known, u.items[f].children.items[g].index, g)
        /\ u.items[f].ncall = CallsIn(ours, f) + CallsIn(T, f)
        /\ \A g : CallsIn(u.items[f].children, g) = PairsIn(ours, f, g) + PairsIn(T, f, g)
  BY <1>3, <1>4, MergedFunction
<1>6. /\ u = [items |-> u.items, byIndex |-> known.byIndex]
      /\ DOMAIN u.items = Known(known) /\ u.items = [f \in Known(known) |-> u.items[f]]
  <2>1. known = [items |-> known.items, byIndex |-> known.byIndex]
    BY <1>3, TableParts
  <2> QED BY <1>4, <2>1 DEF Merged
<1>7. Known(u) = Known(known) /\ u.byIndex = known.byIndex
  BY <1>6 DEF Known
<1>8. u \in Table(Func)
  <2>1. Known(known) \subseteq Fn /\ known.byIndex \in Map(Nat, Fn)
    BY <1>3, TableParts
  <2>2. u.items \in Map(Fn, Func)
    BY <1>5, <1>6, <2>1, MapMade
  <2> QED BY <1>6, <2>1, <2>2 DEF Table
<1>9. Sound(u)
  BY <1>3, <1>5, <1>7 DEF Sound, Finds
<1>10. \A f \in Known(u) : \A g \in Known(u.items[f].children) :
          Finds(u, u.items[f].children.items[g].index, g)
  BY <1>5, <1>7 DEF Finds
<1>11. UpTo(u, i + Len(order))
  BY <1>3, <1>7 DEF UpTo
<1>12. \A f : CallsIn(u, f) = CallsIn(ours, f) + CallsIn(T, f)
  <2> TAKE f
  <2>1. CASE f \in Known(u)
    BY <1>5, <1>7, <2>1 DEF CallsIn
  <2>2. CASE f \notin Known(u)
    BY <1>3, <1>7, <2>2 DEF CallsIn
  <2> QED BY <2>1, <2>2
<1>13. \A f, g : PairsIn(u, f, g) = PairsIn(ours, f, g) + PairsIn(T, f, g)
  <2> TAKE f, g
  <2>1. CASE f \in Known(u)
    BY <1>5, <1>7, <2>1 DEF PairsIn
  <2>2. CASE f \notin Known(u)
    BY <1>3, <1>7, <2>2 DEF PairsIn
  <2> QED BY <2>1, <2>2
<1>14. Known(u) = Known(ours) \cup Known(T)
  BY <1>3, <1>7
<1> QED BY <1>8, <1>9, <1>10, <1>11, <1>12, <1>13, <1>14 DEF Consistent

-----------------------------------------------------------------------------
(* The invariant. *)

\* The object and the files are consistent, and the object knows the greatest
\* index that it gave out.
StatInv ==
    /\ stats = [table |-> stats.table, clock |-> stats.clock, idxMax |-> stats.idxMax]
    /\ Consistent(stats.table)
    /\ UpTo(stats.table, stats.idxMax)
    /\ \A p \in DOMAIN files : Consistent(files[p].table)

LEMMA NoTableConsistent == Consistent(NoTable) /\ \A i \in Nat : UpTo(NoTable, i)
<1>1. NoTable \in Table(Func) /\ Known(NoTable) = {} /\ DOMAIN NoTable.byIndex = {}
  BY NoTableIs
<1> QED BY <1>1 DEF Consistent, Sound, UpTo

LEMMA IdxMaxIs ==
    ASSUME NEW records, Records(records), NEW kept, NEW i \in Nat
    PROVE  /\ IdxMax(records, kept, i) \in Nat
           /\ \A k \in DOMAIN records : records[k].index \in kept =>
                records[k].index <= IdxMax(records, kept, i)
<1> DEFINE S == {r.index : r \in Range(records)}
           f == [k \in DOMAIN records |-> records[k].index]
           M == {i} \cup (S \cap kept)
<1>1. IsFiniteSet(DOMAIN records) /\ \A k \in DOMAIN records : records[k] \in Record
  BY SeqPlaces DEF Records
<1>2. \A x \in S : \E k \in DOMAIN records : records[k].index = x
  BY DEF Range
<1>3. \A k \in DOMAIN records : records[k].index \in S
  BY DEF Range
<1>4. f \in Surjection(DOMAIN records, S)
  BY <1>2, <1>3 DEF Surjection
<1>5. IsFiniteSet(S)
  <2> HIDE DEF f, S
  <2> QED BY <1>1, <1>4, FS_Surjection
<1>6. S \subseteq Nat
  BY <1>1, <1>2 DEF Record
<1>7. IsFiniteSet(M) /\ M \in SUBSET Nat /\ M # {}
  <2> HIDE DEF S
  <2>1. IsFiniteSet(S \cap kept)
    BY <1>5, FS_Subset
  <2>2. IsFiniteSet((S \cap kept) \cup {i})
    BY <2>1, FS_AddElement
  <2>3. (S \cap kept) \cup {i} = M
    OBVIOUS
  <2> QED BY <1>6, <2>2, <2>3
<1>8. Max(M) \in M /\ \A x \in M : x <= Max(M)
  <2> HIDE DEF M
  <2> QED BY <1>7, MaxIs
<1>9. IdxMax(records, kept, i) = Max(M)
  BY DEF IdxMax
<1>10. \A k \in DOMAIN records : records[k].index \in kept => records[k].index \in M
  BY <1>3
<1> HIDE DEF M
<1> QED BY <1>7, <1>8, <1>9, <1>10

LEMMA SessionRecords ==
    ASSUME NEW s \in Session
    PROVE  Records(s.pits)
BY SessionAssumption DEF Records

LEMMA GetKeeps ==
    ASSUME StatInv, NEW s \in Session, NEW kept, Get(s, kept)
    PROVE  StatInv'
<1>1. PICK t : t = Enumerated(s.pits, kept)
  OBVIOUS
<1>2. PICK u : u = WithChildren(t)
  OBVIOUS
<1>3. PICK i : i = IdxMax(s.pits, kept, stats.idxMax)
  OBVIOUS
<1>4. stats' = [table |-> u, clock |-> s.clock, idxMax |-> i] /\ files' = files
  BY <1>1, <1>2, <1>3 DEF Get
<1>5. /\ t \in Table(Raw) /\ Sound(t)
      /\ \A j \in DOMAIN t.byIndex :
           j \in kept /\ \E k \in DOMAIN s.pits : s.pits[k].index = j
  BY <1>1, EnumeratedIs, SessionRecords DEF From
<1>6. Consistent(u) /\ u.byIndex = t.byIndex
  BY <1>2, <1>5, WithChildrenIs
<1>7. i \in Nat /\ \A k \in DOMAIN s.pits : s.pits[k].index \in kept => s.pits[k].index <= i
  <2>1. stats.idxMax \in Nat
    BY DEF StatInv, UpTo
  <2> QED BY <1>3, <2>1, IdxMaxIs, SessionRecords
<1>8. UpTo(u, i)
  BY <1>5, <1>6, <1>7 DEF UpTo
<1>9. /\ stats'.table = u /\ stats'.idxMax = i
      /\ stats' = [table |-> stats'.table, clock |-> stats'.clock, idxMax |-> stats'.idxMax]
  BY <1>4
<1> QED BY <1>4, <1>6, <1>8, <1>9 DEF StatInv

LEMMA AddKeeps ==
    ASSUME StatInv, NEW p \in DOMAIN files,
           NEW order \in SetToSeqs(Known(files[p].table) \ Known(stats.table)),
           Add(p, order)
    PROVE  StatInv'
<1>1. PICK ours : ours = stats.table
  OBVIOUS
<1>2. PICK T : T = files[p].table
  OBVIOUS
<1>3. PICK u : u = Merged(Renumbered(T, order, stats.idxMax), T, ToSet(order))
  OBVIOUS
<1>4. /\ stats' = [table |-> u, clock |-> files[p].clock, idxMax |-> stats.idxMax + Len(order)]
      /\ files' = files
  BY <1>2, <1>3 DEF Add
<1>5. Consistent(u) /\ UpTo(u, stats.idxMax + Len(order))
  <2>1. Consistent(ours) /\ Consistent(T) /\ UpTo(ours, stats.idxMax)
    BY <1>1, <1>2 DEF StatInv
  <2>2. order \in SetToSeqs(Known(T) \ Known(ours))
    BY <1>1, <1>2
  <2> QED BY <1>1, <1>3, <2>1, <2>2, AddedIs
<1>6. /\ stats'.table = u /\ stats'.idxMax = stats.idxMax + Len(order)
      /\ stats' = [table |-> stats'.table, clock |-> stats'.clock, idxMax |-> stats'.idxMax]
  BY <1>4
<1> QED BY <1>4, <1>5, <1>6 DEF StatInv

LEMMA StatNext == StatInv /\ [Next]_vars => StatInv'
<1> SUFFICES ASSUME StatInv, [Next]_vars PROVE StatInv'
  OBVIOUS
<1>1. ASSUME NEW s \in Session, NEW kept \in Filter, Get(s, kept)
      PROVE  StatInv'
  BY <1>1, GetKeeps
<1>2. ASSUME NEW p \in DOMAIN files,
             NEW order \in SetToSeqs(Known(files[p].table) \ Known(stats.table)),
             Add(p, order)
      PROVE  StatInv'
  BY <1>2, AddKeeps
<1>3. ASSUME NEW p \in File, Save(p) PROVE StatInv'
  <2>1. \A q \in DOMAIN files' : Consistent(files'[q].table)
    BY <1>3 DEF Save, StatInv
  <2> QED BY <1>3, <2>1 DEF Save, StatInv
<1>4. CASE New
  <2>1. stats' = [table |-> NoTable, clock |-> NoClock, idxMax |-> 0] /\ files' = files
    BY <1>4 DEF New, NewStats
  <2> QED BY <2>1, NoTableConsistent DEF StatInv
<1>5. CASE Clear
  <2>1. /\ stats' = [table |-> NoTable, clock |-> stats.clock, idxMax |-> stats.idxMax]
        /\ files' = files
    BY <1>5 DEF Clear, StatInv
  <2>2. stats.idxMax \in Nat
    BY DEF StatInv, UpTo
  <2> QED BY <2>1, <2>2, NoTableConsistent DEF StatInv
<1>6. CASE UNCHANGED vars
  BY <1>6 DEF vars, StatInv
<1> QED BY <1>1, <1>2, <1>3, <1>4, <1>5, <1>6 DEF Next

LEMMA StatInit == Init => StatInv
<1> SUFFICES ASSUME Init PROVE StatInv
  OBVIOUS
<1>1. stats = [table |-> NoTable, clock |-> NoClock, idxMax |-> 0] /\ files = <<>>
  BY DEF Init, NewStats
<1> QED BY <1>1, NoTableConsistent DEF StatInv

\* For any sessions, filters and files: the tables of the object, and of every
\* file, are consistent.
THEOREM TablesConsistent == Spec => []StatInv
BY StatInit, StatNext, PTL DEF Spec

\* An index of a function or of a callee means one function.
THEOREM IndexesNameOneFunction == Spec => []IndexNamesOneFunction
<1>1. StatInv => IndexNamesOneFunction
  <2> SUFFICES ASSUME StatInv PROVE IndexNamesOneFunction
    OBVIOUS
  <2>1. \A f \in DOMAIN Items : Finds(stats.table, Items[f].index, f)
    BY DEF StatInv, Consistent, Sound, Items, Known
  <2>2. \A f \in DOMAIN Items : \A g \in DOMAIN ChildrenOf(f) :
           Finds(stats.table, ChildrenOf(f)[g].index, g)
    BY DEF StatInv, Consistent, Items, ChildrenOf, Known
  <2> DEFINE named == {<<Items[f].index, f>> : f \in DOMAIN Items} \cup
                UNION {{<<ChildrenOf(f)[g].index, g>> : g \in DOMAIN ChildrenOf(f)} :
                         f \in DOMAIN Items}
  <2>3. \A x \in named : Finds(stats.table, x[1], x[2])
    BY <2>1, <2>2
  <2>4. \A x, y \in named : x[1] = y[1] => x[2] = y[2]
    <3> HIDE DEF named
    <3> QED BY <2>3 DEF Finds
  <2> QED BY <2>4 DEF IndexNamesOneFunction
<1> QED BY <1>1, TablesConsistent, PTL

\* The index of a function, or of a callee, finds it in the object.
THEOREM FunctionsFoundByIndex == Spec => []FoundByIndex
<1>1. StatInv => FoundByIndex
  BY DEF StatInv, Consistent, Sound, Items, ChildrenOf, Known, Finds, FoundByIndex
<1> QED BY <1>1, TablesConsistent, PTL

\* Every callee is a function of the object, and has its callers.
THEOREM CalleesHaveTheirCallers == Spec => []EveryCalleeHasItsCaller
<1>1. StatInv => EveryCalleeHasItsCaller
  <2> SUFFICES ASSUME StatInv, NEW f \in DOMAIN Items, NEW g \in DOMAIN ChildrenOf(f)
               PROVE  /\ g \in DOMAIN Items
                      /\ f \in DOMAIN Callers(g) /\ Callers(g)[f] = ChildrenOf(f)[g].ncall
    BY DEF EveryCalleeHasItsCaller
  <2>1. g \in DOMAIN Items
    <3>1. Consistent(stats.table) /\ f \in Known(stats.table)
      BY DEF StatInv, Items, Known
    <3>2. g \in Known(stats.table.items[f].children)
      BY DEF Items, ChildrenOf, Known
    <3>3. PICK i : Finds(stats.table, i, g)
      BY <3>1, <3>2 DEF Consistent
    <3>4. g \in Known(stats.table)
      BY <3>1, <3>3 DEF Consistent, Sound, Finds
    <3> QED BY <3>4 DEF Items, Known
  <2>2. f \in DOMAIN Callers(g) /\ Callers(g)[f] = ChildrenOf(f)[g].ncall
    BY DEF Callers
  <2> QED BY <2>1, <2>2
<1> QED BY <1>1, TablesConsistent, PTL

-----------------------------------------------------------------------------
(* Counts: what an object has is what the records had. *)

Beyond(n, T) == {n + j : j \in T}

\* f, g and h are the same numbers, those of g being n places on in h.
Same(n, A, B, f, g, h) ==
    /\ \A i \in A : f[i] \in Int /\ h[i] = f[i]
    /\ \A j \in B : g[j] \in Int /\ h[n + j] = g[j]
JoinSums(n, A, T, f, g, h) ==
    /\ IsFiniteSet(A \cup Beyond(n, T))
    /\ SumFunctionOnSet(h, A \cup Beyond(n, T)) =
         SumFunctionOnSet(f, A) + SumFunctionOnSet(g, T)

LEMMA JoinOne ==
    ASSUME NEW n \in Nat, NEW A \in SUBSET (1..n),
           NEW B \in SUBSET (Nat \ {0}), IsFiniteSet(B),
           NEW f, NEW g, NEW h, Same(n, A, B, f, g, h),
           SumFunctionOnSet(f, A) \in Int,
           NEW R \in SUBSET B, NEW p \in B, p \notin R, JoinSums(n, A, R, f, g, h)
    PROVE  JoinSums(n, A, R \cup {p}, f, g, h)
<1>1. PICK U : U = A \cup Beyond(n, R)
  OBVIOUS
<1>2. n + p \in Nat /\ p \in Nat /\ p # 0
  OBVIOUS
<1>3. PICK q \in Nat : q = n + p
  BY <1>2
<1>4. Beyond(n, R \cup {p}) = Beyond(n, R) \cup {q}
  BY <1>3 DEF Beyond
<1>5. A \cup Beyond(n, R \cup {p}) = U \cup {q}
  BY <1>1, <1>4
<1>6. q \notin U
  <2>1. q \notin A
    BY <1>2, <1>3
  <2>2. \A j \in R : n + j # n + p
    BY <1>2
  <2>3. q \notin Beyond(n, R)
    BY <1>3, <2>2 DEF Beyond
  <2> QED BY <1>1, <2>1, <2>3
<1>7. \A x \in U : h[x] \in Int
  <2>1. \A x \in A : h[x] \in Int
    BY DEF Same
  <2>2. \A x \in Beyond(n, R) : h[x] \in Int
    BY DEF Beyond, Same
  <2> QED BY <1>1, <2>1, <2>2
<1>8. h[q] = g[p] /\ g[p] \in Int
  BY <1>3 DEF Same
<1>9. IsFiniteSet(U)
  BY <1>1 DEF JoinSums
<1>10. SumFunctionOnSet(h, U \cup {q}) = h[q] + SumFunctionOnSet(h, U)
  BY <1>6, <1>7, <1>8, <1>9, SumAdd
<1>11. IsFiniteSet(R) /\ \A j \in R : g[j] \in Int
  BY FS_Subset DEF Same
<1>12. SumFunctionOnSet(g, R \cup {p}) = g[p] + SumFunctionOnSet(g, R)
  BY <1>8, <1>11, SumAdd
<1>13. PICK sr \in Int : sr = SumFunctionOnSet(g, R)
  BY <1>11, SumInt
<1>14. PICK sf \in Int : sf = SumFunctionOnSet(f, A)
  OBVIOUS
<1>15. SumFunctionOnSet(h, U) = sf + sr
  BY <1>1, <1>13, <1>14 DEF JoinSums
<1>16. PICK x \in Int : x = g[p]
  BY <1>8
<1>17. SumFunctionOnSet(h, U \cup {q}) = x + (sf + sr)
  BY <1>8, <1>10, <1>15, <1>16
<1>18. SumFunctionOnSet(g, R \cup {p}) = x + sr
  BY <1>12, <1>13, <1>16
<1>19. SumFunctionOnSet(h, U \cup {q}) = sf + SumFunctionOnSet(g, R \cup {p})
  BY <1>17, <1>18
<1>20. IsFiniteSet(U \cup {q})
  BY <1>9, FS_AddElement
<1> QED BY <1>5, <1>14, <1>19, <1>20 DEF JoinSums

\* Two sums over places that follow one another, the second n places on.
LEMMA SumJoin ==
    ASSUME NEW n \in Nat, NEW A \in SUBSET (1..n),
           NEW B \in SUBSET (Nat \ {0}), IsFiniteSet(B),
           NEW f, NEW g, NEW h, Same(n, A, B, f, g, h)
    PROVE  JoinSums(n, A, B, f, g, h)
<1> DEFINE Good == {T \in SUBSET B : JoinSums(n, A, T, f, g, h)}
           pick == [s \in SUBSET B |-> CHOOSE x \in s : TRUE]
<1>1. Picks(pick, B)
  BY DEF Picks
<1>2. IsFiniteSet(A)
  <2>1. IsFiniteSet(1..n)
    BY FS_Interval
  <2> QED BY <2>1, FS_Subset
<1>3. SumFunctionOnSet(f, A) \in Int
  BY <1>2, SumInt DEF Same
<1>4. SumFunctionOnSet(h, A) = SumFunctionOnSet(f, A)
  BY <1>2, SumSame DEF Same
<1>5. {} \in Good
  <2>1. Beyond(n, {}) = {}
    BY DEF Beyond
  <2>2. A \cup Beyond(n, {}) = A
    BY <2>1
  <2>3. SumFunctionOnSet(g, {}) = 0
    BY SumOfNone
  <2>4. JoinSums(n, A, {}, f, g, h)
    BY <1>2, <1>3, <1>4, <2>2, <2>3 DEF JoinSums
  <2> QED BY <2>4
<1> HIDE DEF pick
<1>6. \A T \in SUBSET B : T # {} /\ T \ {pick[T]} \in Good => T \in Good
  <2> SUFFICES ASSUME NEW T \in SUBSET B, T # {}, T \ {pick[T]} \in Good
               PROVE  T \in Good
    OBVIOUS
  <2>1. PICK p : p = pick[T]
    OBVIOUS
  <2>2. p \in T
    BY <1>1, <2>1 DEF Picks
  <2>3. PICK R : R = T \ {p}
    OBVIOUS
  <2>4. T = R \cup {p} /\ p \notin R /\ R \in SUBSET B /\ p \in B
    BY <2>2, <2>3
  <2>5. JoinSums(n, A, R, f, g, h)
    BY <2>1, <2>3
  <2>6. JoinSums(n, A, R \cup {p}, f, g, h)
    BY <1>3, <2>4, <2>5, JoinOne
  <2> QED BY <2>4, <2>6
<1>7. \A T \in SUBSET B : T \in Good
  <2> HIDE DEF Good
  <2> QED BY <1>1, <1>5, <1>6, SubsetInduction
<1>8. B \in Good
  <2> HIDE DEF Good
  <2> QED BY <1>7
<1> QED BY <1>8

\* The calls of the callees with indexes in Q.
CallCounts(kids) == [j \in DOMAIN kids |-> kids[j].ncall]
Callees(kids, Q) == {j \in DOMAIN kids : kids[j].index \in Q}
CallsTo(kids, Q) == SumFunctionOnSet(CallCounts(kids), Callees(kids, Q))

\* Children that are appended to others.
LEMMA CallsToJoined ==
    ASSUME NEW a \in Seq(Kid), NEW b \in Seq(Kid), NEW Q
    PROVE  CallsTo(a \o b, Q) = CallsTo(a, Q) + CallsTo(b, Q)
<1>1. PICK n \in Nat : n = Len(a) /\ DOMAIN a = 1..n
  OBVIOUS
<1>2. PICK m \in Nat : m = Len(b) /\ DOMAIN b = 1..m
  OBVIOUS
<1>3. PICK c : c = a \o b
  OBVIOUS
<1>4. /\ DOMAIN c = 1..(n + m)
      /\ \A i \in 1..n : c[i] = a[i]
      /\ \A j \in 1..m : c[n + j] = b[j]
  <2>1. c \in Seq(Kid) /\ Len(c) = n + m
    BY <1>1, <1>2, <1>3
  <2>2. DOMAIN c = 1..(n + m)
    BY <2>1
  <2>3. \A i \in 1..n : c[i] = a[i]
    BY <1>1, <1>2, <1>3
  <2>4. \A j \in 1..m : c[n + j] = b[j]
    <3> TAKE j \in 1..m
    <3>1. n + j \in 1..(n + m) /\ n + j > n /\ (n + j) - n = j
      OBVIOUS
    <3>2. \A i \in 1..(Len(a) + Len(b)) : (a \o b)[i] = IF i <= Len(a) THEN a[i] ELSE b[i - Len(a)]
      OBVIOUS
    <3>3. c[n + j] = IF n + j <= n THEN a[n + j] ELSE b[(n + j) - n]
      BY <1>1, <1>2, <1>3, <3>1, <3>2
    <3> QED BY <3>1, <3>3
  <2> QED BY <2>2, <2>3, <2>4
<1>5. (\A i \in 1..n : a[i] \in Kid) /\ (\A j \in 1..m : b[j] \in Kid)
  BY <1>1, <1>2
<1> DEFINE A == Callees(a, Q)
           B == Callees(b, Q)
<1>6. A \in SUBSET (1..n) /\ B \in SUBSET (Nat \ {0}) /\ B \subseteq 1..m
  BY <1>1, <1>2 DEF Callees
<1>7. IsFiniteSet(B)
  <2>1. IsFiniteSet(1..m)
    BY FS_Interval
  <2> QED BY <1>6, <2>1, FS_Subset
<1>8. \A i \in A : CallCounts(a)[i] \in Int /\ CallCounts(c)[i] = CallCounts(a)[i]
  <2> TAKE i \in A
  <2>1. i \in 1..n /\ i \in 1..(n + m)
    BY <1>6
  <2> QED BY <1>1, <1>4, <1>5, <2>1 DEF CallCounts, Kid
<1>9. \A j \in B : CallCounts(b)[j] \in Int /\ CallCounts(c)[n + j] = CallCounts(b)[j]
  <2> TAKE j \in B
  <2>1. j \in 1..m /\ n + j \in 1..(n + m)
    BY <1>6
  <2> QED BY <1>2, <1>4, <1>5, <2>1 DEF CallCounts, Kid
<1>10. Callees(c, Q) = A \cup {n + j : j \in B}
  <2>1. \A x \in 1..(n + m) : x \in 1..n \/ \E j \in 1..m : x = n + j
    <3> TAKE x \in 1..(n + m)
    <3>1. CASE x <= n
      BY <3>1
    <3>2. CASE x > n
      <4>1. PICK j \in Int : j = x - n
        OBVIOUS
      <4>2. j \in 1..m /\ x = n + j
        BY <3>2, <4>1
      <4> QED BY <4>2
    <3> QED BY <3>1, <3>2
  <2>2. \A x \in Callees(c, Q) : x \in A \cup {n + j : j \in B}
    <3> TAKE x \in Callees(c, Q)
    <3>1. x \in 1..(n + m) /\ c[x].index \in Q
      BY <1>4 DEF Callees
    <3>2. CASE x \in 1..n
      BY <1>1, <1>4, <3>1, <3>2 DEF Callees
    <3>3. CASE \E j \in 1..m : x = n + j
      <4>1. PICK j \in 1..m : x = n + j
        BY <3>3
      <4>2. b[j].index \in Q
        BY <1>4, <3>1, <4>1
      <4>3. j \in B
        BY <1>2, <4>1, <4>2 DEF Callees
      <4> QED BY <4>1, <4>3
    <3> QED BY <2>1, <3>1, <3>2, <3>3
  <2>3. \A x \in A : x \in Callees(c, Q)
    <3> TAKE x \in A
    <3>1. x \in 1..n /\ x \in 1..(n + m)
      BY <1>6
    <3> QED BY <1>4, <3>1 DEF Callees
  <2>4. \A j \in B : n + j \in Callees(c, Q)
    <3> TAKE j \in B
    <3>1. j \in 1..m /\ n + j \in 1..(n + m)
      BY <1>6
    <3> QED BY <1>4, <3>1 DEF Callees
  <2> QED BY <2>2, <2>3, <2>4
<1>11. PICK f, g, h : f = CallCounts(a) /\ g = CallCounts(b) /\ h = CallCounts(c)
  OBVIOUS
<1>12. PICK S, T : S = A /\ T = B
  OBVIOUS
<1>13. Same(n, S, T, f, g, h)
  BY <1>8, <1>9, <1>11, <1>12 DEF Same
<1>14. JoinSums(n, S, T, f, g, h)
  <2> HIDE DEF A, B
  <2> QED BY <1>6, <1>7, <1>12, <1>13, SumJoin
<1>15. Callees(c, Q) = S \cup Beyond(n, T)
  BY <1>10, <1>12 DEF Beyond
<1> QED BY <1>3, <1>11, <1>12, <1>14, <1>15 DEF CallsTo, JoinSums

LEMMA CallsToInt ==
    ASSUME NEW a \in Seq(Kid), NEW Q
    PROVE  CallsTo(a, Q) \in Int
<1>1. PICK A : A = Callees(a, Q)
  OBVIOUS
<1>2. A \in SUBSET DOMAIN a
  BY <1>1 DEF Callees
<1>3. IsFiniteSet(A) /\ \A j \in A : a[j] \in Kid
  BY <1>2, SeqPlaces
<1>4. \A j \in A : CallCounts(a)[j] \in Int
  BY <1>2, <1>3 DEF CallCounts, Kid
<1>5. SumFunctionOnSet(CallCounts(a), A) \in Int
  BY <1>3, <1>4, SumInt
<1> QED BY <1>1, <1>5 DEF CallsTo

\* The same of records that are appended under the names of their functions.
KidCounts(E, Q) == [k \in DOMAIN E |-> CallsTo(E[k].item.children, Q)]
KidsFrom(u, E, s, Q) ==
    \A f \in Known(u) :
      CallsTo(u.items[f].children, Q) = SumFunctionOnSet(KidCounts(E, Q), Of(E, s, f))

LEMMA KidsFromOneMore ==
    ASSUME NEW E, Suits(NoTable, E, Raw), NEW Q,
           NEW s \in SUBSET DOMAIN E, NEW k \in DOMAIN E, k \notin s,
           NEW u \in From(NoTable, E, s, Raw), KidsFrom(u, E, s, Q),
           NEW w, w = Appended(u, E[k].fn, E[k].item)
    PROVE  KidsFrom(w, E, s \cup {k}, Q)
<1> DEFINE s1 == s \cup {k}
<1>1. PICK f \in Fn : f = E[k].fn
  BY DEF Suits
<1>2. PICK e \in Raw : e = E[k].item
  BY DEF Suits
<1>3. u \in Table(Raw) /\ ItemsFrom(u, NoTable, E, s) /\ e.index \in Nat
  BY DEF From, Raw
<1>4. /\ Of(E, s1, f) = Of(E, s, f) \cup {k} /\ k \notin Of(E, s, f)
      /\ \A g : g # f => Of(E, s1, g) = Of(E, s, g)
  BY <1>1 DEF Of
<1>5. \A a \in Raw : Addable(a, e, Raw)
  BY RawAdd
<1>6. /\ Known(w) = Known(u) \cup {f}
      /\ \A g \in Known(u) : g # f => w.items[g] = u.items[g]
      /\ f \notin Known(u) => w.items[f] = e
      /\ f \in Known(u) => w.items[f] = Increased(u.items[f], e)
  BY <1>1, <1>2, <1>3, <1>5, AppendedOne
<1>7. PICK c, O : c = KidCounts(E, Q) /\ O = Of(E, s, f)
  OBVIOUS
<1>8. \A j \in DOMAIN E : c[j] \in Int
  <2> TAKE j \in DOMAIN E
  <2>1. PICK r \in Raw : r = E[j].item
    BY DEF Suits
  <2>2. r.children \in Seq(Kid)
    BY DEF Raw
  <2>3. CallsTo(r.children, Q) \in Int
    BY <2>2, CallsToInt
  <2> QED BY <1>7, <2>1, <2>3 DEF KidCounts
<1>9. IsFiniteSet(O) /\ O \subseteq DOMAIN E
  <2>1. O \subseteq DOMAIN E
    BY <1>7 DEF Of
  <2> QED BY <2>1, FS_Subset DEF Suits
<1>10. SumFunctionOnSet(c, O \cup {k}) = c[k] + SumFunctionOnSet(c, O)
  <2>1. k \notin O /\ c[k] \in Int /\ \A j \in O : c[j] \in Int
    BY <1>4, <1>7, <1>8, <1>9
  <2> QED BY <1>9, <2>1, SumAdd
<1>11. PICK x \in Int : x = c[k]
  BY <1>8
<1>12. PICK y \in Int : y = SumFunctionOnSet(c, O)
  BY <1>8, <1>9, SumInt
<1>13. x = CallsTo(e.children, Q)
  BY <1>2, <1>7, <1>11 DEF KidCounts
<1>14. CallsTo(w.items[f].children, Q) = x + y
  <2>1. CASE f \in Known(u)
    <3>1. PICK a \in Raw : a = u.items[f]
      BY <1>3, <2>1, TableParts
    <3>2. w.items[f].children = a.children \o e.children
      BY <1>6, <2>1, <3>1, RawAdd
    <3>3. PICK p, q \in Seq(Kid) : p = a.children /\ q = e.children
      BY DEF Raw
    <3>4. CallsTo(p \o q, Q) = CallsTo(p, Q) + CallsTo(q, Q)
      BY CallsToJoined
    <3>5. CallsTo(p, Q) = y
      BY <1>7, <1>12, <2>1, <3>1, <3>3 DEF KidsFrom
    <3>6. CallsTo(p \o q, Q) = y + x
      BY <1>13, <3>3, <3>4, <3>5
    <3> QED BY <3>2, <3>3, <3>6
  <2>2. CASE f \notin Known(u)
    <3>1. O = {}
      BY <1>3, <1>7, <2>2 DEF ItemsFrom, Names, Of
    <3>2. y = 0
      BY <1>12, <3>1, SumOfNone
    <3> QED BY <1>6, <1>13, <2>2, <3>2
  <2> QED BY <2>1, <2>2
<1>15. SumFunctionOnSet(c, Of(E, s1, f)) = x + y
  BY <1>4, <1>7, <1>10, <1>11, <1>12
<1>16. \A g \in Known(w) :
          CallsTo(w.items[g].children, Q) = SumFunctionOnSet(KidCounts(E, Q), Of(E, s1, g))
  <2> TAKE g \in Known(w)
  <2>1. CASE g = f
    BY <1>7, <1>14, <1>15, <2>1
  <2>2. CASE g # f
    <3>1. g \in Known(u) /\ w.items[g] = u.items[g]
      BY <1>6, <2>2
    <3> QED BY <1>4, <2>2, <3>1 DEF KidsFrom
  <2> QED BY <2>1, <2>2
<1> QED BY <1>16 DEF KidsFrom

LEMMA KidsFromAll ==
    ASSUME NEW E, Suits(NoTable, E, Raw), NEW Q
    PROVE  KidsFrom(AppendedAll(NoTable, E), E, DOMAIN E, Q)
<1> DEFINE V == [s \in SUBSET DOMAIN E |->
                   {u \in From(NoTable, E, s, Raw) : KidsFrom(u, E, s, Q)}]
<1>1. \A s \in SUBSET DOMAIN E, k \in DOMAIN E : k \notin s =>
         \A u \in V[s] : Appended(u, E[k].fn, E[k].item) \in V[s \cup {k}]
  <2> TAKE s \in SUBSET DOMAIN E, k \in DOMAIN E
  <2> HAVE k \notin s
  <2> TAKE u \in V[s]
  <2>1. PICK w : w = Appended(u, E[k].fn, E[k].item)
    OBVIOUS
  <2>2. w \in From(NoTable, E, s \cup {k}, Raw)
    BY <2>1, FromOneMore
  <2>3. KidsFrom(w, E, s \cup {k}, Q)
    BY <2>1, KidsFromOneMore
  <2> QED BY <2>1, <2>2, <2>3
<1>2. NoTable \in V[{}]
  <2>1. NoTable \in From(NoTable, E, {}, Raw)
    BY FromNothing
  <2>2. KidsFrom(NoTable, E, {}, Q)
    BY NoTableIs DEF KidsFrom
  <2> QED BY <2>1, <2>2
<1>3. Steps(E, NoTable, V)
  <2> HIDE DEF V
  <2> QED BY <1>1, <1>2 DEF Steps, Suits
<1>4. AppendedAll(NoTable, E) \in V[DOMAIN E]
  BY <1>3, AppendedAllIn
<1> QED BY <1>4

\* What a table made of entries has is the sum over them.
LEMMA CallsOfEntries ==
    ASSUME NEW E, NEW I, Suits(NoTable, E, I), NEW D \in SUBSET DOMAIN E,
           NEW t \in From(NoTable, E, D, I), NEW f
    PROVE  CallsIn(t, f) = SumFunctionOnSet(Counts(E), Of(E, D, f))
<1>1. ItemsFrom(t, NoTable, E, D) /\ t \in Table(I)
  BY DEF From
<1>2. Known(NoTable) = {} /\ CallsIn(NoTable, f) = 0
  BY NoTableIs
<1>3. Known(t) = Names(E, D)
  BY <1>1, <1>2 DEF ItemsFrom
<1>4. CASE f \in Known(t)
  <2>1. t.items[f].ncall = CallsIn(NoTable, f) + SumFunctionOnSet(Counts(E), Of(E, D, f))
    BY <1>1, <1>4 DEF ItemsFrom
  <2>2. Of(E, D, f) \in SUBSET DOMAIN E
    BY DEF Of
  <2>3. IsFiniteSet(Of(E, D, f)) /\ \A k \in Of(E, D, f) : Counts(E)[k] \in Int
    BY <2>2, FS_Subset DEF Suits, Counts
  <2>4. PICK x \in Int : x = SumFunctionOnSet(Counts(E), Of(E, D, f))
    BY <2>3, SumInt
  <2> QED BY <1>2, <1>4, <2>1, <2>4 DEF CallsIn
<1>5. CASE f \notin Known(t)
  <2>1. Of(E, D, f) = {}
    BY <1>3, <1>5 DEF Of, Names
  <2> QED BY <1>5, <2>1, SumOfNone DEF CallsIn
<1> QED BY <1>4, <1>5

\* The sums of StatTotals are these.
LEMMA PromisedSum ==
    ASSUME NEW fun, NEW S
    PROVE  Promised!SumFunctionOnSet(fun, S) = SumFunctionOnSet(fun, S)
BY DEF SumFunctionOnSet, FoldFunctionOnSet, MapThenFoldSet,
       Promised!SumFunctionOnSet, Promised!FoldFunctionOnSet, Promised!MapThenFoldSet

-----------------------------------------------------------------------------
(* What is read from a session is what its records say. *)

Found(t, g) == {i \in DOMAIN t.byIndex : t.byIndex[i] = g}

\* The callees of a function that are found to be g.
LEMMA ConvertedCalls ==
    ASSUME NEW t \in Table(Raw), NEW kids \in Seq(Kid), NEW g
    PROVE  CallsIn(Converted(t, kids), g) = CallsTo(kids, Found(t, g))
<1>1. PICK E, D : E = KidEntries(t, kids) /\ D = Valid(t, kids)
  OBVIOUS
<1>2. PICK c : c = Converted(t, kids)
  OBVIOUS
<1>3. Suits(NoTable, E, Kid) /\ c \in From(NoTable, E, D, Kid)
  BY <1>1, <1>2, KidEntriesSuit, ConvertedIs
<1>4. D = DOMAIN E /\ D \in SUBSET DOMAIN kids
  BY <1>1 DEF KidEntries, Valid
<1>5. CallsIn(c, g) = SumFunctionOnSet(Counts(E), Of(E, D, g))
  BY <1>3, <1>4, CallsOfEntries
<1>6. \A j \in D : E[j].fn = t.byIndex[kids[j].index] /\ E[j].item = kids[j]
  BY <1>1 DEF KidEntries, Entry
<1>7. Of(E, D, g) = Callees(kids, Found(t, g))
  <2>1. \A j \in DOMAIN kids : j \in D <=> kids[j].index \in DOMAIN t.byIndex
    BY <1>1 DEF Valid
  <2> QED BY <1>4, <1>6, <2>1 DEF Of, Callees, Found
<1>8. PICK O : O = Of(E, D, g)
  OBVIOUS
<1>9. IsFiniteSet(O) /\ O \in SUBSET D
  <2>1. O \in SUBSET D
    BY <1>8 DEF Of
  <2> QED BY <1>3, <1>4, <2>1, FS_Subset DEF Suits
<1>10. \A j \in O : Counts(E)[j] = CallCounts(kids)[j] /\ Counts(E)[j] \in Int
  <2> TAKE j \in O
  <2>1. Counts(E)[j] = kids[j].ncall /\ CallCounts(kids)[j] = kids[j].ncall
    BY <1>4, <1>6, <1>9 DEF Counts, CallCounts
  <2>2. kids[j] \in Kid
    BY <1>4, <1>9, SeqPlaces
  <2> QED BY <2>1, <2>2 DEF Kid
<1>11. SumFunctionOnSet(Counts(E), O) = SumFunctionOnSet(CallCounts(kids), O)
  BY <1>9, <1>10, SumSame
<1> QED BY <1>2, <1>5, <1>7, <1>8, <1>11 DEF CallsTo

\* Of a table that records made: an index of a record that passed finds its function.
LEMMA FoundInRecords ==
    ASSUME NEW records, Records(records), NEW kept,
           NEW t, t = Enumerated(records, kept), NEW g
    PROVE  Found(t, g) =
             {records[k].index : k \in {j \in DOMAIN records :
                                          records[j].index \in kept /\ records[j].fn = g}}
<1>1. PICK E, D : E = RecordEntries(records, kept) /\ D = Passed(records, kept)
  OBVIOUS
<1>2. DOMAIN E = D /\ D \in SUBSET DOMAIN records
  BY <1>1 DEF RecordEntries, Passed
<1>3. \A k \in D : E[k].fn = records[k].fn /\ E[k].item.index = records[k].index
  BY <1>1 DEF RecordEntries, Entry
<1>4. IndexesFrom(t, NoTable, E, D)
  BY <1>1, EnumeratedIs DEF From
<1>5. /\ DOMAIN t.byIndex = Indexes(E, D)
      /\ \A i \in Indexes(E, D) : \E k \in D : E[k].item.index = i /\ t.byIndex[i] = E[k].fn
  <2>1. DOMAIN NoTable.byIndex = {}
    BY NoTableIs
  <2> QED BY <1>4, <2>1 DEF IndexesFrom
<1>6. \A k \in D : Finds(t, records[k].index, records[k].fn)
  <2> TAKE k \in D
  <2>1. records[k].index \in Indexes(E, D)
    BY <1>3 DEF Indexes
  <2>2. PICK j \in D : E[j].item.index = records[k].index /\ t.byIndex[records[k].index] = E[j].fn
    BY <1>5, <2>1
  <2>3. j = k
    BY <1>2, <1>3, <2>2 DEF Records
  <2> QED BY <1>3, <1>5, <2>1, <2>2, <2>3 DEF Finds
<1>7. PICK P : P = {j \in DOMAIN records : records[j].index \in kept /\ records[j].fn = g}
  OBVIOUS
<1>8. \A k : k \in P <=> k \in D /\ records[k].fn = g
  BY <1>1, <1>7 DEF Passed
<1>9. \A i \in Found(t, g) : \E k \in P : i = records[k].index
  <2> TAKE i \in Found(t, g)
  <2>1. i \in Indexes(E, D) /\ t.byIndex[i] = g
    BY <1>5 DEF Found
  <2>2. PICK k \in D : E[k].item.index = i /\ t.byIndex[i] = E[k].fn
    BY <1>5, <2>1
  <2> QED BY <1>3, <1>8, <2>1, <2>2
<1>10. \A k \in P : records[k].index \in Found(t, g)
  BY <1>6, <1>8 DEF Finds, Found
<1> QED BY <1>7, <1>9, <1>10

LEMMA ReadCalls ==
    ASSUME NEW s \in Session, NEW kept, NEW u,
           u = WithChildren(Enumerated(s.pits, kept)), NEW f
    PROVE  CallsIn(u, f) = Promised!CallsCounted(s, kept, f)
<1>1. PICK records : records = s.pits /\ Records(records)
  BY SessionRecords
<1>2. PICK E, D : E = RecordEntries(records, kept) /\ D = Passed(records, kept)
  OBVIOUS
<1>3. PICK t : t = Enumerated(records, kept)
  OBVIOUS
<1>4. Suits(NoTable, E, Raw) /\ t \in From(NoTable, E, D, Raw) /\ Sound(t)
  BY <1>1, <1>2, <1>3, RecordEntriesSuit, EnumeratedIs
<1>5. D = DOMAIN E /\ D \in SUBSET DOMAIN records
  BY <1>2 DEF RecordEntries, Passed
<1>6. CallsIn(u, f) = CallsIn(t, f)
  <2>1. t \in Table(Raw)
    BY <1>4 DEF From
  <2>2. Known(u) = Known(t) /\ \A h \in Known(t) : u.items[h].ncall = t.items[h].ncall
    BY <1>1, <1>3, <1>4, <2>1, WithChildrenIs
  <2> QED BY <2>2 DEF CallsIn
<1>7. CallsIn(t, f) = SumFunctionOnSet(Counts(E), Of(E, D, f))
  BY <1>4, <1>5, CallsOfEntries
<1>8. \A k \in D : E[k].fn = records[k].fn /\ E[k].item.ncall = records[k].ncall
  BY <1>2 DEF RecordEntries, Entry
<1>9. PICK O : O = Promised!Places(s, kept, f)
  OBVIOUS
<1>10. Of(E, D, f) = O
  BY <1>1, <1>2, <1>5, <1>8, <1>9 DEF Of, Passed, Promised!Places
<1>11. PICK c : c = [k \in DOMAIN s.pits |-> s.pits[k].ncall]
  OBVIOUS
<1>12. O \in SUBSET D
  BY <1>10 DEF Of
<1>13. IsFiniteSet(O)
  BY <1>4, <1>5, <1>12, FS_Subset DEF Suits
<1>14. \A k \in O : Counts(E)[k] = c[k] /\ Counts(E)[k] \in Int
  BY <1>1, <1>4, <1>5, <1>8, <1>11, <1>12 DEF Counts, Suits
<1>15. SumFunctionOnSet(Counts(E), O) = SumFunctionOnSet(c, O)
  BY <1>13, <1>14, SumSame
<1>16. Promised!CallsCounted(s, kept, f) = SumFunctionOnSet(c, O)
  <2>1. Promised!CallsCounted(s, kept, f) = Promised!SumFunctionOnSet(c, O)
    BY <1>9, <1>11 DEF Promised!CallsCounted
  <2> QED BY <2>1, PromisedSum
<1> QED BY <1>6, <1>7, <1>10, <1>15, <1>16

LEMMA ReadPairs ==
    ASSUME NEW s \in Session, NEW kept, NEW u,
           u = WithChildren(Enumerated(s.pits, kept)), NEW f, NEW g
    PROVE  PairsIn(u, f, g) = Promised!PairsCounted(s, kept, f, g)
<1>1. PICK records : records = s.pits /\ Records(records)
  BY SessionRecords
<1>2. PICK E, D : E = RecordEntries(records, kept) /\ D = Passed(records, kept)
  OBVIOUS
<1>3. PICK t : t = Enumerated(records, kept)
  OBVIOUS
<1>4. /\ Suits(NoTable, E, Raw) /\ t \in From(NoTable, E, D, Raw) /\ Sound(t)
      /\ t \in Table(Raw)
  BY <1>1, <1>2, <1>3, RecordEntriesSuit, EnumeratedIs DEF From
<1>5. D = DOMAIN E /\ D \in SUBSET DOMAIN records
  BY <1>2 DEF RecordEntries, Passed
<1>6. PICK Q : Q = Found(t, g)
  OBVIOUS
<1>7. PairsIn(u, f, g) = SumFunctionOnSet(KidCounts(E, Q), Of(E, D, f))
  <2>1. /\ Known(u) = Known(t)
        /\ \A h \in Known(t) : u.items[h].children = Converted(t, t.items[h].children)
    BY <1>1, <1>3, <1>4, WithChildrenIs
  <2>2. CASE f \in Known(t)
    <3>1. PICK r \in Raw : r = t.items[f]
      BY <1>4, <2>2, TableParts
    <3>2. r.children \in Seq(Kid)
      BY DEF Raw
    <3>3. PairsIn(u, f, g) = CallsIn(Converted(t, r.children), g)
      BY <2>1, <2>2, <3>1 DEF PairsIn
    <3>4. CallsIn(Converted(t, r.children), g) = CallsTo(r.children, Q)
      BY <1>4, <1>6, <3>2, ConvertedCalls
    <3>5. t = AppendedAll(NoTable, E)
      BY <1>2, <1>3 DEF Enumerated, RecordEntries, Passed
    <3>6. KidsFrom(t, E, D, Q)
      BY <1>4, <1>5, <3>5, KidsFromAll
    <3>7. CallsTo(r.children, Q) = SumFunctionOnSet(KidCounts(E, Q), Of(E, D, f))
      BY <2>2, <3>1, <3>6 DEF KidsFrom
    <3> QED BY <3>3, <3>4, <3>7
  <2>3. CASE f \notin Known(t)
    <3>1. Known(t) = Names(E, D)
      BY <1>4, NoTableIs DEF From, ItemsFrom
    <3>2. Of(E, D, f) = {}
      BY <2>3, <3>1 DEF Of, Names
    <3> QED BY <2>1, <2>3, <3>2, SumOfNone DEF PairsIn
  <2> QED BY <2>2, <2>3
<1>8. \A k \in D : E[k].fn = records[k].fn /\ E[k].item.children = records[k].kids
  BY <1>2 DEF RecordEntries, Entry
<1>9. PICK O : O = Promised!Places(s, kept, f)
  OBVIOUS
<1>10. Of(E, D, f) = O
  BY <1>1, <1>2, <1>5, <1>8, <1>9 DEF Of, Passed, Promised!Places
<1>11. PICK c : c = [k \in DOMAIN s.pits |-> CallsTo(s.pits[k].kids, Q)]
  OBVIOUS
<1>12. O \in SUBSET D
  BY <1>10 DEF Of
<1>13. IsFiniteSet(O)
  BY <1>4, <1>5, <1>12, FS_Subset DEF Suits
<1>14. \A k \in O : KidCounts(E, Q)[k] = c[k] /\ KidCounts(E, Q)[k] \in Int
  <2> TAKE k \in O
  <2>1. PICK r \in Raw : r = E[k].item
    BY <1>4, <1>5, <1>12 DEF Suits
  <2>2. r.children \in Seq(Kid)
    BY DEF Raw
  <2>3. CallsTo(r.children, Q) \in Int
    BY <2>2, CallsToInt
  <2>4. KidCounts(E, Q)[k] = CallsTo(r.children, Q)
    BY <1>5, <1>12, <2>1 DEF KidCounts
  <2>5. c[k] = CallsTo(r.children, Q)
    BY <1>1, <1>5, <1>8, <1>11, <1>12, <2>1
  <2> QED BY <2>3, <2>4, <2>5
<1>15. SumFunctionOnSet(KidCounts(E, Q), O) = SumFunctionOnSet(c, O)
  BY <1>13, <1>14, SumSame
<1>16. Promised!PairsCounted(s, kept, f, g) = SumFunctionOnSet(c, O)
  <2>1. Q = {s.pits[k].index : k \in Promised!Places(s, kept, g)}
    BY <1>1, <1>3, <1>6, FoundInRecords DEF Promised!Places
  <2>2. \A k : Promised!CallsTo(s.pits[k].kids, Q) = CallsTo(s.pits[k].kids, Q)
    <3> TAKE k
    <3>1. PICK kids : kids = s.pits[k].kids
      OBVIOUS
    <3>2. PICK a, A : a = CallCounts(kids) /\ A = Callees(kids, Q)
      OBVIOUS
    <3>3. Promised!CallsTo(kids, Q) = Promised!SumFunctionOnSet(a, A)
      BY <3>2 DEF Promised!CallsTo, CallCounts, Callees
    <3>4. CallsTo(kids, Q) = SumFunctionOnSet(a, A)
      BY <3>2 DEF CallsTo
    <3> QED BY <3>1, <3>3, <3>4, PromisedSum
  <2>3. c = [k \in DOMAIN s.pits |-> Promised!CallsTo(s.pits[k].kids, Q)]
    BY <1>11, <2>2
  <2>4. Promised!PairsCounted(s, kept, f, g) = Promised!SumFunctionOnSet(c, O)
    BY <1>9, <2>1, <2>3 DEF Promised!PairsCounted
  <2> QED BY <2>4, PromisedSum
<1> QED BY <1>7, <1>10, <1>15, <1>16

-----------------------------------------------------------------------------
(* Statistics implements StatTotals. *)

\* Nothing that has a function is without a clock.
ClockInv ==
    /\ DOMAIN files \subseteq File
    /\ stats.clock = NoClock => Known(stats.table) = {}
    /\ \A p \in DOMAIN files : files[p].clock = NoClock => Known(files[p].table) = {}

Parts(object) ==
    /\ TotalsOf(object).clock = object.clock
    /\ TotalsOf(object).counts.calls = [f \in Fn |-> CallsIn(object.table, f)]
    /\ TotalsOf(object).counts.pairs =
         [fg \in Fn \X Fn |-> PairsIn(object.table, fg[1], fg[2])]
    /\ TotalsOf(object).counts = [calls |-> TotalsOf(object).counts.calls,
                                  pairs |-> TotalsOf(object).counts.pairs]
    /\ TotalsOf(object) = [counts |-> TotalsOf(object).counts,
                           clock |-> TotalsOf(object).clock]

LEMMA TotalsParts == \A object : Parts(object)
BY DEF Parts, TotalsOf

Saved(F) == [p \in DOMAIN F |-> TotalsOf(F[p])]

\* An object with no function counts nothing.
LEMMA CountsNothing ==
    ASSUME NEW object, Known(object.table) = {}
    PROVE  TotalsOf(object).counts = Promised!Nothing
<1>1. \A f, g : CallsIn(object.table, f) = 0 /\ PairsIn(object.table, f, g) = 0
  BY DEF CallsIn, PairsIn
<1>2. [f \in Fn |-> CallsIn(object.table, f)] = [f \in Fn |-> 0]
  BY <1>1
<1>3. [fg \in Fn \X Fn |-> PairsIn(object.table, fg[1], fg[2])] = [fg \in Fn \X Fn |-> 0]
  BY <1>1
<1>4. Parts(object)
  BY TotalsParts
<1> QED BY <1>2, <1>3, <1>4 DEF Parts, Promised!Nothing

LEMMA GetCounts ==
    ASSUME NEW s \in Session, NEW kept, Get(s, kept)
    PROVE  Promised!Get(s, kept)
<1>1. PICK u : u = WithChildren(Enumerated(s.pits, kept))
  OBVIOUS
<1>2. PICK o : o = stats'
  OBVIOUS
<1>3. o.table = u /\ o.clock = s.clock /\ files' = files
  BY <1>1, <1>2 DEF Get
<1>4. \A f : CallsIn(u, f) = Promised!CallsCounted(s, kept, f)
  BY <1>1, ReadCalls
<1>5. \A f, g : PairsIn(u, f, g) = Promised!PairsCounted(s, kept, f, g)
  BY <1>1, ReadPairs
<1>6. [f \in Fn |-> CallsIn(u, f)] = [f \in Fn |-> Promised!CallsCounted(s, kept, f)]
  BY <1>4
<1>7. [fg \in Fn \X Fn |-> PairsIn(u, fg[1], fg[2])] =
        [fg \in Fn \X Fn |-> Promised!PairsCounted(s, kept, fg[1], fg[2])]
  BY <1>5
<1>8. TotalsOf(o).counts = Promised!Counted(s, kept)
  BY <1>3, <1>6, <1>7 DEF TotalsOf, Promised!Counted
<1>9. TotalsOf(o) = [counts |-> Promised!Counted(s, kept), clock |-> s.clock]
  BY <1>3, <1>8, TotalsParts DEF Parts
<1> QED BY <1>2, <1>3, <1>9 DEF Promised!Get

LEMMA AddCounts ==
    ASSUME StatInv, ClockInv, NEW p \in DOMAIN files,
           NEW order \in SetToSeqs(Known(files[p].table) \ Known(stats.table)),
           Add(p, order)
    PROVE  Promised!Add(p) /\ ClockInv'
<1>1. PICK ours, T, F : ours = stats.table /\ T = files[p].table /\ F = files
  OBVIOUS
<1>2. PICK u : u = Merged(Renumbered(T, order, stats.idxMax), T, ToSet(order))
  OBVIOUS
<1>3. PICK o : o = stats'
  OBVIOUS
<1>4. /\ o.table = u /\ o.clock = files[p].clock /\ files' = files
      /\ stats.table.items = <<>> \/ stats.clock \in {files[p].clock, NoClock}
  BY <1>1, <1>2, <1>3 DEF Add
<1>5. /\ Known(u) = Known(ours) \cup Known(T)
      /\ \A f : CallsIn(u, f) = CallsIn(ours, f) + CallsIn(T, f)
      /\ \A f, g : PairsIn(u, f, g) = PairsIn(ours, f, g) + PairsIn(T, f, g)
  <2>1. Consistent(ours) /\ Consistent(T) /\ UpTo(ours, stats.idxMax)
    BY <1>1 DEF StatInv
  <2>2. order \in SetToSeqs(Known(T) \ Known(ours))
    BY <1>1
  <2> QED BY <1>1, <1>2, <2>1, <2>2, AddedIs
<1>6. stats.table.items = <<>> => Known(ours) = {}
  BY <1>1 DEF Known
<1>7. Known(ours) = {} \/ stats.clock = files[p].clock
  BY <1>1, <1>4, <1>6 DEF ClockInv
<1>8. TotalsOf(stats).counts = Promised!Nothing \/ TotalsOf(stats).clock = TotalsOf(files[p]).clock
  <2>1. CASE Known(ours) = {}
    BY <1>1, <2>1, CountsNothing
  <2>2. CASE stats.clock = files[p].clock
    BY <2>2, TotalsParts DEF Parts
  <2> QED BY <1>7, <2>1, <2>2
<1>9. TotalsOf(o).counts = Promised!Sum(TotalsOf(stats).counts, TotalsOf(files[p]).counts)
  <2>1. PICK a, b : a = TotalsOf(stats).counts /\ b = TotalsOf(files[p]).counts
    OBVIOUS
  <2>0. Parts(stats) /\ Parts(files[p])
    BY TotalsParts
  <2>2. \A f \in Fn : a.calls[f] = CallsIn(ours, f) /\ b.calls[f] = CallsIn(T, f)
    <3>1. /\ a.calls = [f \in Fn |-> CallsIn(ours, f)]
          /\ b.calls = [f \in Fn |-> CallsIn(T, f)]
      BY <1>1, <2>0, <2>1 DEF Parts
    <3> QED BY <3>1
  <2>3. \A fg \in Fn \X Fn : /\ a.pairs[fg] = PairsIn(ours, fg[1], fg[2])
                             /\ b.pairs[fg] = PairsIn(T, fg[1], fg[2])
    <3>1. /\ a.pairs = [fg \in Fn \X Fn |-> PairsIn(ours, fg[1], fg[2])]
          /\ b.pairs = [fg \in Fn \X Fn |-> PairsIn(T, fg[1], fg[2])]
      BY <1>1, <2>0, <2>1 DEF Parts
    <3> QED BY <3>1
  <2>4. [f \in Fn |-> CallsIn(u, f)] = [f \in Fn |-> a.calls[f] + b.calls[f]]
    BY <1>5, <2>2
  <2>5. [fg \in Fn \X Fn |-> PairsIn(u, fg[1], fg[2])] =
          [fg \in Fn \X Fn |-> a.pairs[fg] + b.pairs[fg]]
    BY <1>5, <2>3
  <2>6. TotalsOf(o).counts = Promised!Sum(a, b)
    BY <1>4, <2>4, <2>5 DEF TotalsOf, Promised!Sum
  <2> QED BY <2>1, <2>6
<1>10. TotalsOf(o) = [counts |-> Promised!Sum(TotalsOf(stats).counts, TotalsOf(files[p]).counts),
                      clock  |-> TotalsOf(files[p]).clock]
  BY <1>4, <1>9, TotalsParts DEF Parts
<1>11. Promised!Add(p)
  BY <1>3, <1>4, <1>8, <1>10 DEF Promised!Add
<1>12. o.clock = NoClock => Known(o.table) = {}
  BY <1>1, <1>4, <1>5, <1>7 DEF ClockInv
<1> QED BY <1>3, <1>4, <1>11, <1>12 DEF ClockInv

LEMMA SaveCounts ==
    ASSUME ClockInv, NEW p \in File, Save(p)
    PROVE  Promised!Save(p) /\ ClockInv'
<1>1. PICK o, F, G : o = stats /\ F = files /\ G = files'
  OBVIOUS
<1>2. /\ G = [q \in DOMAIN F \cup {p} |->
                IF q = p THEN [table |-> o.table, clock |-> o.clock] ELSE F[q]]
      /\ stats' = o
  BY <1>1 DEF Save
<1>3. TotalsOf([table |-> o.table, clock |-> o.clock]) = TotalsOf(o)
  BY DEF TotalsOf
<1>4. Saved(G) = [q \in DOMAIN Saved(F) \cup {p} |-> IF q = p THEN TotalsOf(o) ELSE Saved(F)[q]]
  <2>1. DOMAIN Saved(F) = DOMAIN F /\ DOMAIN G = DOMAIN F \cup {p}
    BY <1>2 DEF Saved
  <2>2. \A q \in DOMAIN G : TotalsOf(G[q]) = IF q = p THEN TotalsOf(o) ELSE Saved(F)[q]
    BY <1>2, <1>3 DEF Saved
  <2> QED BY <2>1, <2>2 DEF Saved
<1>5. Promised!Save(p)
  BY <1>1, <1>2, <1>4 DEF Promised!Save, Saved
<1>6. \A q \in DOMAIN G : q \in File /\ (G[q].clock = NoClock => Known(G[q].table) = {})
  BY <1>1, <1>2 DEF ClockInv
<1> QED BY <1>1, <1>2, <1>5, <1>6 DEF ClockInv

LEMMA EmptiedCounts ==
    ASSUME StatInv, ClockInv, New \/ Clear
    PROVE  (Promised!New \/ Promised!Clear) /\ ClockInv'
<1>1. PICK o : o = stats'
  OBVIOUS
<1>2. Known(NoTable) = {}
  BY NoTableIs
<1>3. o.table = NoTable /\ files' = files
  BY <1>1 DEF New, Clear, NewStats, StatInv
<1>4. TotalsOf(o).counts = Promised!Nothing
  BY <1>2, <1>3, CountsNothing
<1>5. TotalsOf(o) = [counts |-> Promised!Nothing, clock |-> o.clock]
  BY <1>4, TotalsParts DEF Parts
<1>6. CASE New
  <2>1. o.clock = NoClock
    BY <1>1, <1>6 DEF New, NewStats
  <2> QED BY <1>1, <1>2, <1>3, <1>5, <1>6, <2>1 DEF ClockInv, Promised!New, Promised!NoTotals
<1>7. CASE Clear
  <2>1. o.clock = stats.clock
    BY <1>1, <1>7 DEF Clear, StatInv
  <2>2. TotalsOf(stats) = [counts |-> TotalsOf(stats).counts, clock |-> stats.clock]
    BY TotalsParts DEF Parts
  <2>3. TotalsOf(o) = [TotalsOf(stats) EXCEPT !.counts = Promised!Nothing]
    BY <1>5, <2>1, <2>2
  <2> QED BY <1>1, <1>2, <1>3, <2>1, <2>3 DEF ClockInv, Promised!Clear
<1> QED BY <1>6, <1>7

LEMMA CountsInit == Init => ClockInv /\ Promised!Init
<1> SUFFICES ASSUME Init PROVE ClockInv /\ Promised!Init
  OBVIOUS
<1>1. stats.table = NoTable /\ stats.clock = NoClock /\ files = <<>>
  BY DEF Init, NewStats
<1>2. Known(NoTable) = {}
  BY NoTableIs
<1>3. TotalsOf(stats).counts = Promised!Nothing
  BY <1>1, <1>2, CountsNothing
<1>4. TotalsOf(stats) = [counts |-> Promised!Nothing, clock |-> NoClock]
  BY <1>1, <1>3, TotalsParts DEF Parts
<1>5. Saved(files) = <<>>
  BY <1>1 DEF Saved
<1> QED BY <1>1, <1>2, <1>4, <1>5 DEF ClockInv, Saved, Promised!Init, Promised!NoTotals

LEMMA CountsNext ==
    StatInv /\ ClockInv /\ [Next]_vars => [Promised!Next]_(Promised!vars) /\ ClockInv'
<1> SUFFICES ASSUME StatInv, ClockInv, [Next]_vars
             PROVE  [Promised!Next]_(Promised!vars) /\ ClockInv'
  OBVIOUS
<1>1. ASSUME NEW s \in Session, NEW kept \in Filter, Get(s, kept)
      PROVE  Promised!Next /\ ClockInv'
  <2>1. Promised!Get(s, kept)
    BY <1>1, GetCounts
  <2>2. ClockInv'
    <3>1. PICK o : o = stats'
      OBVIOUS
    <3>2. o.clock = s.clock /\ files' = files
      BY <1>1, <3>1 DEF Get
    <3>3. s.clock # NoClock
      BY SessionAssumption
    <3> QED BY <3>1, <3>2, <3>3 DEF ClockInv
  <2> QED BY <2>1, <2>2 DEF Promised!Next
<1>2. ASSUME NEW p \in DOMAIN files,
             NEW order \in SetToSeqs(Known(files[p].table) \ Known(stats.table)),
             Add(p, order)
      PROVE  Promised!Next /\ ClockInv'
  <2>1. Promised!Add(p) /\ ClockInv'
    BY <1>2, AddCounts
  <2>2. p \in File
    BY DEF ClockInv
  <2> QED BY <2>1, <2>2 DEF Promised!Next
<1>3. ASSUME NEW p \in File, Save(p)
      PROVE  Promised!Next /\ ClockInv'
  BY <1>3, SaveCounts DEF Promised!Next
<1>4. CASE New \/ Clear
  BY <1>4, EmptiedCounts DEF Promised!Next
<1>5. CASE UNCHANGED vars
  <2>1. stats' = stats /\ files' = files
    BY <1>5 DEF vars
  <2>2. UNCHANGED Promised!vars
    BY <2>1 DEF Promised!vars
  <2> QED BY <2>1, <2>2 DEF ClockInv
<1> QED BY <1>1, <1>2, <1>3, <1>4, <1>5 DEF Next

\* For any sessions, filters and files, and whatever the order in which files are
\* added: what an object counts is what was recorded in the sessions it comes
\* from, and it belongs to one clock.
THEOREM CountsAddUp == Spec => AddsUp
<1>1. Spec => []StatInv
  BY TablesConsistent
<1>2. Init => ClockInv /\ Promised!Init
  BY CountsInit
<1>3. StatInv /\ ClockInv /\ [Next]_vars => [Promised!Next]_(Promised!vars) /\ ClockInv'
  BY CountsNext
<1> QED BY <1>1, <1>2, <1>3, PTL DEF Spec, AddsUp, Promised!Spec

=============================================================================
