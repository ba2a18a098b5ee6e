----------------------------- MODULE Sums_proofs -----------------------------
(***************************************************************************)
(* What a sum over a finite set is: zero over nothing, and one value more  *)
(* for one member more, whichever member the fold happens to take first.   *)
(* The fold is a recursive function on the subsets of its set; that there  *)
(* is such a function, and only one, is shown by a least counterexample    *)
(* among those subsets.                                                    *)
(***************************************************************************)
EXTENDS Sums, FiniteSetTheorems, WellFoundedInduction, TLAPS

AnyOf(s) == CHOOSE x \in s : TRUE

\* g adds f up over every subset of S, one member at a time.
Adds(g, f, S) ==
    g = [s \in SUBSET S |-> IF s = {} THEN 0 ELSE f[AnyOf(s)] + g[s \ {AnyOf(s)}]]

\* The fold, whose recursive function is chosen among those that add up.
LEMMA SumIsAdding ==
    ASSUME NEW f, NEW S
    PROVE  SumOver(f, S) = (CHOOSE g : Adds(g, f, S))[S]
  BY DEF SumOver, FoldSet, MapThenFoldSet, Adds, AnyOf

LEMMA AnyIsOne ==
    ASSUME NEW s, s # {} PROVE AnyOf(s) \in s
  BY DEF AnyOf

\* Of any subsets of a finite set, one has no smaller one among them.
LEMMA SmallestSubset ==
    ASSUME NEW S, IsFiniteSet(S), NEW T, T \subseteq SUBSET S, T # {}
    PROVE  \E x \in T : \A y \in T : y \subseteq x => y = x
  <1>1. FiniteSubsetsOf(S) = SUBSET S
    BY FS_FiniteSubsetsOfFinite
  <1>2. IsWellFoundedOn(StrictSubsetOrdering(S), SUBSET S)
    BY <1>1, FS_StrictSubsetOrderingWellFounded
  <1>3. PICK x \in T : \A y \in T : <<y, x>> \notin StrictSubsetOrdering(S)
    BY <1>2, WFMin
  <1>4. ASSUME NEW y \in T, y \subseteq x PROVE y = x
    BY <1>3, <1>4 DEF StrictSubsetOrdering
  <1> QED
    BY <1>4

\* Two functions that add f up, over a set and over a larger one, agree.
LEMMA AddingIsUnique ==
    ASSUME NEW S, IsFiniteSet(S), NEW U, U \subseteq S, NEW f,
           NEW g, Adds(g, f, S), NEW h, Adds(h, f, U)
    PROVE  \A s \in SUBSET U : g[s] = h[s]
  <1> DEFINE Bad == {s \in SUBSET U : g[s] # h[s]}
  <1> SUFFICES ASSUME Bad # {} PROVE FALSE
    OBVIOUS
  <1>1. IsFiniteSet(U) /\ Bad \subseteq SUBSET U
    BY FS_Subset
  <1>2. PICK s \in Bad : \A y \in Bad : y \subseteq s => y = s
    <2> HIDE DEF Bad
    <2> QED
      BY <1>1, SmallestSubset
  <1>3. s \in SUBSET U /\ s \in SUBSET S /\ g[s] # h[s]
    OBVIOUS
  <1>4. CASE s = {}
    BY <1>3, <1>4 DEF Adds
  <1>5. CASE s # {}
    <2> DEFINE rest == s \ {AnyOf(s)}
    <2>1. rest \subseteq s /\ rest # s
      BY <1>5, AnyIsOne
    <2>2. rest \in SUBSET U /\ rest \notin Bad
      BY <1>2, <1>3, <2>1
    <2>3. g[rest] = h[rest]
      BY <2>2
    <2>4. g[s] = f[AnyOf(s)] + g[rest] /\ h[s] = f[AnyOf(s)] + h[rest]
      BY <1>3, <1>5 DEF Adds
    <2> QED
      BY <1>3, <2>3, <2>4
  <1> QED
    BY <1>4, <1>5

LEMMA AddingExists ==
    ASSUME NEW S, IsFiniteSet(S), NEW f
    PROVE  \E g : Adds(g, f, S)
  <1> DEFINE Bad == {s \in SUBSET S : ~ \E g : Adds(g, f, s)}
  <1> SUFFICES ASSUME Bad # {} PROVE FALSE
    OBVIOUS
  <1>1. PICK T \in Bad : \A y \in Bad : y \subseteq T => y = T
    <2>1. Bad \subseteq SUBSET S
      OBVIOUS
    <2> HIDE DEF Bad
    <2> QED
      BY <2>1, SmallestSubset
  <1> DEFINE G(s) == CHOOSE g : Adds(g, f, s)
             h == [s \in SUBSET T |-> IF s = {} THEN 0
                     ELSE f[AnyOf(s)] + G(s \ {AnyOf(s)})[s \ {AnyOf(s)}]]
  <1>2. ASSUME NEW s, s \subseteq T, s # T PROVE Adds(G(s), f, s) /\ IsFiniteSet(s)
    <2>1. s \in SUBSET S /\ s \notin Bad
      BY <1>1, <1>2
    <2>2. \E g : Adds(g, f, s)
      BY <2>1
    <2>3. IsFiniteSet(s)
      BY <2>1, FS_Subset
    <2> QED
      BY <2>2, <2>3
  <1>3. ASSUME NEW u, u \subseteq T, u # T PROVE h[u] = G(u)[u]
    <2> HIDE DEF G
    <2>1. CASE u = {}
      BY <1>2, <2>1, <1>3 DEF Adds
    <2>2. CASE u # {}
      <3> DEFINE v == u \ {AnyOf(u)}
      <3>1. v \subseteq u /\ v \subseteq T /\ v # T
        BY <1>3, <2>2, AnyIsOne
      <3>2. Adds(G(u), f, u) /\ IsFiniteSet(u) /\ Adds(G(v), f, v)
        BY <1>2, <1>3, <3>1
      <3>3. G(u)[v] = G(v)[v]
        BY <3>1, <3>2, AddingIsUnique
      <3>4. G(u)[u] = f[AnyOf(u)] + G(u)[v]
        BY <2>2, <3>2 DEF Adds
      <3>5. h[u] = f[AnyOf(u)] + G(v)[v]
        BY <1>3, <2>2
      <3> QED
        BY <3>3, <3>4, <3>5
    <2> QED
      BY <2>1, <2>2
  <1>4. ASSUME NEW s \in SUBSET T
        PROVE  h[s] = IF s = {} THEN 0 ELSE f[AnyOf(s)] + h[s \ {AnyOf(s)}]
    <2> HIDE DEF G
    <2>1. CASE s = {}
      BY <2>1
    <2>2. CASE s # {}
      <3>1. s \ {AnyOf(s)} \subseteq T /\ s \ {AnyOf(s)} # T
        BY <2>2, AnyIsOne
      <3>2. h[s \ {AnyOf(s)}] = G(s \ {AnyOf(s)})[s \ {AnyOf(s)}]
        BY <1>3, <3>1
      <3> QED
        BY <2>2, <3>2
    <2> QED
      BY <2>1, <2>2
  <1>5. h = [s \in SUBSET T |-> h[s]]
    OBVIOUS
  <1> HIDE DEF h
  <1>6. [s \in SUBSET T |-> h[s]] = [s \in SUBSET T |-> IF s = {} THEN 0 ELSE f[AnyOf(s)] + h[s \ {AnyOf(s)}]]
    BY <1>4
  <1>7. Adds(h, f, T)
    BY <1>5, <1>6 DEF Adds
  <1> QED
    BY <1>1, <1>7

---------------------------------------------------------------------------
(* Sums.                                                                   *)

LEMMA SumUnfolds ==
    ASSUME NEW S, IsFiniteSet(S), NEW f
    PROVE  SumOver(f, S) = IF S = {} THEN 0 ELSE f[AnyOf(S)] + SumOver(f, S \ {AnyOf(S)})
  <1> DEFINE g == CHOOSE h : Adds(h, f, S)
             rest == S \ {AnyOf(S)}
             r == CHOOSE h : Adds(h, f, rest)
  <1>1. Adds(g, f, S)
    BY AddingExists
  <1>2. rest \subseteq S /\ IsFiniteSet(rest)
    BY FS_Subset
  <1>3. Adds(r, f, rest)
    BY <1>2, AddingExists
  <1>4. SumOver(f, S) = g[S] /\ SumOver(f, rest) = r[rest]
    BY SumIsAdding
  <1> HIDE DEF g, r
  <1>5. g[rest] = r[rest]
    BY <1>1, <1>2, <1>3, AddingIsUnique
  <1>6. g[S] = IF S = {} THEN 0 ELSE f[AnyOf(S)] + g[rest]
    BY <1>1 DEF Adds
  <1> QED
    BY <1>4, <1>5, <1>6

\* The sum over nothing is zero.
LEMMA SumOfNothing ==
    ASSUME NEW f PROVE SumOver(f, {}) = 0
  BY SumUnfolds, FS_EmptySet

\* Whole values have a whole sum.
LEMMA SumIsWhole ==
    ASSUME NEW S, IsFiniteSet(S), NEW f, \A x \in S : f[x] \in Int
    PROVE  SumOver(f, S) \in Int
  <1> DEFINE Bad == {s \in SUBSET S : SumOver(f, s) \notin Int}
  <1> SUFFICES ASSUME Bad # {} PROVE FALSE
    OBVIOUS
  <1>1. PICK s \in Bad : \A y \in Bad : y \subseteq s => y = s
    <2>1. Bad \subseteq SUBSET S
      OBVIOUS
    <2> HIDE DEF Bad
    <2> QED
      BY <2>1, SmallestSubset
  <1>2. s \in SUBSET S /\ IsFiniteSet(s)
    BY FS_Subset
  <1>3. s # {}
    BY SumOfNothing
  <1> DEFINE rest == s \ {AnyOf(s)}
  <1>4. rest \subseteq s /\ rest # s /\ AnyOf(s) \in S
    BY <1>2, <1>3, AnyIsOne
  <1>5. rest \in SUBSET S /\ rest \notin Bad
    BY <1>1, <1>2, <1>4
  <1>6. SumOver(f, rest) \in Int
    BY <1>5
  <1>7. SumOver(f, s) = f[AnyOf(s)] + SumOver(f, rest)
    BY <1>2, <1>3, SumUnfolds
  <1> QED
    BY <1>4, <1>6, <1>7

\* Any member may be the one that is added last.
LEMMA SumTakesOut ==
    ASSUME NEW S, IsFiniteSet(S), NEW f, \A x \in S : f[x] \in Int, NEW x \in S
    PROVE  SumOver(f, S) = f[x] + SumOver(f, S \ {x})
  <1> DEFINE Bad == {s \in SUBSET S : \E y \in s : SumOver(f, s) # f[y] + SumOver(f, s \ {y})}
  <1> SUFFICES ASSUME Bad # {} PROVE FALSE
    OBVIOUS
  <1>1. PICK s \in Bad : \A z \in Bad : z \subseteq s => z = s
    <2>1. Bad \subseteq SUBSET S
      OBVIOUS
    <2> HIDE DEF Bad
    <2> QED
      BY <2>1, SmallestSubset
  <1>2. s \in SUBSET S /\ IsFiniteSet(s)
    BY FS_Subset
  <1>3. PICK y \in s : SumOver(f, s) # f[y] + SumOver(f, s \ {y})
    OBVIOUS
  <1> DEFINE a == AnyOf(s)
             rest == s \ {a}
             less == s \ {y}
             both == rest \ {y}
  <1>4. a \in s
    BY <1>3, AnyIsOne
  <1>5. SumOver(f, s) = f[a] + SumOver(f, rest)
    BY <1>2, <1>3, SumUnfolds
  <1>6. y # a
    BY <1>3, <1>5
  <1>7. rest \in SUBSET S /\ rest \notin Bad /\ less \in SUBSET S /\ less \notin Bad
    BY <1>1, <1>2, <1>3, <1>4
  <1>8. SumOver(f, rest) = f[y] + SumOver(f, both)
    BY <1>3, <1>6, <1>7
  <1>9. both = less \ {a} /\ SumOver(f, less) = f[a] + SumOver(f, less \ {a})
    BY <1>4, <1>6, <1>7
  <1>10. SumOver(f, both) \in Int /\ f[a] \in Int /\ f[y] \in Int
    <2>1. IsFiniteSet(both) /\ \A z \in both : f[z] \in Int
      BY <1>2, FS_Subset
    <2> QED
      BY <2>1, <1>2, <1>3, <1>4, SumIsWhole
  <1> HIDE DEF a, rest, less, both
  <1>11. SumOver(f, s) = f[a] + (f[y] + SumOver(f, both))
    BY <1>5, <1>8
  <1>12. SumOver(f, less) = f[a] + SumOver(f, both)
    BY <1>9
  <1>13. SumOver(f, s) = f[y] + SumOver(f, less)
    BY <1>10, <1>11, <1>12
  <1> QED
    BY <1>3, <1>13 DEF less

\* One member more is its value more.
LEMMA SumTakesIn ==
    ASSUME NEW S, IsFiniteSet(S), NEW f, NEW x, x \notin S, \A y \in S \cup {x} : f[y] \in Int
    PROVE  SumOver(f, S \cup {x}) = f[x] + SumOver(f, S)
  <1>1. IsFiniteSet(S \cup {x}) /\ (S \cup {x}) \ {x} = S
    BY FS_AddElement
  <1> QED
    BY <1>1, SumTakesOut

\* Only the values on the set count.
LEMMA SumOfEquals ==
    ASSUME NEW S, IsFiniteSet(S), NEW f, NEW g, \A x \in S : f[x] = g[x]
    PROVE  SumOver(f, S) = SumOver(g, S)
  <1> DEFINE Bad == {s \in SUBSET S : SumOver(f, s) # SumOver(g, s)}
  <1> SUFFICES ASSUME Bad # {} PROVE FALSE
    OBVIOUS
  <1>1. PICK s \in Bad : \A y \in Bad : y \subseteq s => y = s
    <2>1. Bad \subseteq SUBSET S
      OBVIOUS
    <2> HIDE DEF Bad
    <2> QED
      BY <2>1, SmallestSubset
  <1>2. s \in SUBSET S /\ IsFiniteSet(s)
    BY FS_Subset
  <1>3. s # {}
    BY SumOfNothing
  <1> DEFINE rest == s \ {AnyOf(s)}
  <1>4. rest \subseteq s /\ rest # s /\ AnyOf(s) \in S
    BY <1>2, <1>3, AnyIsOne
  <1>5. rest \in SUBSET S /\ rest \notin Bad
    BY <1>1, <1>2, <1>4
  <1>6. SumOver(f, rest) = SumOver(g, rest)
    BY <1>5
  <1>7. /\ SumOver(f, s) = f[AnyOf(s)] + SumOver(f, rest)
        /\ SumOver(g, s) = g[AnyOf(s)] + SumOver(g, rest)
    BY <1>2, <1>3, SumUnfolds
  <1> QED
    BY <1>4, <1>6, <1>7

\* A value that is two values together has their two sums together.
LEMMA SumOfSums ==
    ASSUME NEW S, IsFiniteSet(S), NEW f, NEW g, NEW h,
           \A x \in S : f[x] \in Int /\ g[x] \in Int /\ h[x] = f[x] + g[x]
    PROVE  SumOver(h, S) = SumOver(f, S) + SumOver(g, S)
  <1> DEFINE Bad == {s \in SUBSET S : SumOver(h, s) # SumOver(f, s) + SumOver(g, s)}
  <1> SUFFICES ASSUME Bad # {} PROVE FALSE
    OBVIOUS
  <1>1. PICK s \in Bad : \A y \in Bad : y \subseteq s => y = s
    <2>1. Bad \subseteq SUBSET S
      OBVIOUS
    <2> HIDE DEF Bad
    <2> QED
      BY <2>1, SmallestSubset
  <1>2. s \in SUBSET S /\ IsFiniteSet(s)
    BY FS_Subset
  <1>3. s # {}
    <2>1. SumOver(h, {}) = 0 /\ SumOver(f, {}) = 0 /\ SumOver(g, {}) = 0
      BY SumOfNothing
    <2>2. SumOver(h, s) # SumOver(f, s) + SumOver(g, s)
      OBVIOUS
    <2>3. 0 = 0 + 0
      OBVIOUS
    <2> HIDE DEF Bad
    <2> QED
      BY <2>1, <2>2, <2>3
  <1> DEFINE a == AnyOf(s)
             rest == s \ {a}
  <1>4. rest \subseteq s /\ rest # s /\ a \in S /\ a \in s
    BY <1>2, <1>3, AnyIsOne
  <1>5. rest \in SUBSET S /\ rest \notin Bad /\ IsFiniteSet(rest)
    BY <1>1, <1>2, <1>4, FS_Subset
  <1>6. SumOver(h, rest) = SumOver(f, rest) + SumOver(g, rest)
    BY <1>5
  <1>7. /\ SumOver(f, s) = f[a] + SumOver(f, rest)
        /\ SumOver(g, s) = g[a] + SumOver(g, rest)
        /\ SumOver(h, s) = h[a] + SumOver(h, rest)
    BY <1>2, <1>3, SumUnfolds
  <1>8. f[a] \in Int /\ g[a] \in Int /\ h[a] = f[a] + g[a]
    BY <1>4
  <1>9. SumOver(f, rest) \in Int /\ SumOver(g, rest) \in Int
    BY <1>5, SumIsWhole
  <1>10. SumOver(h, s) # SumOver(f, s) + SumOver(g, s)
    OBVIOUS
  <1> HIDE DEF a, rest, Bad
  <1> QED
    BY <1>6, <1>7, <1>8, <1>9, <1>10

\* What is multiplied by a number has the sum multiplied by it.
LEMMA SumOfMultiples ==
    ASSUME NEW S, IsFiniteSet(S), NEW f, NEW h, NEW n \in Int,
           \A x \in S : f[x] \in Int /\ h[x] = n * f[x]
    PROVE  SumOver(h, S) = n * SumOver(f, S)
  <1> DEFINE Bad == {s \in SUBSET S : SumOver(h, s) # n * SumOver(f, s)}
  <1> SUFFICES ASSUME Bad # {} PROVE FALSE
    OBVIOUS
  <1>1. PICK s \in Bad : \A y \in Bad : y \subseteq s => y = s
    <2>1. Bad \subseteq SUBSET S
      OBVIOUS
    <2> HIDE DEF Bad
    <2> QED
      BY <2>1, SmallestSubset
  <1>2. s \in SUBSET S /\ IsFiniteSet(s)
    BY FS_Subset
  <1>3. s # {}
    <2>1. SumOver(h, {}) = 0 /\ SumOver(f, {}) = 0
      BY SumOfNothing
    <2>2. SumOver(h, s) # n * SumOver(f, s)
      OBVIOUS
    <2>3. n * 0 = 0
      OBVIOUS
    <2> HIDE DEF Bad
    <2> QED
      BY <2>1, <2>2, <2>3
  <1> DEFINE a == AnyOf(s)
             rest == s \ {a}
  <1>4. rest \subseteq s /\ rest # s /\ a \in S /\ a \in s
    BY <1>2, <1>3, AnyIsOne
  <1>5. rest \in SUBSET S /\ rest \notin Bad /\ IsFiniteSet(rest)
    BY <1>1, <1>2, <1>4, FS_Subset
  <1>6. SumOver(h, rest) = n * SumOver(f, rest)
    BY <1>5
  <1>7. SumOver(f, s) = f[a] + SumOver(f, rest) /\ SumOver(h, s) = h[a] + SumOver(h, rest)
    BY <1>2, <1>3, SumUnfolds
  <1>8. f[a] \in Int /\ h[a] = n * f[a]
    BY <1>4
  <1>9. SumOver(f, rest) \in Int
    BY <1>5, SumIsWhole
  <1>10. SumOver(h, s) # n * SumOver(f, s)
    OBVIOUS
  <1>11. \A p, q \in Int : n * (p + q) = n * p + n * q
    OBVIOUS
  <1> HIDE DEF a, rest, Bad
  <1> QED
    BY <1>6, <1>7, <1>8, <1>9, <1>10, <1>11

\* Members that are renamed apart, each with its value, have the same sum.
LEMMA SumOfImage ==
    ASSUME NEW S, IsFiniteSet(S), NEW m, \A x, y \in S : m[x] = m[y] => x = y,
           NEW f, NEW g, \A x \in S : f[x] \in Int /\ g[m[x]] = f[x]
    PROVE  IsFiniteSet({m[x] : x \in S}) /\ SumOver(g, {m[x] : x \in S}) = SumOver(f, S)
  <1> DEFINE Im(s) == {m[x] : x \in s}
             Holds(s) == IsFiniteSet(Im(s)) /\ SumOver(g, Im(s)) = SumOver(f, s)
             Bad == {s \in SUBSET S : ~Holds(s)}
  <1>1. Bad = {}
    <2> SUFFICES ASSUME Bad # {} PROVE FALSE
      OBVIOUS
    <2>1. PICK s \in Bad : \A y \in Bad : y \subseteq s => y = s
      <3>1. Bad \subseteq SUBSET S
        OBVIOUS
      <3> HIDE DEF Bad
      <3> QED
        BY <3>1, SmallestSubset
    <2>2. s \in SUBSET S /\ IsFiniteSet(s) /\ ~Holds(s)
      BY FS_Subset
    <2>3. s # {}
      <3>1. Im({}) = {}
        OBVIOUS
      <3>2. Holds({})
        BY <3>1, SumOfNothing, FS_EmptySet
      <3> HIDE DEF Holds
      <3> QED
        BY <2>2, <3>2
    <2> DEFINE a == AnyOf(s)
               rest == s \ {a}
    <2>4. rest \subseteq s /\ rest # s /\ a \in S /\ a \in s
      BY <2>2, <2>3, AnyIsOne
    <2>5. rest \in SUBSET S /\ rest \notin Bad
      BY <2>1, <2>2, <2>4
    <2>6. Holds(rest)
      BY <2>5
    <2>7. Im(s) = Im(rest) \cup {m[a]} /\ m[a] \notin Im(rest)
      BY <2>2, <2>4
    <2>8. \A y \in Im(s) : g[y] \in Int
      BY <2>2
    <2>9. SumOver(f, s) = f[a] + SumOver(f, rest)
      BY <2>2, <2>3, SumUnfolds
    <2>10. IsFiniteSet(Im(s)) /\ SumOver(g, Im(s)) = g[m[a]] + SumOver(g, Im(rest))
      <3>1. IsFiniteSet(Im(rest))
        BY <2>6
      <3> DEFINE T == Im(rest)
                 v == m[a]
      <3>2. v \notin T /\ Im(s) = T \cup {v} /\ \A y \in T \cup {v} : g[y] \in Int
        BY <2>7, <2>8
      <3> HIDE DEF Im, T, v
      <3>3. IsFiniteSet(T)
        BY <3>1 DEF T
      <3>4. SumOver(g, T \cup {v}) = g[v] + SumOver(g, T) /\ IsFiniteSet(T \cup {v})
        BY <3>2, <3>3, SumTakesIn, FS_AddElement
      <3> QED
        BY <3>2, <3>4 DEF T, v
    <2>11. g[m[a]] = f[a]
      BY <2>4
    <2> QED
      BY <2>2, <2>6, <2>9, <2>10, <2>11
  <1>2. Holds(S)
    BY <1>1
  <1> QED
    BY <1>2

\* The sums over two sets that differ in one element each.
LEMMA SumSwaps ==
    ASSUME NEW S, IsFiniteSet(S), NEW f, NEW old \in S, NEW x, x \notin S \ {old},
           \A y \in S \cup {x} : f[y] \in Int
    PROVE  /\ IsFiniteSet((S \ {old}) \cup {x})
           /\ SumOver(f, (S \ {old}) \cup {x}) = SumOver(f, S) - f[old] + f[x]
  <1>1. IsFiniteSet(S \ {old}) /\ IsFiniteSet((S \ {old}) \cup {x})
    BY FS_RemoveElement, FS_AddElement
  <1>2. SumOver(f, S) = f[old] + SumOver(f, S \ {old})
    BY SumTakesOut
  <1>3. SumOver(f, (S \ {old}) \cup {x}) = f[x] + SumOver(f, S \ {old})
    BY <1>1, SumTakesIn
  <1>4. SumOver(f, S \ {old}) \in Int /\ f[old] \in Int /\ f[x] \in Int
    BY <1>1, SumIsWhole
  <1> QED
    BY <1>1, <1>2, <1>3, <1>4

\* One value changes.
LEMMA SumUpdates ==
    ASSUME NEW S, IsFiniteSet(S), NEW f, NEW g, NEW x \in S,
           \A y \in S : f[y] \in Int /\ g[y] \in Int, \A y \in S \ {x} : g[y] = f[y]
    PROVE  SumOver(g, S) = SumOver(f, S) - f[x] + g[x]
  <1> DEFINE rest == S \ {x}
  <1>1. SumOver(f, S) = f[x] + SumOver(f, rest) /\ SumOver(g, S) = g[x] + SumOver(g, rest)
    BY SumTakesOut
  <1>2. IsFiniteSet(rest)
    BY FS_RemoveElement
  <1>3. \A y \in rest : g[y] = f[y] /\ f[y] \in Int
    OBVIOUS
  <1>4. f[x] \in Int /\ g[x] \in Int
    OBVIOUS
  <1> HIDE DEF rest
  <1>5. SumOver(g, rest) = SumOver(f, rest) /\ SumOver(f, rest) \in Int
    BY <1>2, <1>3, SumOfEquals, SumIsWhole
  <1> QED
    BY <1>1, <1>4, <1>5

\* Values that are all zero, but for one.
LEMMA SumOfZeros ==
    ASSUME NEW S, IsFiniteSet(S), NEW f, \A y \in S : f[y] = 0
    PROVE  SumOver(f, S) = 0
  <1>1. \A y \in S : f[y] \in Int /\ f[y] \in Int /\ f[y] = f[y] + f[y]
    OBVIOUS
  <1>2. SumOver(f, S) = SumOver(f, S) + SumOver(f, S)
    BY <1>1, SumOfSums
  <1>3. SumOver(f, S) \in Int
    BY <1>1, SumIsWhole
  <1>4. \A n \in Int : n = n + n => n = 0
    OBVIOUS
  <1> QED
    BY ONLY <1>2, <1>3, <1>4

LEMMA SumOfOne ==
    ASSUME NEW S, IsFiniteSet(S), NEW f, NEW x \in S, f[x] \in Int, \A y \in S \ {x} : f[y] = 0
    PROVE  SumOver(f, S) = f[x]
  <1> DEFINE rest == S \ {x}
  <1>1. SumOver(f, S) = f[x] + SumOver(f, rest)
    BY SumTakesOut
  <1>2. IsFiniteSet(rest) /\ \A y \in rest : f[y] = 0
    BY FS_RemoveElement
  <1> HIDE DEF rest
  <1>3. SumOver(f, rest) = 0
    BY <1>2, SumOfZeros
  <1> QED
    BY <1>1, <1>3
=============================================================================
