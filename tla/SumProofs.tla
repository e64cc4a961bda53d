----------------------------- MODULE SumProofs -----------------------------
(***************************************************************************)
(* Sums over finite sets, as MapThenSumSet of the community modules         *)
(* computes them: what one element does to a sum.  The library's induction  *)
(* theorems take the property as an operator; here, a smallest              *)
(* counterexample is refuted instead.                                       *)
(***************************************************************************)
EXTENDS Integers, FiniteSets, FiniteSetsExt, FiniteSetTheorems, WellFoundedInduction, TLAPS

\* The sum of g over S.
SumOver(g, S) == MapThenSumSet(LAMBDA x : g[x], S)

Chosen(s) == CHOOSE x \in s : TRUE

\* F is the recursive function by which the fold over S is defined.
FoldedBy(F, g, S) ==
    F = [s \in SUBSET S |-> IF s = {} THEN 0 ELSE g[Chosen(s)] + F[s \ {Chosen(s)}]]

\* F agrees with the fold on the subsets of at most n elements.
FoldsUpTo(F, g, S, n) ==
    /\ \A s \in SUBSET S : Cardinality(s) <= n => F[s] \in Int
    /\ \A s \in SUBSET S : Cardinality(s) <= n =>
          F[s] = IF s = {} THEN 0 ELSE g[Chosen(s)] + F[s \ {Chosen(s)}]

\* g and h have the same values on T.
SameOn(g, h, T) == \A x \in T : g[x] = h[x]

\* MapThenSumSet is such a function's value.
LEMMA SumFolds ==
    ASSUME NEW g, NEW S
    PROVE  SumOver(g, S) = (CHOOSE F : FoldedBy(F, g, S))[S]
BY DEF SumOver, MapThenSumSet, MapThenFoldSet, FoldedBy, Chosen

\* An element that a nonempty set yields is its own.
LEMMA ChosenIn ==
    ASSUME NEW s, s # {}
    PROVE  Chosen(s) \in s
BY DEF Chosen

\* Among subsets of a finite set there is one without a smaller one.
LEMMA MinimalSubset ==
    ASSUME NEW S, IsFiniteSet(S), NEW T \in SUBSET (SUBSET S), T # {}
    PROVE  \E x \in T : \A y \in T : y \subseteq x => y = x
<1>1. IsWellFoundedOn(StrictSubsetOrdering(S), SUBSET S)
  BY FS_StrictSubsetOrderingWellFounded, FS_FiniteSubsetsOfFinite
<1>2. PICK x \in T : \A y \in T : ~ (<<y, x>> \in StrictSubsetOrdering(S))
  BY <1>1, WFMin
<1> QED BY <1>2 DEF StrictSubsetOrdering

\* A nonempty set of numbers up to n has a least one.
LEMMA LeastNumber ==
    ASSUME NEW n \in Nat, NEW T \in SUBSET (0..n), T # {}
    PROVE  \E k \in T : \A j \in T : k <= j
<1> DEFINE Below(k) == 0..k
       Belows == {Below(k) : k \in T}
<1>1. Belows \in SUBSET (SUBSET (0..n)) /\ Belows # {}
  <2>1. \A k \in T : Below(k) \in SUBSET (0..n)
    OBVIOUS
  <2> QED BY <2>1
<1>2. IsFiniteSet(0..n)
  BY FS_Interval
<1>3. \E x \in Belows : \A y \in Belows : y \subseteq x => y = x
  <2>1. PICK U, V : U = 0..n /\ V = Belows
    OBVIOUS
  <2>2. IsFiniteSet(U) /\ V \in SUBSET (SUBSET U) /\ V # {}
    BY <1>1, <1>2, <2>1
  <2>3. \E x \in V : \A y \in V : y \subseteq x => y = x
    BY <2>2, MinimalSubset
  <2> HIDE DEF Belows
  <2> QED BY <2>1, <2>3
<1>4. PICK k \in T : \A y \in Belows : y \subseteq Below(k) => y = Below(k)
  BY <1>3
<1>5. ASSUME NEW j \in T, j < k
      PROVE  FALSE
  <2>1. Below(j) \subseteq Below(k)
    BY <1>5
  <2>2. Below(j) = Below(k)
    BY <1>4, <2>1
  <2>3. k \in Below(k) /\ k \notin Below(j)
    BY <1>5
  <2> QED BY <2>2, <2>3
<1> QED BY <1>5

\* The recursion over subsets has a solution.
LEMMA FoldsExist ==
    ASSUME NEW S, IsFiniteSet(S), NEW g, \A x \in S : g[x] \in Int
    PROVE  \E F \in [SUBSET S -> Int] : FoldedBy(F, g, S)
<1> DEFINE N == Cardinality(S)
           Open == {n \in 0..N : ~\E F : FoldsUpTo(F, g, S, n)}
<1>1. N \in Nat /\ \A s \in SUBSET S : IsFiniteSet(s) /\ Cardinality(s) \in 0..N
  BY FS_CardinalityType, FS_Subset
<1>2. \A s \in SUBSET S : s # {} =>
          /\ Chosen(s) \in s
          /\ s \ {Chosen(s)} \in SUBSET S
          /\ Cardinality(s \ {Chosen(s)}) = Cardinality(s) - 1
  BY <1>1, ChosenIn, FS_RemoveElement
<1>3. Open = {}
  <2> SUFFICES ASSUME Open # {} PROVE FALSE
    OBVIOUS
  <2>1. PICK n \in Open : \A j \in Open : n <= j
    BY <1>1, LeastNumber
  <2>2. CASE n = 0
    <3>1. \A s \in SUBSET S : Cardinality(s) <= 0 => s = {}
      BY <1>1, FS_EmptySet
    <3> DEFINE F == [s \in SUBSET S |-> 0]
    <3>2. FoldsUpTo(F, g, S, 0)
      BY <3>1 DEF FoldsUpTo
    <3> QED BY <2>2, <3>2
  <2>3. CASE n # 0
    <3>1. n - 1 \in 0..N /\ n - 1 \notin Open
      BY <1>1, <2>1, <2>3
    <3>2. PICK F : FoldsUpTo(F, g, S, n - 1)
      BY <3>1
    <3> DEFINE G == [s \in SUBSET S |-> IF s = {} THEN 0 ELSE g[Chosen(s)] + F[s \ {Chosen(s)}]]
    <3>3. \A s \in SUBSET S : Cardinality(s) <= n - 1 => G[s] = F[s]
      BY <3>2 DEF FoldsUpTo
    <3>4. ASSUME NEW s \in SUBSET S, Cardinality(s) <= n
          PROVE  /\ G[s] \in Int
                 /\ G[s] = IF s = {} THEN 0 ELSE g[Chosen(s)] + G[s \ {Chosen(s)}]
      <4>1. CASE s = {}
        BY <4>1
      <4>2. CASE s # {}
        <5> DEFINE t == s \ {Chosen(s)}
        <5>1. t \in SUBSET S /\ Cardinality(t) <= n - 1 /\ Chosen(s) \in S
          BY <1>1, <1>2, <3>4, <4>2, <3>1
        <5>2. G[t] = F[t] /\ F[t] \in Int
          BY <3>2, <3>3, <5>1 DEF FoldsUpTo
        <5>3. G[s] = g[Chosen(s)] + F[t]
          BY <4>2
        <5> QED BY <4>2, <5>1, <5>2, <5>3
      <4> QED BY <4>1, <4>2
    <3> HIDE DEF G
    <3>5. FoldsUpTo(G, g, S, n)
      BY <3>4 DEF FoldsUpTo
    <3> QED BY <2>1, <3>5
  <2> QED BY <2>2, <2>3
<1>4. PICK F : FoldsUpTo(F, g, S, N)
  BY <1>1, <1>3
<1> DEFINE G == [s \in SUBSET S |-> F[s]]
<1>5. \A s \in SUBSET S :
          F[s] \in Int /\ F[s] = IF s = {} THEN 0 ELSE g[Chosen(s)] + F[s \ {Chosen(s)}]
  <2>1. \A s \in SUBSET S : Cardinality(s) <= N
    BY <1>1
  <2> HIDE DEF N
  <2> QED BY <1>4, <2>1 DEF FoldsUpTo
<1>6. G \in [SUBSET S -> Int]
  BY <1>5
<1>7. G = [s \in SUBSET S |-> IF s = {} THEN 0 ELSE g[Chosen(s)] + G[s \ {Chosen(s)}]]
  BY <1>5
<1> QED BY <1>6, <1>7 DEF FoldedBy

\* Two such recursions agree where they add up the same.
LEMMA FoldsAgree ==
    ASSUME NEW S, NEW R, NEW T \in SUBSET S, T \in SUBSET R, IsFiniteSet(T),
           NEW g, NEW h, SameOn(g, h, T),
           NEW F, NEW G, FoldedBy(F, g, S), FoldedBy(G, h, R)
    PROVE  F[T] = G[T]
<1> DEFINE Differ == {s \in SUBSET T : F[s] # G[s]}
<1> SUFFICES ASSUME Differ # {} PROVE FALSE
  OBVIOUS
<1>1. PICK s \in Differ : \A t \in Differ : t \subseteq s => t = s
  <2>1. Differ \in SUBSET (SUBSET T)
    OBVIOUS
  <2> HIDE DEF Differ
  <2> QED BY <2>1, MinimalSubset
<1>2. /\ F[s] = IF s = {} THEN 0 ELSE g[Chosen(s)] + F[s \ {Chosen(s)}]
      /\ G[s] = IF s = {} THEN 0 ELSE h[Chosen(s)] + G[s \ {Chosen(s)}]
  BY <1>1 DEF FoldedBy
<1>3. s # {} /\ Chosen(s) \in s
  BY <1>1, <1>2, ChosenIn
<1>4. F[s \ {Chosen(s)}] = G[s \ {Chosen(s)}] /\ g[Chosen(s)] = h[Chosen(s)]
  BY <1>1, <1>3 DEF SameOn
<1> QED BY <1>1, <1>2, <1>3, <1>4

-----------------------------------------------------------------------------
\* A function that folds over S sums up every part of S.
LEMMA SumValue ==
    ASSUME NEW S, IsFiniteSet(S), NEW g, \A x \in S : g[x] \in Int,
           NEW F, FoldedBy(F, g, S), NEW T \in SUBSET S
    PROVE  SumOver(g, T) = F[T]
<1>1. IsFiniteSet(T)
  BY FS_Subset
<1>2. \E G : FoldedBy(G, g, T)
  BY <1>1, FoldsExist
<1> DEFINE H == CHOOSE G : FoldedBy(G, g, T)
<1>3. FoldedBy(H, g, T)
  BY <1>2
<1>4. SumOver(g, T) = H[T]
  BY SumFolds
<1> HIDE DEF H
<1>5. T \in SUBSET T /\ SameOn(g, g, T)
  BY DEF SameOn
<1>6. F[T] = H[T]
  BY <1>1, <1>3, <1>5, FoldsAgree
<1> QED BY <1>4, <1>6

\* Nothing adds up to 0, integers add up to an integer.
LEMMA SumIsInt ==
    ASSUME NEW S, IsFiniteSet(S), NEW g, \A x \in S : g[x] \in Int
    PROVE  SumOver(g, S) \in Int /\ SumOver(g, {}) = 0
<1>1. PICK F \in [SUBSET S -> Int] : FoldedBy(F, g, S)
  BY FoldsExist
<1>2. SumOver(g, S) = F[S] /\ SumOver(g, {}) = F[{}]
  BY <1>1, SumValue
<1>3. F[{}] = 0
  BY <1>1 DEF FoldedBy
<1> QED BY <1>1, <1>2, <1>3

\* A sum depends on the summands only.
LEMMA SumAgrees ==
    ASSUME NEW S, IsFiniteSet(S), NEW g, NEW h, \A x \in S : g[x] \in Int /\ h[x] = g[x]
    PROVE  SumOver(h, S) = SumOver(g, S)
<1>1. PICK F \in [SUBSET S -> Int] : FoldedBy(F, g, S)
  BY FoldsExist
<1>2. PICK G \in [SUBSET S -> Int] : FoldedBy(G, h, S)
  BY FoldsExist
<1>3. SumOver(g, S) = F[S] /\ SumOver(h, S) = G[S]
  BY <1>1, <1>2, SumValue
<1>4. S \in SUBSET S /\ SameOn(g, h, S)
  BY DEF SameOn
<1>5. F[S] = G[S]
  BY <1>1, <1>2, <1>4, FoldsAgree
<1> QED BY <1>3, <1>5

\* Any element may be taken out first.
LEMMA SumWithout ==
    ASSUME NEW S, IsFiniteSet(S), NEW g, \A x \in S : g[x] \in Int, NEW y \in S
    PROVE  SumOver(g, S) = g[y] + SumOver(g, S \ {y})
<1>1. PICK F \in [SUBSET S -> Int] : FoldedBy(F, g, S)
  BY FoldsExist
<1>2. \A s \in SUBSET S : s # {} => F[s] = g[Chosen(s)] + F[s \ {Chosen(s)}]
  BY <1>1 DEF FoldedBy
<1> DEFINE Wrong == {s \in SUBSET S : \E z \in s : F[s] # g[z] + F[s \ {z}]}
<1>3. Wrong = {}
  <2> SUFFICES ASSUME Wrong # {} PROVE FALSE
    OBVIOUS
  <2>1. PICK s \in Wrong : \A t \in Wrong : t \subseteq s => t = s
    <3>1. Wrong \in SUBSET (SUBSET S)
      OBVIOUS
    <3> HIDE DEF Wrong
    <3> QED BY <3>1, MinimalSubset
  <2>2. PICK z \in s : F[s] # g[z] + F[s \ {z}]
    OBVIOUS
  <2> DEFINE c == Chosen(s)
             t == s \ {c}
             u == s \ {z}
             both == (s \ {c}) \ {z}
  <2>3. c \in s /\ F[s] = g[c] + F[t]
    BY <1>2, <2>2, ChosenIn
  <2>4. z # c
    BY <2>2, <2>3
  <2>5. t \notin Wrong /\ u \notin Wrong
    BY <2>1, <2>2, <2>3
  <2>6. t \in SUBSET S /\ u \in SUBSET S /\ z \in t /\ c \in u /\ both \in SUBSET S
    BY <2>2, <2>3, <2>4
  <2>7. F[t] = g[z] + F[t \ {z}] /\ F[u] = g[c] + F[u \ {c}]
    BY <2>5, <2>6
  <2>8. t \ {z} = both /\ u \ {c} = both
    OBVIOUS
  <2>9. g[c] \in Int /\ g[z] \in Int /\ F[both] \in Int
    BY <1>1, <2>2, <2>3, <2>6
  <2>10. F[t] = g[z] + F[both] /\ F[u] = g[c] + F[both]
    BY <2>7, <2>8
  <2> HIDE DEF c, t, u, both
  <2>11. F[s] = g[z] + F[u]
    BY <2>3, <2>9, <2>10
  <2> QED BY <2>2, <2>11 DEF u
<1>4. F[S] = g[y] + F[S \ {y}]
  BY <1>3
<1>5. SumOver(g, S) = F[S] /\ SumOver(g, S \ {y}) = F[S \ {y}]
  BY <1>1, SumValue
<1> QED BY <1>4, <1>5

\* Natural numbers add up to one.
LEMMA SumType ==
    ASSUME NEW S, IsFiniteSet(S), NEW g, \A x \in S : g[x] \in Nat
    PROVE  SumOver(g, S) \in Nat /\ SumOver(g, {}) = 0
<1> DEFINE Wrong == {s \in SUBSET S : SumOver(g, s) \notin Nat}
<1>1. SumOver(g, {}) = 0
  BY SumIsInt
<1> SUFFICES ASSUME Wrong # {} PROVE FALSE
  BY <1>1
<1>2. PICK s \in Wrong : \A t \in Wrong : t \subseteq s => t = s
  <2>1. Wrong \in SUBSET (SUBSET S)
    OBVIOUS
  <2> HIDE DEF Wrong
  <2> QED BY <2>1, MinimalSubset
<1>3. IsFiniteSet(s) /\ s \in SUBSET S /\ SumOver(g, s) \notin Nat
  BY <1>2, FS_Subset
<1>4. PICK y : y \in s
  BY <1>1, <1>3
<1>5. SumOver(g, s) = g[y] + SumOver(g, s \ {y}) /\ g[y] \in Nat
  BY <1>3, <1>4, SumWithout
<1>6. SumOver(g, s \ {y}) \in Nat
  BY <1>2, <1>3, <1>4
<1> QED BY <1>3, <1>5, <1>6

\* A new element adds its own value.
LEMMA SumWith ==
    ASSUME NEW S, IsFiniteSet(S), NEW g, NEW y, y \notin S, \A x \in S \cup {y} : g[x] \in Int
    PROVE  SumOver(g, S \cup {y}) = g[y] + SumOver(g, S)
<1>1. IsFiniteSet(S \cup {y}) /\ y \in S \cup {y} /\ (S \cup {y}) \ {y} = S
  BY FS_AddElement
<1>2. SumOver(g, S \cup {y}) = g[y] + SumOver(g, (S \cup {y}) \ {y})
  BY <1>1, SumWithout
<1> QED BY <1>1, <1>2

\* Larger summands do not make a sum smaller.
LEMMA SumGrows ==
    ASSUME NEW S, IsFiniteSet(S), NEW g, NEW h,
           \A x \in S : g[x] \in Int /\ h[x] \in Int /\ g[x] <= h[x]
    PROVE  SumOver(g, S) <= SumOver(h, S)
<1> DEFINE Wrong == {s \in SUBSET S : ~ SumOver(g, s) <= SumOver(h, s)}
<1> SUFFICES ASSUME Wrong # {} PROVE FALSE
  OBVIOUS
<1>1. PICK s \in Wrong : \A t \in Wrong : t \subseteq s => t = s
  <2>1. Wrong \in SUBSET (SUBSET S)
    OBVIOUS
  <2> HIDE DEF Wrong
  <2> QED BY <2>1, MinimalSubset
<1>2. IsFiniteSet(s) /\ s \in SUBSET S /\ ~ SumOver(g, s) <= SumOver(h, s)
  BY <1>1, FS_Subset
<1>3. s # {}
  BY <1>2, SumIsInt, FS_EmptySet
<1>4. PICK y : y \in s
  BY <1>3
<1>5. IsFiniteSet(s \ {y}) /\ SumOver(g, s \ {y}) <= SumOver(h, s \ {y})
  BY <1>1, <1>2, <1>4, FS_RemoveElement
<1>6. /\ SumOver(g, s) = g[y] + SumOver(g, s \ {y}) /\ SumOver(h, s) = h[y] + SumOver(h, s \ {y})
  BY <1>2, <1>4, SumWithout
<1>7. SumOver(g, s \ {y}) \in Int /\ SumOver(h, s \ {y}) \in Int
  BY <1>2, <1>5, SumIsInt
<1> QED BY <1>2, <1>4, <1>5, <1>6, <1>7

\* A sum of larger summands that stayed the same has the same summands.
LEMMA SumKeeps ==
    ASSUME NEW S, IsFiniteSet(S), NEW g, NEW h,
           \A x \in S : g[x] \in Int /\ h[x] \in Int /\ g[x] <= h[x],
           SumOver(g, S) = SumOver(h, S), NEW y \in S
    PROVE  g[y] = h[y]
<1>1. IsFiniteSet(S \ {y})
  BY FS_RemoveElement
<1>2. SumOver(g, S) = g[y] + SumOver(g, S \ {y}) /\ SumOver(h, S) = h[y] + SumOver(h, S \ {y})
  BY SumWithout
<1>3. /\ SumOver(g, S \ {y}) \in Int /\ SumOver(h, S \ {y}) \in Int
      /\ SumOver(g, S \ {y}) <= SumOver(h, S \ {y})
  BY <1>1, SumIsInt, SumGrows
<1>4. g[y] \in Int /\ h[y] \in Int /\ g[y] <= h[y]
  OBVIOUS
<1> DEFINE a == SumOver(g, S \ {y})
           b == SumOver(h, S \ {y})
<1>5. g[y] + a = h[y] + b /\ a \in Int /\ b \in Int /\ a <= b
  BY <1>2, <1>3
<1> HIDE DEF a, b
<1> QED BY <1>4, <1>5

\* What counts as nothing can be left out.
LEMMA SumZeros ==
    ASSUME NEW S, IsFiniteSet(S), NEW g, \A x \in S : g[x] \in Int,
           NEW T \in SUBSET S, \A x \in S \ T : g[x] = 0
    PROVE  SumOver(g, S) = SumOver(g, T)
<1> DEFINE Wrong == {s \in SUBSET S : T \subseteq s /\ SumOver(g, s) # SumOver(g, T)}
<1> SUFFICES ASSUME Wrong # {} PROVE FALSE
  OBVIOUS
<1>1. PICK s \in Wrong : \A t \in Wrong : t \subseteq s => t = s
  <2>1. Wrong \in SUBSET (SUBSET S)
    OBVIOUS
  <2> HIDE DEF Wrong
  <2> QED BY <2>1, MinimalSubset
<1>2. IsFiniteSet(s) /\ s \in SUBSET S /\ T \subseteq s /\ SumOver(g, s) # SumOver(g, T)
  BY <1>1, FS_Subset
<1>3. PICK y : y \in s /\ y \notin T
  BY <1>2
<1>4. SumOver(g, s \ {y}) = SumOver(g, T)
  BY <1>1, <1>2, <1>3
<1>5. SumOver(g, s) = g[y] + SumOver(g, s \ {y}) /\ g[y] = 0
  BY <1>2, <1>3, SumWithout
<1>6. SumOver(g, s \ {y}) \in Int
  BY <1>2, FS_RemoveElement, SumIsInt
<1> QED BY <1>2, <1>4, <1>5, <1>6

\* A sum is that of a part and of the rest.
LEMMA SumParts ==
    ASSUME NEW S, IsFiniteSet(S), NEW g, \A x \in S : g[x] \in Int, NEW T \in SUBSET S
    PROVE  SumOver(g, S) = SumOver(g, T) + SumOver(g, S \ T)
<1> DEFINE Wrong == {s \in SUBSET S : SumOver(g, S) # SumOver(g, s) + SumOver(g, S \ s)}
<1> SUFFICES ASSUME Wrong # {} PROVE FALSE
  OBVIOUS
<1>1. PICK s \in Wrong : \A t \in Wrong : t \subseteq s => t = s
  <2>1. Wrong \in SUBSET (SUBSET S)
    OBVIOUS
  <2> HIDE DEF Wrong
  <2> QED BY <2>1, MinimalSubset
<1>2. s \in SUBSET S /\ SumOver(g, S) # SumOver(g, s) + SumOver(g, S \ s)
  BY <1>1
<1>3. s # {}
  <2>1. S \ {} = S /\ SumOver(g, {}) = 0 /\ SumOver(g, S) \in Int
    BY SumIsInt
  <2>2. SumOver(g, S) = SumOver(g, {}) + SumOver(g, S)
    BY <2>1
  <2> HIDE DEF Wrong
  <2> QED BY <1>2, <2>1, <2>2
<1>4. PICK y : y \in s
  BY <1>3
<1> DEFINE t == s \ {y}
           u == S \ s
<1>5. t \in SUBSET S /\ t # s /\ t \subseteq s /\ S \ t = u \cup {y} /\ y \notin u /\ g[y] \in Int
  BY <1>2, <1>4
<1>6. SumOver(g, S) = SumOver(g, t) + SumOver(g, S \ t)
  BY <1>1, <1>5
<1>7. IsFiniteSet(s) /\ IsFiniteSet(t) /\ IsFiniteSet(u)
  BY <1>2, <1>5, FS_Subset
<1>8. SumOver(g, s) = g[y] + SumOver(g, t)
  BY <1>2, <1>4, <1>7, SumWithout
<1>9. SumOver(g, u \cup {y}) = g[y] + SumOver(g, u)
  <2>1. \A x \in u \cup {y} : g[x] \in Int
    BY <1>5
  <2> HIDE DEF u
  <2> QED BY <1>5, <1>7, <2>1, SumWith
<1>10. SumOver(g, t) \in Int /\ SumOver(g, u) \in Int
  <2>1. (\A x \in t : g[x] \in Int) /\ \A x \in u : g[x] \in Int
    BY <1>5
  <2> HIDE DEF t, u
  <2> QED BY <1>7, <2>1, SumIsInt
<1> HIDE DEF t, Wrong
<1>11. SumOver(g, S \ t) = g[y] + SumOver(g, u)
  BY <1>5, <1>9
<1>12. SumOver(g, S) = SumOver(g, s) + SumOver(g, u)
  <2> HIDE DEF u
  <2> QED BY <1>5, <1>6, <1>8, <1>10, <1>11
<1> QED BY <1>2, <1>12

\* A part of natural numbers adds up to no more than the whole.
LEMMA SumOfPart ==
    ASSUME NEW S, IsFiniteSet(S), NEW g, \A x \in S : g[x] \in Nat, NEW T \in SUBSET S
    PROVE  SumOver(g, T) <= SumOver(g, S)
<1>1. IsFiniteSet(T) /\ IsFiniteSet(S \ T)
  BY FS_Subset
<1>2. SumOver(g, T) \in Nat /\ SumOver(g, S \ T) \in Nat
  BY <1>1, SumType
<1>3. SumOver(g, S) = SumOver(g, T) + SumOver(g, S \ T)
  BY SumParts
<1> QED BY <1>2, <1>3
=============================================================================
