-------------------------- MODULE AmountCompleteness --------------------------
(***************************************************************************)
(* The proof about AmountProofs: what the client proves the contracts       *)
(* accept, and it proves exactly what is true, for every prime order, every *)
(* width that is a power of two and has fewer amounts than the order, and   *)
(* all amounts, openings, secrets and answers of the transcript but 0.      *)
(*                                                                          *)
(* The invariant (ProofInv, at the end) says stage by stage that the        *)
(* prover's memory is one from which the verifier will compute the same.    *)
(*   - "polynomial": A commits to the bits of the amount, the transcript    *)
(*     holds the challenges that were answered (AtPolynomial);              *)
(*   - "inner": both equations of the verifier hold of what was computed    *)
(*     (AtInner);                                                           *)
(*   - "fold": after r rounds the folded vectors commit to the point that   *)
(*     the verifier makes of the published ones, and generator i is in      *)
(*     element Place(i, n) of the folded ones with the product of its       *)
(*     challenges, ScaleOfG and ScaleOfH (AtFold, Folded).  With one        *)
(*     element left the scale is the weight that the contract computes from *)
(*     the challenges in its own order, Weight.                             *)
(* What was refused was false.                                              *)
(*                                                                          *)
(* The parts: scalars modulo the order, sums, points as combinations of     *)
(* independent generators, products and powers, the bits of an amount, the  *)
(* scale of a generator, the two equations, a round, the record of the      *)
(* prover, the transcript, then the steps.                                  *)
(***************************************************************************)
EXTENDS AmountProofs, SumProofs, SequenceTheorems, TLAPS

\* Modulo the order, a and b are the same scalar.
Same(a, b) == (a % Order) = (b % Order)

\* The group's order, a number over 1.
LEMMA OrderIs == Order \in Nat /\ Order >= 2
BY ProofAssumption

\* Division with remainder.
LEMMA Remainder ==
    ASSUME NEW a \in Int
    PROVE  a % Order \in 0..(Order - 1) /\ \E k \in Int : a = k * Order + (a % Order)
<1>1. a % Order \in 0..(Order - 1)
  BY OrderIs
<1>2. a = (a \div Order) * Order + (a % Order) /\ a \div Order \in Int
  BY OrderIs
<1> QED BY <1>1, <1>2

\* The same scalar: numbers that a multiple of the order tells apart.
LEMMA SameIff ==
    ASSUME NEW a \in Int, NEW b \in Int
    PROVE  Same(a, b) <=> \E k \in Int : a = b + k * Order
<1>1. ASSUME Same(a, b) PROVE \E k \in Int : a = b + k * Order
  <2>1. PICK k \in Int : a = k * Order + (a % Order)
    BY Remainder
  <2>2. PICK l \in Int : b = l * Order + (b % Order)
    BY Remainder
  <2>3. (a % Order) = (b % Order) /\ a % Order \in Int
    BY <1>1, Remainder DEF Same
  <2>4. a = b + (k - l) * Order
    <3>1. (k - l) * Order = k * Order - l * Order
      BY OrderIs
    <3> QED BY <2>1, <2>2, <2>3, <3>1, OrderIs
  <2> QED BY <2>4
<1>2. ASSUME NEW k \in Int, a = b + k * Order PROVE Same(a, b)
  <2>1. PICK l \in Int : a = l * Order + (a % Order)
    BY Remainder
  <2>2. PICK m \in Int : b = m * Order + (b % Order)
    BY Remainder
  <2>3. PICK r, s : r = a % Order /\ s = b % Order
    OBVIOUS
  <2>4. r \in 0..(Order - 1) /\ s \in 0..(Order - 1)
    BY <2>3, Remainder
  <2>5. PICK d \in Int : d = m + k - l
    OBVIOUS
  <2>6. d * Order = m * Order + k * Order - l * Order
    BY <2>5, OrderIs
  <2>7. r - s = d * Order
    <3>1. k * Order \in Int /\ l * Order \in Int /\ m * Order \in Int
      BY OrderIs
    <3>2. PICK K \in Int, L \in Int, N \in Int : K = k * Order /\ L = l * Order /\ N = m * Order
      BY <3>1
    <3>3. a = b + K /\ a = L + r /\ b = N + s /\ d * Order = N + K - L
      BY <1>2, <2>1, <2>2, <2>3, <2>6, <3>2
    <3>4. r - s = N + K - L
      BY <2>4, <3>3
    <3> QED BY <3>3, <3>4
  <2>8. d = 0
    <3>1. d >= 1 => d * Order >= Order
      BY OrderIs
    <3>2. d <= -1 => d * Order <= -Order
      BY OrderIs
    <3> QED BY <2>4, <2>7, <3>1, <3>2, OrderIs
  <2>9. r = s
    BY <2>4, <2>7, <2>8, OrderIs
  <2> QED BY <2>3, <2>9 DEF Same
<1> QED BY <1>1, <1>2

\* Scalars are added and multiplied by their remainders.
LEMMA SameSum ==
    ASSUME NEW a \in Int, NEW b \in Int, NEW c \in Int, NEW d \in Int, Same(a, b), Same(c, d)
    PROVE  Same(a + c, b + d)
<1>1. PICK k \in Int : a = b + k * Order
  BY SameIff
<1>2. PICK l \in Int : c = d + l * Order
  BY SameIff
<1>3. (k + l) * Order = k * Order + l * Order
  BY OrderIs
<1>4. a + c = (b + d) + (k + l) * Order
  BY <1>1, <1>2, <1>3, OrderIs
<1> QED BY <1>4, SameIff

\* Times one number, the same scalars give the same.
LEMMA SameTimes ==
    ASSUME NEW a \in Int, NEW b \in Int, NEW c \in Int, Same(a, b)
    PROVE  Same(a * c, b * c)
<1>1. PICK k \in Int : a = b + k * Order
  BY SameIff
<1>2. (b + k * Order) * c = b * c + (k * c) * Order
  BY OrderIs
<1>3. a * c = b * c + (k * c) * Order
  BY <1>1, <1>2
<1> QED BY <1>3, SameIff

\* A number and its remainder are the same scalar.
LEMMA SameRest ==
    ASSUME NEW a \in Int
    PROVE  a % Order \in Int /\ Same(a % Order, a)
<1>1. PICK k \in Int : a = k * Order + (a % Order)
  BY Remainder
<1>2. a % Order \in Int /\ a = (a % Order) + k * Order
  BY <1>1, Remainder, OrderIs
<1> QED BY <1>2, SameIff DEF Same

\* Being the same scalar is an equivalence.
LEMMA SameSteps ==
    ASSUME NEW a \in Int, NEW b \in Int, NEW c \in Int
    PROVE  /\ Same(a, a) /\ (Same(a, b) => Same(b, a))
           /\ Same(a, b) /\ Same(b, c) => Same(a, c)
BY DEF Same

\* Products of the same scalars are the same.
LEMMA SameProduct ==
    ASSUME NEW a \in Int, NEW b \in Int, NEW c \in Int, NEW d \in Int, Same(a, b), Same(c, d)
    PROVE  Same(a * c, b * d)
<1>1. Same(a * c, b * c)
  BY SameTimes
<1>2. Same(c * b, d * b)
  BY SameTimes
<1>3. c * b = b * c /\ d * b = b * d /\ a * c \in Int
  OBVIOUS
<1> QED BY <1>1, <1>2, <1>3 DEF Same

\* Remainders are equal when the scalars are the same.
LEMMA SameRests ==
    ASSUME NEW a \in Int
    PROVE  /\ a % Order \in 0..(Order - 1)
           /\ a \in 0..(Order - 1) => a % Order = a
           /\ (a % Order = 0) <=> Same(a, 0)
<1>1. a % Order \in 0..(Order - 1) /\ (a \in 0..(Order - 1) => a % Order = a) /\ 0 % Order = 0
  BY OrderIs
<1> QED BY <1>1 DEF Same

-----------------------------------------------------------------------------
\* What holds at 0 and is passed on holds up to n.
LEMMA UpTo ==
    ASSUME NEW n \in Nat, NEW T, 0 \in T, \A k \in 0..(n - 1) : k \in T => k + 1 \in T
    PROVE  \A k \in 0..n : k \in T
<1> DEFINE Not == {k \in 0..n : k \notin T}
<1> SUFFICES ASSUME Not # {} PROVE FALSE
  OBVIOUS
<1>1. PICK k \in Not : \A j \in Not : k <= j
  <2>1. Not \in SUBSET (0..n)
    OBVIOUS
  <2> HIDE DEF Not
  <2> QED BY <2>1, LeastNumber
<1>2. k \in 0..n /\ k \notin T
  BY <1>1
<1>3. k # 0
  BY <1>2
<1>4. k - 1 \in 0..(n - 1) /\ k - 1 \in 0..n /\ ~ (k <= k - 1) /\ (k - 1) + 1 = k
  BY <1>2, <1>3
<1>5. k - 1 \notin Not
  BY <1>1, <1>4
<1>6. k - 1 \in T
  BY <1>4, <1>5
<1> QED BY <1>2, <1>4, <1>6

\* The group's order is a prime: what is not 0 has an inverse.
LEMMA Inverses ==
    ASSUME NEW k \in Int, ~ Same(k, 0)
    PROVE  Inv(k) \in 1..(Order - 1) /\ Same(k * Inv(k), 1) /\ ~ Same(Inv(k), 0)
<1> DEFINE Multiple(l) == (k * l) % Order
           Multiples == {m \in 1..(Order - 1) : \E l \in Int : Same(k * l, m)}
<1>1. \A l \in Int : k * l \in Int
  OBVIOUS
<1>2. k % Order \in Multiples
  <2>1. k % Order \in 1..(Order - 1)
    BY SameRests, OrderIs
  <2>2. k * 1 = k /\ Same(k % Order, k) /\ k % Order \in Int
    BY SameRest
  <2>3. Same(k * 1, k % Order)
    BY <2>2 DEF Same
  <2> QED BY <2>1, <2>3
<1>3. PICK m \in Multiples : \A j \in Multiples : m <= j
  <2>1. Order - 1 \in Nat /\ Multiples \in SUBSET (0..(Order - 1)) /\ Multiples # {}
    <3>1. Order - 1 \in Nat /\ 1..(Order - 1) \subseteq 0..(Order - 1)
      BY OrderIs
    <3>2. Multiples \subseteq 1..(Order - 1)
      OBVIOUS
    <3> HIDE DEF Multiples
    <3> QED BY <1>2, <3>1, <3>2
  <2> HIDE DEF Multiples
  <2> QED BY <2>1, LeastNumber
<1>4. PICK l \in Int : Same(k * l, m)
  BY <1>3
<1>5. m \in 1..(Order - 1)
  BY <1>3
\* The least multiple divides the order.
<1>6. Order % m = 0
  <2> DEFINE q == Order \div m
             r == Order % m
  <2>1. q \in Int /\ r \in 0..(m - 1) /\ Order = q * m + r
    BY <1>5, OrderIs
  <2> HIDE DEF q, r
  <2> SUFFICES ASSUME r # 0 PROVE FALSE
    BY DEF r
  <2>2. r = (-q) * m + 1 * Order
    BY <1>5, <2>1, OrderIs
  <2>3. Same(r, (-q) * m)
    <3>1. r \in Int /\ (-q) * m \in Int
      BY <1>5, <2>1
    <3> QED BY <2>2, <3>1, SameIff
  <2>4. Same((-q) * m, k * ((-q) * l))
    <3>1. Same(m, k * l)
      BY <1>4 DEF Same
    <3>2. m \in Int /\ k * l \in Int /\ -q \in Int
      BY <1>5, <2>1
    <3>3. Same(m * (-q), (k * l) * (-q))
      BY <3>1, <3>2, SameTimes
    <3>4. m * (-q) = (-q) * m /\ (k * l) * (-q) = k * ((-q) * l)
      BY <2>1, <3>2
    <3> QED BY <3>3, <3>4
  <2>5. r \in Multiples
    <3>1. Same(k * ((-q) * l), r) /\ (-q) * l \in Int
      BY <2>1, <2>3, <2>4 DEF Same
    <3>2. r \in 1..(Order - 1)
      BY <1>5, <2>1
    <3> QED BY <3>1, <3>2
  <2> QED BY <1>3, <1>5, <2>1, <2>5
<1>7. m = 1
  BY <1>5, <1>6, ProofAssumption
<1>8. \E j \in 1..(Order - 1) : (k * j) % Order = 1
  <2> DEFINE j == l % Order
  <2>1. j \in 0..(Order - 1) /\ Same(j, l)
    BY SameRest, SameRests
  <2>2. Same(j * k, l * k)
    <3>1. j \in Int
      BY <2>1
    <3> HIDE DEF j
    <3> QED BY <2>1, <3>1, SameTimes
  <2>3. j * k = k * j /\ l * k = k * l
    BY <2>1
  <2>4. Same(k * j, 1)
    BY <1>4, <1>7, <2>2, <2>3 DEF Same
  <2>5. 1 % Order = 1
    BY OrderIs
  <2>6. (k * j) % Order = 1
    BY <2>4, <2>5 DEF Same
  <2>7. j # 0
    BY <2>6, OrderIs
  <2> QED BY <2>1, <2>6, <2>7
<1>9. Inv(k) \in 1..(Order - 1) /\ (k * Inv(k)) % Order = 1
  BY <1>8 DEF Inv
<1>10. 1 % Order = 1 /\ Inv(k) % Order = Inv(k) /\ 0 % Order = 0 /\ Inv(k) # 0
  BY <1>9, OrderIs
<1> QED BY <1>9, <1>10 DEF Same

\* A product is 0 only if a factor is.
LEMMA NoZeroDivisors ==
    ASSUME NEW k \in Int, NEW l \in Int, ~ Same(k, 0), ~ Same(l, 0)
    PROVE  ~ Same(k * l, 0)
<1> SUFFICES ASSUME Same(k * l, 0) PROVE FALSE
  OBVIOUS
<1>1. Inv(k) \in Int /\ Same(k * Inv(k), 1)
  BY Inverses, OrderIs
<1> DEFINE i == Inv(k)
<1> HIDE DEF i
<1>2. i \in Int /\ Same(k * i, 1)
  BY <1>1 DEF i
<1>6. k * l \in Int /\ k * i \in Int /\ 0 \in Int /\ 1 \in Int
  BY <1>2
<1>3. Same((k * l) * i, 0 * i)
  BY <1>2, <1>6, SameTimes, Zenon
<1>4. Same((k * i) * l, 1 * l)
  BY <1>2, <1>6, SameTimes, Zenon
<1>5. (k * l) * i = (k * i) * l /\ 0 * i = 0 /\ 1 * l = l
  BY <1>2
<1> QED BY <1>3, <1>4, <1>5 DEF Same

-----------------------------------------------------------------------------
\* The sum of the first n values of f, which are integers.
Total(f, n) == SumOver(f, 1..n)
Ints(f, n) == \A i \in 1..n : f[i] \in Int

\* A sum over a sequence is that of its front and its last element.
LEMMA TotalStep ==
    ASSUME NEW n \in Nat, NEW f, Ints(f, n + 1)
    PROVE  Total(f, n + 1) = f[n + 1] + Total(f, n) /\ Total(f, n) \in Int /\ f[n + 1] \in Int
<1>1. PICK S : S = 1..n
  OBVIOUS
<1>2. IsFiniteSet(S) /\ n + 1 \notin S /\ S \cup {n + 1} = 1..(n + 1)
  <2>1. IsFiniteSet(1..n)
    BY FS_Interval
  <2>2. n + 1 \notin S /\ S \cup {n + 1} = 1..(n + 1)
    BY <1>1
  <2> QED BY <1>1, <2>1, <2>2
<1>3. \A x \in S \cup {n + 1} : f[x] \in Int
  BY <1>2 DEF Ints
<1>4. SumOver(f, S \cup {n + 1}) = f[n + 1] + SumOver(f, S)
  BY <1>2, <1>3, SumWith
<1>5. SumOver(f, S) \in Int
  BY <1>2, <1>3, SumIsInt
<1> QED BY <1>1, <1>2, <1>3, <1>4, <1>5 DEF Total

\* The empty sum.
LEMMA TotalNone ==
    ASSUME NEW f
    PROVE  Total(f, 0) = 0
<1>1. IsFiniteSet({}) /\ 1..0 = {}
  BY FS_EmptySet
<1> QED BY <1>1, SumIsInt DEF Total

\* A sum of integers is one.
LEMMA TotalType ==
    ASSUME NEW n \in Nat, NEW f, Ints(f, n)
    PROVE  Total(f, n) \in Int
<1>1. IsFiniteSet(1..n)
  BY FS_Interval
<1> QED BY <1>1, SumIsInt DEF Total, Ints

\* Sums of up to six numbers, written out: those of the two equations.
LEMMA TotalOfFew ==
    ASSUME NEW f
    PROVE  /\ Ints(f, 1) => Total(f, 1) = f[1]
           /\ Ints(f, 2) => Total(f, 2) = f[1] + f[2]
           /\ Ints(f, 3) => Total(f, 3) = f[1] + f[2] + f[3]
           /\ Ints(f, 4) => Total(f, 4) = f[1] + f[2] + f[3] + f[4]
           /\ Ints(f, 6) => Total(f, 6) = f[1] + f[2] + f[3] + f[4] + f[5] + f[6]
<1>1. ASSUME NEW n \in Nat, Ints(f, n + 1)
      PROVE  /\ Ints(f, n) /\ Total(f, n + 1) = f[n + 1] + Total(f, n)
             /\ Total(f, n) \in Int /\ f[n + 1] \in Int
  BY <1>1, TotalStep DEF Ints
<1>2. Ints(f, 1) => Total(f, 1) = f[1] /\ f[1] \in Int
  <2>1. 0 + 1 = 1 /\ 0 \in Nat
    OBVIOUS
  <2> QED BY <1>1, <2>1, TotalNone
<1>3. Ints(f, 2) => Ints(f, 1) /\ Total(f, 2) = f[1] + f[2] /\ f[2] \in Int
  <2>1. 1 + 1 = 2 /\ 1 \in Nat
    OBVIOUS
  <2> QED BY <1>1, <1>2, <2>1
<1>4. Ints(f, 3) => Ints(f, 2) /\ Total(f, 3) = f[1] + f[2] + f[3] /\ f[3] \in Int
  <2>1. 2 + 1 = 3 /\ 2 \in Nat
    OBVIOUS
  <2> QED BY <1>1, <1>2, <1>3, <2>1
<1>5. Ints(f, 4) => Ints(f, 3) /\ Total(f, 4) = f[1] + f[2] + f[3] + f[4] /\ f[4] \in Int
  <2>1. 3 + 1 = 4 /\ 3 \in Nat
    OBVIOUS
  <2> QED BY <1>1, <1>2, <1>3, <1>4, <2>1
<1>6. Ints(f, 5) => Ints(f, 4) /\ Total(f, 5) = f[1] + f[2] + f[3] + f[4] + f[5] /\ f[5] \in Int
  <2>1. 4 + 1 = 5 /\ 4 \in Nat
    OBVIOUS
  <2> QED BY <1>1, <1>2, <1>3, <1>4, <1>5, <2>1
<1>7. Ints(f, 6) => Total(f, 6) = f[1] + f[2] + f[3] + f[4] + f[5] + f[6]
  <2>1. 5 + 1 = 6 /\ 5 \in Nat
    OBVIOUS
  <2> QED BY <1>1, <1>2, <1>3, <1>4, <1>5, <1>6, <2>1
<1> QED BY <1>2, <1>3, <1>4, <1>5, <1>7

\* Sums of sums, of multiples and of the same scalars.
LEMMA TotalPlus ==
    ASSUME NEW n \in Nat, NEW f, NEW g, NEW h, Ints(f, n), Ints(g, n),
           \A i \in 1..n : h[i] = f[i] + g[i]
    PROVE  Ints(h, n) /\ Total(h, n) = Total(f, n) + Total(g, n)
<1> DEFINE T == {k \in 0..n : Total(h, k) = Total(f, k) + Total(g, k)}
<1>1. Ints(h, n)
  BY DEF Ints
<1>2. 0 \in T
  BY TotalNone
<1>3. ASSUME NEW k \in 0..(n - 1), k \in T PROVE k + 1 \in T
  <2>1. k \in Nat /\ k + 1 \in 0..n /\ k + 1 \in 1..n
    BY <1>3
  <2>2. Ints(f, k + 1) /\ Ints(g, k + 1) /\ Ints(h, k + 1)
    BY <1>1, <1>3 DEF Ints
  <2>3. /\ Total(f, k + 1) = f[k + 1] + Total(f, k) /\ Total(f, k) \in Int /\ f[k + 1] \in Int
        /\ Total(g, k + 1) = g[k + 1] + Total(g, k) /\ Total(g, k) \in Int /\ g[k + 1] \in Int
        /\ Total(h, k + 1) = h[k + 1] + Total(h, k)
    BY <2>1, <2>2, TotalStep
  <2>4. h[k + 1] = f[k + 1] + g[k + 1] /\ Total(h, k) = Total(f, k) + Total(g, k)
    BY <1>3, <2>1
  <2>5. Total(h, k + 1) = Total(f, k + 1) + Total(g, k + 1)
    BY <2>3, <2>4
  <2> QED BY <2>1, <2>5
<1> HIDE DEF T
<1>4. \A k \in 0..n : k \in T
  BY <1>2, <1>3, UpTo
<1>5. n \in T
  BY <1>4
<1> QED BY <1>1, <1>5 DEF T

\* A common factor is taken out of a sum.
LEMMA TotalScaled ==
    ASSUME NEW n \in Nat, NEW f, NEW h, NEW c \in Int, Ints(f, n),
           \A i \in 1..n : h[i] = c * f[i]
    PROVE  Ints(h, n) /\ Total(h, n) = c * Total(f, n)
<1> DEFINE T == {k \in 0..n : Total(h, k) = c * Total(f, k)}
<1>1. Ints(h, n)
  BY DEF Ints
<1>2. 0 \in T
  BY TotalNone
<1>3. ASSUME NEW k \in 0..(n - 1), k \in T PROVE k + 1 \in T
  <2>1. k \in Nat /\ k + 1 \in 0..n /\ k + 1 \in 1..n
    BY <1>3
  <2>2. Ints(f, k + 1) /\ Ints(h, k + 1)
    BY <1>1, <1>3 DEF Ints
  <2>3. /\ Total(f, k + 1) = f[k + 1] + Total(f, k) /\ Total(f, k) \in Int /\ f[k + 1] \in Int
        /\ Total(h, k + 1) = h[k + 1] + Total(h, k)
    BY <2>1, <2>2, TotalStep
  <2>4. h[k + 1] = c * f[k + 1] /\ Total(h, k) = c * Total(f, k)
    BY <1>3, <2>1
  <2>5. PICK a \in Int, b \in Int : a = f[k + 1] /\ b = Total(f, k)
    BY <2>3
  <2>6. c * (a + b) = c * a + c * b
    OBVIOUS
  <2>7. Total(h, k + 1) = c * Total(f, k + 1)
    BY <2>3, <2>4, <2>5, <2>6
  <2> QED BY <2>1, <2>7
<1> HIDE DEF T
<1>4. \A k \in 0..n : k \in T
  BY <1>2, <1>3, UpTo
<1>5. n \in T
  BY <1>4
<1> QED BY <1>1, <1>5 DEF T

\* Sums of the same scalars are the same.
LEMMA TotalSame ==
    ASSUME NEW n \in Nat, NEW f, NEW g, Ints(f, n), Ints(g, n), \A i \in 1..n : Same(f[i], g[i])
    PROVE  Same(Total(f, n), Total(g, n))
<1> DEFINE T == {k \in 0..n : Same(Total(f, k), Total(g, k))}
<1>2. 0 \in T
  BY TotalNone DEF Same
<1>3. ASSUME NEW k \in 0..(n - 1), k \in T PROVE k + 1 \in T
  <2>1. k \in Nat /\ k + 1 \in 0..n /\ k + 1 \in 1..n
    BY <1>3
  <2>2. Ints(f, k + 1) /\ Ints(g, k + 1)
    BY <1>3 DEF Ints
  <2>3. /\ Total(f, k + 1) = f[k + 1] + Total(f, k) /\ Total(f, k) \in Int /\ f[k + 1] \in Int
        /\ Total(g, k + 1) = g[k + 1] + Total(g, k) /\ Total(g, k) \in Int /\ g[k + 1] \in Int
    BY <2>1, <2>2, TotalStep
  <2>4. Same(f[k + 1], g[k + 1]) /\ Same(Total(f, k), Total(g, k))
    BY <1>3, <2>1
  <2>5. Same(f[k + 1] + Total(f, k), g[k + 1] + Total(g, k))
    BY <2>3, <2>4, SameSum
  <2>6. Same(Total(f, k + 1), Total(g, k + 1))
    BY <2>3, <2>5
  <2> QED BY <2>1, <2>6
<1> HIDE DEF T
<1>4. \A k \in 0..n : k \in T
  BY <1>2, <1>3, UpTo
<1>5. n \in T
  BY <1>4
<1> QED BY <1>5 DEF T

\* A sum depends on the values summed alone.
LEMMA TotalAgrees ==
    ASSUME NEW n \in Nat, NEW f, NEW g, Ints(f, n), \A i \in 1..n : g[i] = f[i]
    PROVE  Total(g, n) = Total(f, n)
<1>1. IsFiniteSet(1..n)
  BY FS_Interval
<1>2. \A i \in 1..n : f[i] \in Int /\ g[i] = f[i]
  BY DEF Ints
<1> QED BY <1>1, <1>2, SumAgrees DEF Total

\* A sum where only one summand is more than a multiple of the order.
LEMMA TotalOnly ==
    ASSUME NEW n \in Nat, NEW f, Ints(f, n), NEW j \in 1..n, \A i \in 1..n : i # j => Same(f[i], 0)
    PROVE  Same(Total(f, n), f[j])
<1> DEFINE g == [i \in 1..n |-> IF i = j THEN f[j] ELSE 0]
<1>1. Ints(g, n) /\ f[j] \in Int
  BY DEF Ints
<1>2. Same(Total(f, n), Total(g, n))
  <2>1. \A i \in 1..n : Same(f[i], g[i])
    BY DEF Same
  <2> HIDE DEF g
  <2> QED BY <1>1, <2>1, TotalSame
<1>3. Total(g, n) = f[j]
  <2>1. PICK S, R : S = 1..n /\ R = {j}
    OBVIOUS
  <2>2. IsFiniteSet(S) /\ IsFiniteSet(R) /\ j \in R
    <3>1. IsFiniteSet(1..n)
      BY FS_Interval
    <3>2. IsFiniteSet({j})
      BY FS_Singleton
    <3> QED BY <2>1, <3>1, <3>2
  <2>3. R \in SUBSET S /\ (\A i \in S : g[i] \in Int) /\ \A i \in S \ R : g[i] = 0
    BY <1>1, <2>1
  <2>4. g[j] = f[j] /\ R \ {j} = {}
    BY <2>1
  <2> HIDE DEF g
  <2>5. SumOver(g, S) = SumOver(g, R)
    BY <2>2, <2>3, SumZeros
  <2>6. \A i \in R : g[i] \in Int
    BY <2>3
  <2>7. SumOver(g, R) = g[j] + SumOver(g, R \ {j})
    BY <2>2, <2>6, SumWithout
  <2>8. SumOver(g, {}) = 0
    BY <2>2, <2>6, SumIsInt
  <2>9. SumOver(g, R) = f[j] + 0 /\ f[j] + 0 = f[j]
    BY <1>1, <2>4, <2>7, <2>8
  <2>10. Total(g, n) = SumOver(g, S)
    BY <2>1 DEF Total
  <2> QED BY <2>5, <2>9, <2>10
<1> HIDE DEF g
<1> QED BY <1>2, <1>3

\* A sum is the sum of its halves.
LEMMA TotalHalves ==
    ASSUME NEW m \in Nat, NEW n \in Nat, NEW f, Ints(f, m + n), NEW h, \A i \in 1..n : h[i] = f[m + i]
    PROVE  Ints(f, m) /\ Ints(h, n) /\ Total(f, m + n) = Total(f, m) + Total(h, n)
<1> DEFINE T == {k \in 0..n : Total(f, m + k) = Total(f, m) + Total(h, k)}
<1>1. Ints(f, m)
  BY DEF Ints
<1>2. Ints(h, n)
  BY DEF Ints
<1>3. Total(f, m) \in Int
  BY <1>1, TotalType
<1>4. 0 \in T
  BY <1>3, TotalNone
<1>5. ASSUME NEW k \in 0..(n - 1), k \in T PROVE k + 1 \in T
  <2>1. k \in Nat /\ k + 1 \in 0..n /\ k + 1 \in 1..n /\ m + k \in Nat /\ m + (k + 1) = (m + k) + 1
    BY <1>5
  <2>2. Ints(f, (m + k) + 1) /\ Ints(h, k + 1)
    BY <1>2, <1>5 DEF Ints
  <2>3. /\ Total(f, (m + k) + 1) = f[(m + k) + 1] + Total(f, m + k) /\ Total(f, m + k) \in Int
        /\ f[(m + k) + 1] \in Int
        /\ Total(h, k + 1) = h[k + 1] + Total(h, k) /\ Total(h, k) \in Int
    BY <2>1, <2>2, TotalStep
  <2>4. h[k + 1] = f[(m + k) + 1] /\ Total(f, m + k) = Total(f, m) + Total(h, k)
    BY <1>5, <2>1
  <2>5. Total(f, m + (k + 1)) = Total(f, m) + Total(h, k + 1)
    BY <1>3, <2>1, <2>3, <2>4
  <2> QED BY <2>1, <2>5
<1> HIDE DEF T
<1>6. \A k \in 0..n : k \in T
  BY <1>4, <1>5, UpTo
<1>7. n \in T
  BY <1>6
<1> QED BY <1>1, <1>2, <1>7 DEF T

-----------------------------------------------------------------------------
\* Points, and combinations of generators before their coefficients are reduced.
Residue == 0..(Order - 1)
Points == [Generator -> Residue]
Combinations == [Generator -> Int]

\* The products of two vectors' elements.
Products(h, v, w, n) == \A i \in 1..n : h[i] = v[i] * w[i]

\* A point is a combination of the generators.
LEMMA PointsCombine == Points \subseteq Combinations /\ Residue \subseteq Int
<1>1. Residue \subseteq Int
  BY OrderIs DEF Residue
<1> QED BY <1>1 DEF Points, Combinations

\* Points with the same coefficients are equal.
LEMMA SamePoints ==
    ASSUME NEW p \in Points, NEW q \in Points, \A b \in Generator : Same(p[b], q[b])
    PROVE  p = q
<1>1. \A b \in Generator : p[b] \in Residue /\ q[b] \in Residue
  BY DEF Points
<1>2. \A b \in Generator : p[b] = q[b]
  BY <1>1, OrderIs, SameRests DEF Same, Residue
<1> QED BY <1>2 DEF Points

\* The inner product that prover and verifier take, as a sum.
LEMMA DotIs ==
    ASSUME NEW n \in Nat, NEW v, DOMAIN v = 1..n, NEW w, NEW h, Products(h, v, w, n), Ints(h, n)
    PROVE  /\ Dot(v, w) = Total(h, n) % Order /\ Dot(v, w) \in Residue /\ Total(h, n) \in Int
           /\ Dot(v, w) \in Int /\ Same(Dot(v, w), Total(h, n))
<1> DEFINE f == [i \in DOMAIN v |-> v[i] * w[i]]
<1>1. Dot(v, w) = FoldFunction(+, 0, f) % Order
  BY DEF Dot
<1>2. FoldFunction(+, 0, f) = SumOver(f, DOMAIN f)
  BY DEF FoldFunction, FoldFunctionOnSet, MapThenFoldSet, SumOver, MapThenSumSet
<1>3. DOMAIN f = 1..n /\ \A i \in 1..n : f[i] = h[i]
  BY DEF Products
<1> HIDE DEF f
<1>4. Total(f, n) = Total(h, n)
  BY <1>3, TotalAgrees
<1>5. Dot(v, w) = Total(h, n) % Order
  BY <1>1, <1>2, <1>3, <1>4 DEF Total
<1>6. Total(h, n) \in Int
  BY TotalType
<1> QED BY <1>5, <1>6, SameRest, SameRests DEF Residue

\* A multi-exponentiation, one generator at a time.
LEMMA MultiIs ==
    ASSUME NEW n \in Nat, NEW points \in [1..n -> Combinations], NEW v \in [1..n -> Int]
    PROVE  /\ Multi(points, v) \in Points
           /\ \A b \in Generator : \A h :
                  (\A i \in 1..n : h[i] = points[i][b] * v[i]) =>
                      /\ Ints(h, n) /\ Total(h, n) \in Int
                      /\ Multi(points, v)[b] \in Int /\ Same(Multi(points, v)[b], Total(h, n))
<1>1. \A i \in 1..n, b \in Generator : points[i][b] \in Int /\ v[i] \in Int /\ points[i][b] * v[i] \in Int
  BY DEF Combinations
<1>2. ASSUME NEW b \in Generator, NEW h, \A i \in 1..n : h[i] = points[i][b] * v[i]
      PROVE  /\ Ints(h, n) /\ Total(h, n) \in Int /\ Multi(points, v)[b] \in Residue
             /\ Multi(points, v)[b] \in Int /\ Same(Multi(points, v)[b], Total(h, n))
  <2> DEFINE f == [i \in DOMAIN points |-> points[i][b]]
  <2>1. Multi(points, v)[b] = Dot(f, v)
    BY DEF Multi
  <2>2. DOMAIN f = 1..n /\ Products(h, f, v, n)
    BY <1>2 DEF Products
  <2>3. Ints(h, n)
    BY <1>1, <1>2 DEF Ints
  <2> HIDE DEF f
  <2> QED BY <2>1, <2>2, <2>3, DotIs
<1>3. \A b \in Generator : Multi(points, v)[b] \in Residue
  <2> SUFFICES ASSUME NEW b \in Generator PROVE Multi(points, v)[b] \in Residue
    OBVIOUS
  <2>1. PICK h : h = [i \in 1..n |-> points[i][b] * v[i]]
    OBVIOUS
  <2>2. \A i \in 1..n : h[i] = points[i][b] * v[i]
    BY <2>1
  <2> QED BY <1>2, <2>2
<1>4. Multi(points, v) \in Points
  BY <1>3 DEF Multi, Points
<1> QED BY <1>2, <1>4

\* A sum of points, one generator at a time.
LEMMA AddIs ==
    ASSUME NEW n \in Nat, NEW points \in [1..n -> Combinations]
    PROVE  /\ Add(points) \in Points
           /\ \A b \in Generator : \A h :
                  (\A i \in 1..n : h[i] = points[i][b]) =>
                      /\ Ints(h, n) /\ Total(h, n) \in Int
                      /\ Add(points)[b] \in Int /\ Same(Add(points)[b], Total(h, n))
<1>1. PICK v : v = [i \in DOMAIN points |-> 1]
  OBVIOUS
<1>2. v \in [1..n -> Int] /\ \A i \in 1..n : v[i] = 1
  BY <1>1
<1>3. \A i \in 1..n, b \in Generator : points[i][b] * v[i] = points[i][b]
  BY <1>2 DEF Combinations
<1>4. Add(points) = Multi(points, v)
  BY <1>1 DEF Add
<1>5. ASSUME NEW b \in Generator, NEW h, \A i \in 1..n : h[i] = points[i][b]
      PROVE  /\ Ints(h, n) /\ Total(h, n) \in Int
             /\ Multi(points, v)[b] \in Int /\ Same(Multi(points, v)[b], Total(h, n))
  <2>1. \A i \in 1..n : h[i] = points[i][b] * v[i]
    BY <1>3, <1>5
  <2> QED BY <1>2, <2>1, MultiIs
<1>6. Multi(points, v) \in Points
  BY <1>2, MultiIs
<1> QED BY <1>4, <1>5, <1>6

\* One point times a number.
LEMMA OneMulti ==
    ASSUME NEW p \in Combinations,
           NEW k \in Int
    PROVE  /\ Multi(<<p>>, <<k>>) \in Points
           /\ \A b \in Generator :
                  /\ Multi(<<p>>, <<k>>)[b] \in Int /\ (p[b] * k) \in Int
                  /\ Same(Multi(<<p>>, <<k>>)[b], (p[b] * k))
<1>1. PICK points, v : points = <<p>> /\ v = <<k>>
  OBVIOUS
<1>2. points \in [1..1 -> Combinations] /\ v \in [1..1 -> Int]
  BY <1>1
<1>3. Multi(points, v) \in Points
  BY <1>2, MultiIs
<1>4. ASSUME NEW b \in Generator
      PROVE  /\ Multi(points, v)[b] \in Int /\ (p[b] * k) \in Int
             /\ Same(Multi(points, v)[b], (p[b] * k))
  <2>1. PICK h : h = [i \in 1..1 |-> points[i][b] * v[i]]
    OBVIOUS
  <2>2. \A i \in 1..1 : h[i] = points[i][b] * v[i]
    BY <2>1
  <2>3. /\ Ints(h, 1) /\ Total(h, 1) \in Int /\ Multi(points, v)[b] \in Int
        /\ Same(Multi(points, v)[b], Total(h, 1))
    BY <1>2, <2>2, MultiIs
  <2>4. h[1] = p[b] * k
    BY <1>1, <2>1
  <2>5. Total(h, 1) = (p[b] * k)
    BY <2>3, <2>4, TotalOfFew
  <2> QED BY <2>3, <2>5
<1> QED BY <1>1, <1>3, <1>4

\* Two points times numbers: a commitment.
LEMMA TwoMulti ==
    ASSUME NEW p \in Combinations, NEW q \in Combinations,
           NEW k \in Int, NEW l \in Int
    PROVE  /\ Multi(<<p, q>>, <<k, l>>) \in Points
           /\ \A b \in Generator :
                  /\ Multi(<<p, q>>, <<k, l>>)[b] \in Int /\ (p[b] * k) + (q[b] * l) \in Int
                  /\ Same(Multi(<<p, q>>, <<k, l>>)[b], (p[b] * k) + (q[b] * l))
<1>1. PICK points, v : points = <<p, q>> /\ v = <<k, l>>
  OBVIOUS
<1>2. points \in [1..2 -> Combinations] /\ v \in [1..2 -> Int]
  BY <1>1
<1>3. Multi(points, v) \in Points
  BY <1>2, MultiIs
<1>4. ASSUME NEW b \in Generator
      PROVE  /\ Multi(points, v)[b] \in Int /\ (p[b] * k) + (q[b] * l) \in Int
             /\ Same(Multi(points, v)[b], (p[b] * k) + (q[b] * l))
  <2>1. PICK h : h = [i \in 1..2 |-> points[i][b] * v[i]]
    OBVIOUS
  <2>2. \A i \in 1..2 : h[i] = points[i][b] * v[i]
    BY <2>1
  <2>3. /\ Ints(h, 2) /\ Total(h, 2) \in Int /\ Multi(points, v)[b] \in Int
        /\ Same(Multi(points, v)[b], Total(h, 2))
    BY <1>2, <2>2, MultiIs
  <2>4. h[1] = p[b] * k /\ h[2] = q[b] * l
    BY <1>1, <2>1
  <2>5. Total(h, 2) = (p[b] * k) + (q[b] * l)
    BY <2>3, <2>4, TotalOfFew
  <2> QED BY <2>3, <2>5
<1> QED BY <1>1, <1>3, <1>4

\* Four points times numbers: the right side of the polynomial equation.
LEMMA FourMulti ==
    ASSUME NEW p \in Combinations, NEW q \in Combinations, NEW r \in Combinations, NEW s \in Combinations,
           NEW k \in Int, NEW l \in Int, NEW c \in Int, NEW d \in Int
    PROVE  /\ Multi(<<p, q, r, s>>, <<k, l, c, d>>) \in Points
           /\ \A b \in Generator :
                  /\ Multi(<<p, q, r, s>>, <<k, l, c, d>>)[b] \in Int
                  /\ (p[b] * k) + (q[b] * l) + (r[b] * c) + (s[b] * d) \in Int
                  /\ Same(Multi(<<p, q, r, s>>, <<k, l, c, d>>)[b],
                          (p[b] * k) + (q[b] * l) + (r[b] * c) + (s[b] * d))
<1>1. PICK points, v : points = <<p, q, r, s>> /\ v = <<k, l, c, d>>
  OBVIOUS
<1>2. points \in [1..4 -> Combinations] /\ v \in [1..4 -> Int]
  BY <1>1
<1>3. Multi(points, v) \in Points
  BY <1>2, MultiIs
<1>4. ASSUME NEW b \in Generator
      PROVE  /\ Multi(points, v)[b] \in Int /\ (p[b] * k) + (q[b] * l) + (r[b] * c) + (s[b] * d) \in Int
             /\ Same(Multi(points, v)[b], (p[b] * k) + (q[b] * l) + (r[b] * c) + (s[b] * d))
  <2>1. PICK h : h = [i \in 1..4 |-> points[i][b] * v[i]]
    OBVIOUS
  <2>2. \A i \in 1..4 : h[i] = points[i][b] * v[i]
    BY <2>1
  <2>3. /\ Ints(h, 4) /\ Total(h, 4) \in Int /\ Multi(points, v)[b] \in Int
        /\ Same(Multi(points, v)[b], Total(h, 4))
    BY <1>2, <2>2, MultiIs
  <2>4. h[1] = p[b] * k /\ h[2] = q[b] * l /\ h[3] = r[b] * c /\ h[4] = s[b] * d
    BY <1>1, <2>1
  <2>5. Total(h, 4) = (p[b] * k) + (q[b] * l) + (r[b] * c) + (s[b] * d)
    BY <2>3, <2>4, TotalOfFew
  <2> QED BY <2>3, <2>5
<1> QED BY <1>1, <1>3, <1>4

\* The sum of one point.
LEMMA OneAdd ==
    ASSUME NEW p \in Combinations
    PROVE  /\ Add(<<p>>) \in Points
           /\ \A b \in Generator :
                  /\ Add(<<p>>)[b] \in Int /\ p[b] \in Int
                  /\ Same(Add(<<p>>)[b], p[b])
<1>1. PICK points : points = <<p>>
  OBVIOUS
<1>2. points \in [1..1 -> Combinations]
  BY <1>1
<1>3. Add(points) \in Points
  BY <1>2, AddIs
<1>4. ASSUME NEW b \in Generator
      PROVE  /\ Add(points)[b] \in Int /\ p[b] \in Int
             /\ Same(Add(points)[b], p[b])
  <2>1. PICK h : h = [i \in 1..1 |-> points[i][b]]
    OBVIOUS
  <2>2. \A i \in 1..1 : h[i] = points[i][b]
    BY <2>1
  <2>3. /\ Ints(h, 1) /\ Total(h, 1) \in Int /\ Add(points)[b] \in Int
        /\ Same(Add(points)[b], Total(h, 1))
    BY <1>2, <2>2, AddIs
  <2>4. h[1] = p[b]
    BY <1>1, <2>1
  <2>5. Total(h, 1) = p[b]
    BY <2>3, <2>4, TotalOfFew
  <2> QED BY <2>3, <2>5
<1> QED BY <1>1, <1>3, <1>4

\* The sum of two points.
LEMMA TwoAdd ==
    ASSUME NEW p \in Combinations, NEW q \in Combinations
    PROVE  /\ Add(<<p, q>>) \in Points
           /\ \A b \in Generator :
                  /\ Add(<<p, q>>)[b] \in Int /\ p[b] + q[b] \in Int
                  /\ Same(Add(<<p, q>>)[b], p[b] + q[b])
<1>1. PICK points : points = <<p, q>>
  OBVIOUS
<1>2. points \in [1..2 -> Combinations]
  BY <1>1
<1>3. Add(points) \in Points
  BY <1>2, AddIs
<1>4. ASSUME NEW b \in Generator
      PROVE  /\ Add(points)[b] \in Int /\ p[b] + q[b] \in Int
             /\ Same(Add(points)[b], p[b] + q[b])
  <2>1. PICK h : h = [i \in 1..2 |-> points[i][b]]
    OBVIOUS
  <2>2. \A i \in 1..2 : h[i] = points[i][b]
    BY <2>1
  <2>3. /\ Ints(h, 2) /\ Total(h, 2) \in Int /\ Add(points)[b] \in Int
        /\ Same(Add(points)[b], Total(h, 2))
    BY <1>2, <2>2, AddIs
  <2>4. h[1] = p[b] /\ h[2] = q[b]
    BY <1>1, <2>1
  <2>5. Total(h, 2) = p[b] + q[b]
    BY <2>3, <2>4, TotalOfFew
  <2> QED BY <2>3, <2>5
<1> QED BY <1>1, <1>3, <1>4

\* The sum of three points: a vector commitment.
LEMMA ThreeAdd ==
    ASSUME NEW p \in Combinations, NEW q \in Combinations, NEW r \in Combinations
    PROVE  /\ Add(<<p, q, r>>) \in Points
           /\ \A b \in Generator :
                  /\ Add(<<p, q, r>>)[b] \in Int /\ p[b] + q[b] + r[b] \in Int
                  /\ Same(Add(<<p, q, r>>)[b], p[b] + q[b] + r[b])
<1>1. PICK points : points = <<p, q, r>>
  OBVIOUS
<1>2. points \in [1..3 -> Combinations]
  BY <1>1
<1>3. Add(points) \in Points
  BY <1>2, AddIs
<1>4. ASSUME NEW b \in Generator
      PROVE  /\ Add(points)[b] \in Int /\ p[b] + q[b] + r[b] \in Int
             /\ Same(Add(points)[b], p[b] + q[b] + r[b])
  <2>1. PICK h : h = [i \in 1..3 |-> points[i][b]]
    OBVIOUS
  <2>2. \A i \in 1..3 : h[i] = points[i][b]
    BY <2>1
  <2>3. /\ Ints(h, 3) /\ Total(h, 3) \in Int /\ Add(points)[b] \in Int
        /\ Same(Add(points)[b], Total(h, 3))
    BY <1>2, <2>2, AddIs
  <2>4. h[1] = p[b] /\ h[2] = q[b] /\ h[3] = r[b]
    BY <1>1, <2>1
  <2>5. Total(h, 3) = p[b] + q[b] + r[b]
    BY <2>3, <2>4, TotalOfFew
  <2> QED BY <2>3, <2>5
<1> QED BY <1>1, <1>3, <1>4

\* The sum of four points.
LEMMA FourAdd ==
    ASSUME NEW p \in Combinations, NEW q \in Combinations, NEW r \in Combinations, NEW s \in Combinations
    PROVE  /\ Add(<<p, q, r, s>>) \in Points
           /\ \A b \in Generator :
                  /\ Add(<<p, q, r, s>>)[b] \in Int /\ p[b] + q[b] + r[b] + s[b] \in Int
                  /\ Same(Add(<<p, q, r, s>>)[b], p[b] + q[b] + r[b] + s[b])
<1>1. PICK points : points = <<p, q, r, s>>
  OBVIOUS
<1>2. points \in [1..4 -> Combinations]
  BY <1>1
<1>3. Add(points) \in Points
  BY <1>2, AddIs
<1>4. ASSUME NEW b \in Generator
      PROVE  /\ Add(points)[b] \in Int /\ p[b] + q[b] + r[b] + s[b] \in Int
             /\ Same(Add(points)[b], p[b] + q[b] + r[b] + s[b])
  <2>1. PICK h : h = [i \in 1..4 |-> points[i][b]]
    OBVIOUS
  <2>2. \A i \in 1..4 : h[i] = points[i][b]
    BY <2>1
  <2>3. /\ Ints(h, 4) /\ Total(h, 4) \in Int /\ Add(points)[b] \in Int
        /\ Same(Add(points)[b], Total(h, 4))
    BY <1>2, <2>2, AddIs
  <2>4. h[1] = p[b] /\ h[2] = q[b] /\ h[3] = r[b] /\ h[4] = s[b]
    BY <1>1, <2>1
  <2>5. Total(h, 4) = p[b] + q[b] + r[b] + s[b]
    BY <2>3, <2>4, TotalOfFew
  <2> QED BY <2>3, <2>5
<1> QED BY <1>1, <1>3, <1>4

\* The sum of six points: the two sides of the inner equation.
LEMMA SixAdd ==
    ASSUME NEW p \in Combinations, NEW q \in Combinations, NEW r \in Combinations,
           NEW s \in Combinations, NEW t \in Combinations, NEW u \in Combinations
    PROVE  /\ Add(<<p, q, r, s, t, u>>) \in Points
           /\ \A b \in Generator :
                  /\ Add(<<p, q, r, s, t, u>>)[b] \in Int
                  /\ p[b] + q[b] + r[b] + s[b] + t[b] + u[b] \in Int
                  /\ Same(Add(<<p, q, r, s, t, u>>)[b], p[b] + q[b] + r[b] + s[b] + t[b] + u[b])
<1>1. PICK points : points = <<p, q, r, s, t, u>>
  OBVIOUS
<1>2. points \in [1..6 -> Combinations]
  BY <1>1
<1>3. Add(points) \in Points
  BY <1>2, AddIs
<1>4. ASSUME NEW b \in Generator
      PROVE  /\ Add(points)[b] \in Int /\ p[b] + q[b] + r[b] + s[b] + t[b] + u[b] \in Int
             /\ Same(Add(points)[b], p[b] + q[b] + r[b] + s[b] + t[b] + u[b])
  <2>1. PICK h : h = [i \in 1..6 |-> points[i][b]]
    OBVIOUS
  <2>2. \A i \in 1..6 : h[i] = points[i][b]
    BY <2>1
  <2>3. /\ Ints(h, 6) /\ Total(h, 6) \in Int /\ Add(points)[b] \in Int
        /\ Same(Add(points)[b], Total(h, 6))
    BY <1>2, <2>2, AddIs
  <2>4. h[1] = p[b] /\ h[2] = q[b] /\ h[3] = r[b] /\ h[4] = s[b] /\ h[5] = t[b] /\ h[6] = u[b]
    BY <1>1, <2>1
  <2>5. Total(h, 6) = p[b] + q[b] + r[b] + s[b] + t[b] + u[b]
    BY <2>3, <2>4, TotalOfFew
  <2> QED BY <2>3, <2>5
<1> QED BY <1>1, <1>3, <1>4

\* The sum of no points.
LEMMA NoneAdd == Add(<<>>) \in Points /\ \A b \in Generator : Same(Add(<<>>)[b], 0)
<1>1. PICK points : points = <<>>
  OBVIOUS
<1>2. points \in [1..0 -> Combinations]
  BY <1>1
<1>3. Add(points) \in Points
  BY <1>2, AddIs
<1>4. ASSUME NEW b \in Generator PROVE Same(Add(points)[b], 0)
  <2>1. \A i \in 1..0 : points[i] = points[i][b]
    OBVIOUS
  <2>2. Same(Add(points)[b], Total(points, 0))
    BY <1>2, <2>1, AddIs
  <2> QED BY <2>2, TotalNone
<1> QED BY <1>1, <1>3, <1>4

\* A point times a number.
LEMMA TimesIs ==
    ASSUME NEW p \in Combinations, NEW k \in Int
    PROVE  /\ Times(k, p) \in Points
           /\ \A b \in Generator : /\ Times(k, p)[b] \in Int /\ p[b] * k \in Int
                                   /\ Same(Times(k, p)[b], p[b] * k)
BY OneMulti DEF Times

-----------------------------------------------------------------------------
\* The generators are independent.
LEMMA Bases ==
    /\ <<"G", 0>> \in Generator /\ <<"H", 0>> \in Generator
    /\ \A b \in Generator : /\ ValueBase[b] = (IF b = <<"H", 0>> THEN 1 ELSE 0)
                             /\ BlindingBase[b] = (IF b = <<"G", 0>> THEN 1 ELSE 0)
    /\ ValueBase \in Points /\ BlindingBase \in Points
<1>1. 0 \in Residue /\ 1 \in Residue
  BY OrderIs DEF Residue
<1> QED BY <1>1 DEF Generator, ValueBase, BlindingBase, Point, Points

\* The generators of the vectors: each is itself and no other.
LEMMA VectorBases ==
    /\ GS \in [Index -> Points] /\ HS \in [Index -> Points]
    /\ \A i \in Index, b \in Generator : /\ GS[i][b] = (IF b = <<"g", i>> THEN 1 ELSE 0)
                                         /\ HS[i][b] = (IF b = <<"h", i>> THEN 1 ELSE 0)
<1>1. 0 \in Residue /\ 1 \in Residue
  BY OrderIs DEF Residue
<1> QED BY <1>1 DEF GS, HS, Point, Points

-----------------------------------------------------------------------------
\* g are the running products of f.
Agree(f, g, k) == \A i \in 1..k : f[i] = g[i]
Running(g, f, m) == g = [n \in 0..m |-> IF n = 0 THEN 1 ELSE g[n - 1] * f[n]]

\* The products of the first factors.
LEMMA RunningExists ==
    ASSUME NEW m \in Nat, NEW f, Ints(f, m)
    PROVE  \E g \in [0..m -> Int] : Running(g, f, m)
<1> DEFINE T == {k \in 0..m : \E g \in [0..k -> Int] : Running(g, f, k)}
<1>1. 0 \in T
  <2> DEFINE g == [n \in 0..0 |-> 1]
  <2>1. g \in [0..0 -> Int] /\ Running(g, f, 0)
    BY DEF Running
  <2> QED BY <2>1
<1>2. ASSUME NEW k \in 0..(m - 1), k \in T PROVE k + 1 \in T
  <2>1. PICK g \in [0..k -> Int] : Running(g, f, k)
    BY <1>2
  <2>2. f[k + 1] \in Int /\ k + 1 \in 0..m /\ k \in 0..k
    BY <1>2 DEF Ints
  <2> DEFINE h == [n \in 0..(k + 1) |-> IF n = k + 1 THEN g[k] * f[k + 1] ELSE g[n]]
  <2>3. g[k] * f[k + 1] \in Int
    BY <2>2
  <2>4. h \in [0..(k + 1) -> Int]
    BY <1>2, <2>3
  <2>5. ASSUME NEW n \in 0..(k + 1) PROVE h[n] = IF n = 0 THEN 1 ELSE h[n - 1] * f[n]
    <3>1. CASE n = k + 1
      BY <1>2, <3>1
    <3>2. CASE n # k + 1
      <4>1. n \in 0..k /\ (n # 0 => n - 1 \in 0..k)
        BY <1>2, <3>2, <2>5
      <4>2. g[n] = IF n = 0 THEN 1 ELSE g[n - 1] * f[n]
        BY <2>1, <4>1 DEF Running
      <4>3. h[n] = g[n] /\ (n # 0 => h[n - 1] = g[n - 1])
        BY <1>2, <3>2, <4>1
      <4> QED BY <4>2, <4>3
    <3> QED BY <3>1, <3>2
  <2>6. DOMAIN h = 0..(k + 1)
    OBVIOUS
  <2> HIDE DEF h
  <2>7. h = [n \in 0..(k + 1) |-> IF n = 0 THEN 1 ELSE h[n - 1] * f[n]]
    BY <2>4, <2>5
  <2>8. Running(h, f, k + 1)
    BY <2>7 DEF Running
  <2> QED BY <2>2, <2>4, <2>8
<1> HIDE DEF T
<1>3. \A k \in 0..m : k \in T
  BY <1>1, <1>2, UpTo
<1>4. m \in T
  BY <1>3
<1> QED BY <1>4 DEF T

\* Products of the same factors agree.
LEMMA RunningAgrees ==
    ASSUME NEW m \in Nat, NEW n \in Nat, NEW k \in 0..m, k \in 0..n, NEW f, NEW g,
           Agree(f, g, k), NEW F, Running(F, f, m), NEW G, Running(G, g, n)
    PROVE  F[k] = G[k]
<1> DEFINE T == {j \in 0..k : F[j] = G[j]}
<1>1. \A j \in 0..k : /\ F[j] = (IF j = 0 THEN 1 ELSE F[j - 1] * f[j])
                      /\ G[j] = (IF j = 0 THEN 1 ELSE G[j - 1] * g[j])
  BY DEF Running
<1>2. 0 \in T
  BY <1>1
<1>3. ASSUME NEW j \in 0..(k - 1), j \in T PROVE j + 1 \in T
  <2>1. j + 1 \in 0..k /\ j + 1 \in 1..k /\ (j + 1) - 1 = j /\ j + 1 # 0
    BY <1>3
  <2>2. F[j + 1] = F[j] * f[j + 1] /\ G[j + 1] = G[j] * g[j + 1]
    BY <1>1, <2>1
  <2>3. F[j] = G[j] /\ f[j + 1] = g[j + 1]
    BY <1>3, <2>1 DEF Agree
  <2> QED BY <2>1, <2>2, <2>3
<1> HIDE DEF T
<1>4. k \in Nat
  OBVIOUS
<1>5. \A j \in 0..k : j \in T
  BY <1>2, <1>3, <1>4, UpTo
<1>6. k \in T
  BY <1>4, <1>5
<1> QED BY <1>6 DEF T

\* The product of a sequence is its last running product.
LEMMA ProductIs ==
    ASSUME NEW m \in Nat, NEW f \in [1..m -> Int]
    PROVE  /\ Ints(f, m)
           /\ \A F : Running(F, f, m) => Product(f) = F[m]
<1>1. Ints(f, m)
  BY DEF Ints
<1>2. Len(f) = m
  OBVIOUS
<1>3. Product(f) = (CHOOSE F : Running(F, f, m))[m]
  BY <1>2 DEF Product, Running
<1>4. \E F : Running(F, f, m)
  BY <1>1, RunningExists
<1> DEFINE G == CHOOSE F : Running(F, f, m)
<1>5. Running(G, f, m)
  BY <1>4
<1>6. Product(f) = G[m]
  BY <1>3
<1> HIDE DEF G
<1>7. ASSUME NEW F, Running(F, f, m) PROVE Product(f) = F[m]
  <2>1. m \in 0..m
    OBVIOUS
  <2>2. F[m] = G[m]
    BY <1>5, <1>7, <2>1, RunningAgrees DEF Agree
  <2> QED BY <1>6, <2>2
<1> QED BY <1>1, <1>7

\* A product is that of its front times its last factor.
LEMMA ProductStep ==
    ASSUME NEW m \in Nat, NEW f \in [1..(m + 1) -> Int], NEW h \in [1..m -> Int],
           \A i \in 1..m : h[i] = f[i]
    PROVE  /\ Product(f) = Product(h) * f[m + 1]
           /\ Product(f) \in Int /\ Product(h) \in Int /\ f[m + 1] \in Int
<1>1. m + 1 \in Nat /\ Ints(f, m + 1) /\ Ints(h, m)
  BY ProductIs
<1>2. PICK F : F \in [0..(m + 1) -> Int] /\ Running(F, f, m + 1)
  BY <1>1, RunningExists
<1>3. PICK H : H \in [0..m -> Int] /\ Running(H, h, m)
  BY <1>1, RunningExists
<1>4. Product(f) = F[m + 1] /\ Product(h) = H[m]
  BY <1>1, <1>2, <1>3, ProductIs
<1>5. F[m] = H[m]
  <2>1. PICK n : n = m + 1
    OBVIOUS
  <2>2. n \in Nat /\ m \in Nat /\ m \in 0..n /\ m \in 0..m /\ Agree(f, h, m)
    BY <2>1 DEF Agree
  <2>3. Running(F, f, n) /\ Running(H, h, m)
    BY <1>2, <1>3, <2>1
  <2> HIDE <1>2, <1>3
  <2>4. F[m] = H[m]
    BY ONLY <2>2, <2>3, RunningAgrees
  <2> QED BY <2>4
<1>6. F[m + 1] = F[m] * f[m + 1]
  <2>1. m + 1 \in 0..(m + 1) /\ m + 1 # 0 /\ (m + 1) - 1 = m
    OBVIOUS
  <2> QED BY <1>2, <2>1 DEF Running
<1>7. f[m + 1] \in Int /\ F[m + 1] \in Int /\ H[m] \in Int
  BY <1>1, <1>2, <1>3
<1> QED BY <1>4, <1>5, <1>6, <1>7

\* The product of nothing.
LEMMA ProductNone ==
    ASSUME NEW f \in [1..0 -> Int]
    PROVE  Product(f) = 1
<1>1. Ints(f, 0) /\ 0 \in Nat
  BY ProductIs
<1>2. PICK F \in [0..0 -> Int] : Running(F, f, 0)
  BY <1>1, RunningExists
<1>3. F[0] = 1
  BY <1>2 DEF Running
<1> QED BY <1>1, <1>2, <1>3, ProductIs

\* The powers of a number, each from the one before.
LEMMA PowerIs ==
    ASSUME NEW y \in Int
    PROVE  /\ Power(y, 0) = 1
           /\ \A n \in Nat : Power(y, n) \in Int /\ Power(y, n + 1) = Power(y, n) * y
<1>1. Power(y, 0) = 1
  <2>1. [i \in 1..0 |-> y] \in [1..0 -> Int]
    OBVIOUS
  <2> QED BY <2>1, ProductNone DEF Power
<1>2. ASSUME NEW n \in Nat PROVE Power(y, n) \in Int /\ Power(y, n + 1) = Power(y, n) * y
  <2>1. PICK f, h : f = [i \in 1..(n + 1) |-> y] /\ h = [i \in 1..n |-> y]
    OBVIOUS
  <2>2. /\ f \in [1..(n + 1) -> Int] /\ h \in [1..n -> Int] /\ f[n + 1] = y
        /\ \A i \in 1..n : h[i] = f[i]
    BY <2>1
  <2>3. Product(f) = Product(h) * f[n + 1] /\ Product(h) \in Int
    BY <2>2, ProductStep
  <2> QED BY <2>1, <2>2, <2>3 DEF Power
<1> QED BY <1>1, <1>2

\* Powers of two, and of what is not 0.
LEMMA PowersOfTwo ==
    ASSUME NEW n \in Nat
    PROVE  Power(2, n) \in Nat \ {0} /\ Power(2, 0) = 1 /\ Power(2, n + 1) = 2 * Power(2, n)
<1> DEFINE T == {k \in 0..n : Power(2, k) \in Nat \ {0}}
<1>1. \A k \in Nat : Power(2, k) \in Int /\ Power(2, k + 1) = Power(2, k) * 2
  BY PowerIs
<1>2. 0 \in T
  BY PowerIs
<1>3. ASSUME NEW k \in 0..(n - 1), k \in T PROVE k + 1 \in T
  <2>1. k \in Nat /\ k + 1 \in 0..n /\ Power(2, k) \in Nat \ {0}
    BY <1>3
  <2> QED BY <1>1, <2>1
<1> HIDE DEF T
<1>4. \A k \in 0..n : k \in T
  BY <1>2, <1>3, UpTo
<1>5. n \in T
  BY <1>4
<1> QED BY <1>1, <1>5, PowerIs DEF T

\* A power of what is not 0 is not 0.
LEMMA PowerNotZero ==
    ASSUME NEW y \in Int, ~ Same(y, 0), NEW n \in Nat
    PROVE  Power(y, n) \in Int /\ ~ Same(Power(y, n), 0)
<1> DEFINE T == {k \in 0..n : ~ Same(Power(y, k), 0)}
<1>1. \A k \in Nat : Power(y, k) \in Int /\ Power(y, k + 1) = Power(y, k) * y
  BY PowerIs
<1>2. 0 \in T
  <2>1. 1 % Order # 0 % Order
    BY OrderIs
  <2> QED BY <2>1, PowerIs DEF Same
<1>3. ASSUME NEW k \in 0..(n - 1), k \in T PROVE k + 1 \in T
  <2>1. k \in Nat /\ k + 1 \in 0..n /\ ~ Same(Power(y, k), 0)
    BY <1>3
  <2>2. PICK a \in Int : a = Power(y, k)
    BY <1>1, <2>1
  <2>3. ~ Same(a * y, 0)
    BY <2>1, <2>2, NoZeroDivisors
  <2> QED BY <1>1, <2>1, <2>2, <2>3
<1> HIDE DEF T
<1>4. \A k \in 0..n : k \in T
  BY <1>2, <1>3, UpTo
<1>5. n \in T
  BY <1>4
<1> QED BY <1>1, <1>5 DEF T

-----------------------------------------------------------------------------
\* Quotient and remainder are the only ones.
LEMMA Division ==
    ASSUME NEW m \in Nat \ {0}, NEW a \in Int, NEW q \in Int, NEW r \in 0..(m - 1), a = q * m + r
    PROVE  a \div m = q /\ a % m = r
<1> DEFINE p == a \div m
           s == a % m
<1>1. p \in Int /\ s \in 0..(m - 1) /\ a = p * m + s
  OBVIOUS
<1> HIDE DEF p, s
<1>2. PICK d \in Int : d = p - q
  BY <1>1
<1>3. d * m = p * m - q * m
  BY <1>1, <1>2
<1>4. d * m = r - s
  <2>1. PICK P \in Int, Q \in Int : P = p * m /\ Q = q * m
    BY <1>1
  <2>2. a = P + s /\ a = Q + r /\ d * m = P - Q
    BY <1>1, <1>3, <2>1
  <2> QED BY <1>1, <2>2
<1>5. d = 0
  <2>1. d >= 1 => d * m >= m
    OBVIOUS
  <2>2. d <= -1 => d * m <= -m
    OBVIOUS
  <2> QED BY <1>1, <1>4, <2>1, <2>2
<1>6. p = q
  BY <1>1, <1>2, <1>5
<1>7. s = r
  BY <1>1, <1>4, <1>5
<1> QED BY <1>6, <1>7 DEF p, s

\* A remainder by twice a number is the remainder by the number, a bit above.
LEMMA TwiceRest ==
    ASSUME NEW a \in Nat, NEW m \in Nat \ {0}
    PROVE  /\ (a \div m) % 2 \in {0, 1} /\ a % m \in 0..(m - 1)
           /\ a % (2 * m) = (a % m) + m * ((a \div m) % 2)
<1> DEFINE q == a \div m
           r == a % m
           s == q \div 2
           e == q % 2
<1>1. q \in Int /\ r \in 0..(m - 1) /\ a = q * m + r
  OBVIOUS
<1>2. s \in Int /\ e \in {0, 1} /\ q = s * 2 + e
  BY <1>1
<1> HIDE DEF q, r, s, e
<1>3. a = s * (2 * m) + (e * m + r)
  BY <1>1, <1>2
<1>4. e * m + r \in 0..(2 * m - 1)
  BY <1>1, <1>2
<1>5. 2 * m \in Nat \ {0}
  OBVIOUS
<1>6. a % (2 * m) = e * m + r
  <2>1. PICK n, t : n = 2 * m /\ t = e * m + r
    OBVIOUS
  <2>2. a = s * n + t /\ n \in Nat \ {0} /\ t \in 0..(n - 1)
    BY <1>3, <1>4, <1>5, <2>1
  <2>3. a % n = t
    BY <1>2, <2>2, Division
  <2> QED BY <2>1, <2>3
<1>7. e * m + r = r + m * e /\ r + m * e \in Int
  BY <1>1, <1>2
<1> QED BY <1>1, <1>2, <1>6, <1>7 DEF q, r, s, e

-----------------------------------------------------------------------------
\* The number of folding rounds, ROUNDS.
Rounds == CHOOSE k \in 1..Width : Width = Power(2, k)

\* The width is a power of two and amounts do not wrap.
LEMMA WidthIs ==
    /\ Rounds \in Nat \ {0} /\ Width = Power(2, Rounds) /\ Width \in Nat \ {0}
    /\ MaxAmount = Power(2, Width) /\ MaxAmount \in Nat \ {0} /\ MaxAmount < Order
    /\ Index = 1..Width
<1>1. Rounds \in 1..Width /\ Width = Power(2, Rounds)
  BY ProofAssumption DEF Rounds
<1>2. Rounds \in Nat \ {0}
  BY <1>1
<1>3. Width \in Nat \ {0}
  BY <1>1, <1>2, PowersOfTwo
<1>4. MaxAmount = Power(2, Width) /\ MaxAmount \in Nat \ {0}
  BY <1>3, PowersOfTwo DEF MaxAmount
<1> QED BY <1>1, <1>2, <1>3, <1>4, ProofAssumption DEF Index

\* What one more bit adds.
LEMMA BitIs ==
    ASSUME NEW a \in Nat, NEW k \in Nat
    PROVE  /\ Bit(a, k + 1) \in {0, 1}
           /\ a % Power(2, k) \in 0..(Power(2, k) - 1)
           /\ a % Power(2, k + 1) = (a % Power(2, k)) + Power(2, k) * Bit(a, k + 1)
<1>1. PICK m : m = Power(2, k)
  OBVIOUS
<1>2. m \in Nat \ {0} /\ Power(2, k + 1) = 2 * m
  BY <1>1, PowersOfTwo
<1>3. (k + 1) - 1 = k
  OBVIOUS
<1>4. Bit(a, k + 1) = (a \div m) % 2
  BY <1>1, <1>3 DEF Bit
<1> QED BY <1>1, <1>2, <1>4, TwiceRest

\* A number under the modulus is its own remainder.
LEMMA SmallRest ==
    ASSUME NEW m \in Nat \ {0}, NEW a \in 0..(m - 1)
    PROVE  a % m = a
OBVIOUS

\* A number is the sum of its bits' powers.
LEMMA BitsAddUp ==
    ASSUME NEW n \in Nat, NEW a \in 0..(Power(2, n) - 1), NEW h,
           \A i \in 1..n : h[i] = Bit(a, i) * Power(2, i - 1)
    PROVE  Ints(h, n) /\ Total(h, n) = a
<1> DEFINE T == {k \in 0..n : Total(h, k) = a % Power(2, k)}
<1>1. a \in Nat /\ Power(2, n) \in Nat \ {0}
  BY PowersOfTwo
<1>2. ASSUME NEW k \in 0..(n - 1)
      PROVE  /\ k \in Nat /\ k + 1 \in 1..n /\ Power(2, k) \in Nat \ {0} /\ Bit(a, k + 1) \in {0, 1}
             /\ h[k + 1] = Bit(a, k + 1) * Power(2, k) /\ h[k + 1] \in Int
             /\ a % Power(2, k) \in Int
             /\ a % Power(2, k + 1) = (a % Power(2, k)) + h[k + 1]
  <2>1. k \in Nat /\ k + 1 \in 1..n /\ (k + 1) - 1 = k
    OBVIOUS
  <2>2. Power(2, k) \in Nat \ {0}
    BY <2>1, PowersOfTwo
  <2>3. /\ Bit(a, k + 1) \in {0, 1} /\ a % Power(2, k) \in 0..(Power(2, k) - 1)
        /\ a % Power(2, k + 1) = (a % Power(2, k)) + Power(2, k) * Bit(a, k + 1)
    BY <1>1, <2>1, BitIs
  <2>4. PICK e \in {0, 1}, p \in Nat \ {0} : e = Bit(a, k + 1) /\ p = Power(2, k)
    BY <2>2, <2>3
  <2>5. h[k + 1] = e * p
    BY <2>1, <2>4
  <2>6. e * p = p * e /\ e * p \in Int
    BY <2>4
  <2> QED BY <2>1, <2>2, <2>3, <2>4, <2>5, <2>6
<1>3. Ints(h, n)
  <2> SUFFICES ASSUME NEW i \in 1..n PROVE h[i] \in Int
    BY DEF Ints
  <2>1. i - 1 \in 0..(n - 1) /\ (i - 1) + 1 = i
    OBVIOUS
  <2> QED BY <1>2, <2>1
<1>4. 0 \in T
  <2>1. a % 1 = 0
    BY <1>1
  <2> QED BY <2>1, TotalNone, PowersOfTwo
<1>5. ASSUME NEW k \in 0..(n - 1), k \in T PROVE k + 1 \in T
  <2>1. k + 1 \in 0..n /\ k \in Nat
    BY <1>5
  <2>2. Ints(h, k + 1)
    BY <1>3, <1>5 DEF Ints
  <2>3. Total(h, k + 1) = h[k + 1] + Total(h, k) /\ Total(h, k) = a % Power(2, k)
    BY <1>5, <2>1, <2>2, TotalStep
  <2>4. Total(h, k + 1) = a % Power(2, k + 1)
    BY <1>2, <1>5, <2>3
  <2> QED BY <2>1, <2>4
<1> HIDE DEF T
<1>6. \A k \in 0..n : k \in T
  BY <1>4, <1>5, UpTo
<1>7. Total(h, n) = a % Power(2, n)
  BY <1>6 DEF T
<1>8. a % Power(2, n) = a
  BY <1>1, SmallRest
<1> QED BY <1>3, <1>7, <1>8

\* The powers of two below a bit add up to it less one.
LEMMA PowersAddUp ==
    ASSUME NEW n \in Nat, NEW h, \A i \in 1..n : h[i] = Power(2, i - 1)
    PROVE  Ints(h, n) /\ Total(h, n) = Power(2, n) - 1
<1> DEFINE T == {k \in 0..n : Total(h, k) = Power(2, k) - 1}
<1>1. ASSUME NEW k \in 0..(n - 1)
      PROVE  /\ k \in Nat /\ k + 1 \in 1..n /\ h[k + 1] = Power(2, k) /\ Power(2, k) \in Int
             /\ Power(2, k + 1) = 2 * Power(2, k)
  <2>1. k \in Nat /\ k + 1 \in 1..n /\ (k + 1) - 1 = k
    OBVIOUS
  <2> QED BY <2>1, PowersOfTwo
<1>2. Ints(h, n)
  <2> SUFFICES ASSUME NEW i \in 1..n PROVE h[i] \in Int
    BY DEF Ints
  <2>1. i - 1 \in 0..(n - 1) /\ (i - 1) + 1 = i
    OBVIOUS
  <2> QED BY <1>1, <2>1
<1>3. 0 \in T
  BY TotalNone, PowersOfTwo
<1>4. ASSUME NEW k \in 0..(n - 1), k \in T PROVE k + 1 \in T
  <2>1. k + 1 \in 0..n /\ k \in Nat
    BY <1>4
  <2>2. Ints(h, k + 1)
    BY <1>2, <1>4 DEF Ints
  <2>3. Total(h, k + 1) = h[k + 1] + Total(h, k) /\ Total(h, k) = Power(2, k) - 1
    BY <1>4, <2>1, <2>2, TotalStep
  <2>4. Total(h, k + 1) = Power(2, k + 1) - 1
    BY <1>1, <1>4, <2>3
  <2> QED BY <2>1, <2>4
<1> HIDE DEF T
<1>5. \A k \in 0..n : k \in T
  BY <1>3, <1>4, UpTo
<1>6. n \in T
  BY <1>5
<1> QED BY <1>2, <1>6 DEF T

\* A higher power of two is a multiple of a lower one.
LEMMA PowerDivides ==
    ASSUME NEW n \in Nat, NEW k \in Nat
    PROVE  \E t \in Nat : Power(2, n + k) = t * Power(2, k)
<1> DEFINE T == {j \in 0..n : \E t \in Nat : Power(2, j + k) = t * Power(2, k)}
<1>1. Power(2, k) \in Nat \ {0}
  BY PowersOfTwo
<1>2. 0 \in T
  <2>1. Power(2, 0 + k) = 1 * Power(2, k)
    BY <1>1
  <2> QED BY <2>1
<1>3. ASSUME NEW j \in 0..(n - 1), j \in T PROVE j + 1 \in T
  <2>1. PICK t \in Nat : Power(2, j + k) = t * Power(2, k)
    BY <1>3
  <2>2. j + k \in Nat /\ (j + 1) + k = (j + k) + 1 /\ j + 1 \in 0..n
    BY <1>3
  <2>3. Power(2, (j + k) + 1) = 2 * Power(2, j + k)
    BY <2>2, PowersOfTwo
  <2>4. 2 * (t * Power(2, k)) = (2 * t) * Power(2, k) /\ 2 * t \in Nat
    BY <1>1, <2>1
  <2>5. Power(2, (j + 1) + k) = (2 * t) * Power(2, k)
    BY <2>1, <2>2, <2>3, <2>4
  <2> QED BY <2>2, <2>4, <2>5
<1> HIDE DEF T
<1>4. \A j \in 0..n : j \in T
  BY <1>2, <1>3, UpTo
<1>5. n \in T
  BY <1>4
<1> QED BY <1>5 DEF T

\* Counted from the other end, an index has the complementary bits.
LEMMA BitComplement ==
    ASSUME NEW n \in Nat, NEW a \in 0..(Power(2, n) - 1), NEW k \in 1..n
    PROVE  Bit((Power(2, n) - 1) - a, k) = 1 - Bit(a, k)
<1>1. PICK m : m = Power(2, k - 1)
  OBVIOUS
<1>2. k - 1 \in Nat /\ m \in Nat \ {0}
  BY <1>1, PowersOfTwo
<1>3. PICK t \in Nat : Power(2, n) = t * (2 * m)
  <2>1. n - k \in Nat /\ k \in Nat /\ (n - k) + k = n /\ (k - 1) + 1 = k
    OBVIOUS
  <2>2. Power(2, k) = 2 * m
    BY <1>1, <1>2, <2>1, PowersOfTwo
  <2>3. \E t \in Nat : Power(2, (n - k) + k) = t * Power(2, k)
    BY <2>1, PowerDivides
  <2> QED BY <2>1, <2>2, <2>3
<1>4. PICK N : N = Power(2, n)
  OBVIOUS
<1>5. N \in Nat \ {0} /\ a \in 0..(N - 1) /\ N = t * (2 * m)
  BY <1>3, <1>4, PowersOfTwo
<1> DEFINE q == a \div m
           r == a % m
           s == q \div 2
           e == q % 2
<1>6. q \in Int /\ r \in 0..(m - 1) /\ a = q * m + r
  BY <1>2, <1>5
<1>7. s \in Int /\ e \in {0, 1} /\ q = s * 2 + e
  BY <1>6
<1>8. Bit(a, k) = e
  BY <1>1 DEF Bit
<1> HIDE DEF q, r, s, e
<1>9. ((N - 1) - a) \div m = 2 * t - 1 - q
  <2>1. PICK c, d, z : c = (N - 1) - a /\ d = 2 * t - 1 - q /\ z = m - 1 - r
    OBVIOUS
  <2>2. c \in Int /\ d \in Int /\ z \in 0..(m - 1)
    BY <1>2, <1>5, <1>6, <2>1
  <2>3. d * m = (2 * t) * m - m - q * m
    BY <1>2, <1>6, <2>1
  <2>4. (2 * t) * m = t * (2 * m) /\ q * m \in Int
    BY <1>2, <1>6
  <2>5. c = d * m + z
    BY <1>2, <1>5, <1>6, <2>1, <2>3, <2>4
  <2>6. c \div m = d
    BY <1>2, <2>2, <2>5, Division
  <2> QED BY <2>1, <2>6
<1>10. (2 * t - 1 - q) % 2 = 1 - e
  <2>1. PICK d, u : d = 2 * t - 1 - q /\ u = t - 1 - s
    OBVIOUS
  <2>2. d = u * 2 + (1 - e) /\ 1 - e \in 0..(2 - 1) /\ d \in Int /\ u \in Int
    BY <1>6, <1>7, <2>1
  <2>3. d % 2 = 1 - e
    BY <2>2, Division
  <2> QED BY <2>1, <2>3
<1>11. Bit((N - 1) - a, k) = 1 - e
  BY <1>1, <1>9, <1>10 DEF Bit
<1> QED BY <1>4, <1>8, <1>11

-----------------------------------------------------------------------------
\* The product of factors that are the same is the same.
LEMMA ProductOfProducts ==
    ASSUME NEW n \in Nat, NEW f, f \in [1..n -> Int], NEW c, c \in [1..n -> Int],
           NEW s, s \in [1..n -> Int], \A k \in 1..n : Same(s[k], f[k] * c[k])
    PROVE  /\ Product(f) \in Int /\ Product(c) \in Int /\ Product(s) \in Int
           /\ Same(Product(s), Product(f) * Product(c))
<1>1. Ints(f, n) /\ Ints(c, n) /\ Ints(s, n)
  BY DEF Ints
<1>2. PICK F : F \in [0..n -> Int] /\ Running(F, f, n)
  BY <1>1, RunningExists
<1>3. PICK C : C \in [0..n -> Int] /\ Running(C, c, n)
  BY <1>1, RunningExists
<1>4. PICK S : S \in [0..n -> Int] /\ Running(S, s, n)
  BY <1>1, RunningExists
<1>5. Product(f) = F[n] /\ Product(c) = C[n] /\ Product(s) = S[n]
  BY <1>2, <1>3, <1>4, ProductIs
<1> DEFINE T == {k \in 0..n : Same(S[k], F[k] * C[k])}
<1>6. 0 \in T
  <2>1. S[0] = 1 /\ F[0] = 1 /\ C[0] = 1
    BY <1>2, <1>3, <1>4 DEF Running
  <2>2. Same(1, 1 * 1)
    BY DEF Same
  <2> QED BY <2>1, <2>2
<1>7. ASSUME NEW k \in 0..(n - 1), k \in T PROVE k + 1 \in T
  <2>1. k \in Nat /\ k \in 0..n /\ k + 1 \in 0..n /\ k + 1 \in 1..n /\ (k + 1) - 1 = k /\ k + 1 # 0
    BY <1>7
  <2>2. /\ S[k + 1] = S[k] * s[k + 1] /\ F[k + 1] = F[k] * f[k + 1] /\ C[k + 1] = C[k] * c[k + 1]
    BY <1>2, <1>3, <1>4, <2>1, ZenonT(60) DEF Running
  <2>3. PICK S0 \in Int, F0 \in Int, C0 \in Int, s0 \in Int, f0 \in Int, c0 \in Int :
           /\ S0 = S[k] /\ F0 = F[k] /\ C0 = C[k]
           /\ s0 = s[k + 1] /\ f0 = f[k + 1] /\ c0 = c[k + 1]
    BY <1>2, <1>3, <1>4, <2>1
  <2>4. Same(S0, F0 * C0) /\ Same(s0, f0 * c0)
    BY <1>7, <2>1, <2>3
  <2>5. F0 * C0 \in Int /\ f0 * c0 \in Int
    OBVIOUS
  <2>6. Same(S0 * s0, (F0 * C0) * (f0 * c0))
    BY <2>4, <2>5, SameProduct, Zenon
  <2>7. (F0 * C0) * (f0 * c0) = (F0 * f0) * (C0 * c0)
    OBVIOUS
  <2>8. Same(S[k + 1], F[k + 1] * C[k + 1])
    BY <2>2, <2>3, <2>6, <2>7
  <2> QED BY <2>1, <2>8
<1> HIDE DEF T
<1>8. \A k \in 0..n : k \in T
  BY <1>6, <1>7, UpTo
<1>9. n \in T
  BY <1>8
<1>10. F[n] \in Int /\ C[n] \in Int /\ S[n] \in Int
  BY <1>2, <1>3, <1>4
<1> QED BY <1>5, <1>9, <1>10 DEF T

\* A product of what is not 0 is not 0.
LEMMA ProductNotZero ==
    ASSUME NEW n \in Nat, NEW c, c \in [1..n -> Int], \A k \in 1..n : ~ Same(c[k], 0)
    PROVE  Product(c) \in Int /\ ~ Same(Product(c), 0)
<1>1. Ints(c, n)
  BY DEF Ints
<1>2. PICK C : C \in [0..n -> Int] /\ Running(C, c, n)
  BY <1>1, RunningExists
<1>3. Product(c) = C[n]
  BY <1>2, ProductIs
<1> DEFINE T == {k \in 0..n : ~ Same(C[k], 0)}
<1>4. 0 \in T
  <2>1. C[0] = 1
    BY <1>2 DEF Running
  <2>2. ~ Same(1, 0)
    BY OrderIs DEF Same
  <2> QED BY <2>1, <2>2
<1>5. ASSUME NEW k \in 0..(n - 1), k \in T PROVE k + 1 \in T
  <2>1. k \in 0..n /\ k + 1 \in 0..n /\ k + 1 \in 1..n /\ (k + 1) - 1 = k /\ k + 1 # 0
    BY <1>5
  <2>2. C[k + 1] = C[k] * c[k + 1]
    BY <1>2, <2>1 DEF Running
  <2>3. PICK C0 \in Int, c0 \in Int : C0 = C[k] /\ c0 = c[k + 1]
    BY <1>2, <2>1
  <2>4. ~ Same(C0 * c0, 0)
    BY <1>5, <2>1, <2>3, NoZeroDivisors
  <2> QED BY <2>1, <2>2, <2>3, <2>4
<1> HIDE DEF T
<1>6. \A k \in 0..n : k \in T
  BY <1>4, <1>5, UpTo
<1>7. n \in T /\ C[n] \in Int
  BY <1>2, <1>6
<1> QED BY <1>3, <1>7 DEF T

-----------------------------------------------------------------------------
\* What folding with the challenges cs multiplies the i-th generators with.
FactorOfG(cs, i) == [k \in DOMAIN cs |-> IF Bit(i - 1, Rounds + 1 - k) = 1 THEN cs[k] ELSE Inv(cs[k])]
FactorOfH(cs, i) == [k \in DOMAIN cs |-> IF Bit(i - 1, Rounds + 1 - k) = 1 THEN Inv(cs[k]) ELSE cs[k]]
ScaleOfG(cs, i) == Product(FactorOfG(cs, i))
ScaleOfH(cs, i) == Product(FactorOfH(cs, i))

\* An answer of the transcript is a scalar with an inverse.
LEMMA AnswerIs ==
    ASSUME NEW c \in Answer
    PROVE  /\ c \in Int /\ ~ Same(c, 0)
           /\ Inv(c) \in Int /\ Same(c * Inv(c), 1) /\ ~ Same(Inv(c), 0)
<1>1. c \in 1..(Order - 1)
  BY ProofAssumption
<1>2. c \in Int /\ ~ Same(c, 0)
  BY <1>1, OrderIs DEF Same
<1> QED BY <1>2, Inverses

\* The factors of a generator are numbers.
LEMMA FactorsAre ==
    ASSUME NEW n \in Nat, NEW cs, cs \in [1..n -> Answer], NEW i
    PROVE  FactorOfG(cs, i) \in [1..n -> Int] /\ FactorOfH(cs, i) \in [1..n -> Int]
<1>1. \A k \in 1..n : cs[k] \in Int /\ Inv(cs[k]) \in Int
  BY AnswerIs
<1> QED BY <1>1 DEF FactorOfG, FactorOfH

\* Before the first round nothing is folded, and a round adds a factor.
LEMMA ScaleStart ==
    ASSUME NEW i
    PROVE  ScaleOfG(<<>>, i) = 1 /\ ScaleOfH(<<>>, i) = 1
<1>1. PICK cs : cs = <<>>
  OBVIOUS
<1>2. cs \in [1..0 -> Answer]
  BY <1>1
<1>3. FactorOfG(cs, i) \in [1..0 -> Int] /\ FactorOfH(cs, i) \in [1..0 -> Int]
  BY <1>2, FactorsAre
<1>4. Product(FactorOfG(cs, i)) = 1 /\ Product(FactorOfH(cs, i)) = 1
  BY <1>3, ProductNone
<1> QED BY <1>1, <1>4 DEF ScaleOfG, ScaleOfH

\* One more round multiplies the scale of a generator by its challenge or by the inverse.
LEMMA ScaleStep ==
    ASSUME NEW n \in Nat, NEW cs, cs \in [1..n -> Answer], NEW ds, ds \in [1..(n + 1) -> Answer],
           \A k \in 1..n : ds[k] = cs[k], NEW i
    PROVE  LET e == Bit(i - 1, Rounds - n)
               c == ds[n + 1]
           IN  /\ ScaleOfG(cs, i) \in Int /\ ScaleOfH(cs, i) \in Int
               /\ ScaleOfG(ds, i) = ScaleOfG(cs, i) * (IF e = 1 THEN c ELSE Inv(c))
               /\ ScaleOfH(ds, i) = ScaleOfH(cs, i) * (IF e = 1 THEN Inv(c) ELSE c)
<1>1. n + 1 \in Nat /\ Rounds + 1 - (n + 1) = Rounds - n
  BY WidthIs
<1>2. PICK f, g, F, G : /\ f = FactorOfG(cs, i) /\ F = FactorOfG(ds, i)
                        /\ g = FactorOfH(cs, i) /\ G = FactorOfH(ds, i)
  OBVIOUS
<1>3. f \in [1..n -> Int] /\ g \in [1..n -> Int]
  BY <1>2, FactorsAre
<1>4. F \in [1..(n + 1) -> Int] /\ G \in [1..(n + 1) -> Int]
  BY <1>1, <1>2, FactorsAre
<1>5. DOMAIN cs = 1..n /\ DOMAIN ds = 1..(n + 1) /\ n + 1 \in 1..(n + 1)
  OBVIOUS
<1>6. \A k \in 1..n : F[k] = f[k] /\ G[k] = g[k]
  BY <1>2, <1>5 DEF FactorOfG, FactorOfH
<1>7. /\ F[n + 1] = IF Bit(i - 1, Rounds - n) = 1 THEN ds[n + 1] ELSE Inv(ds[n + 1])
      /\ G[n + 1] = IF Bit(i - 1, Rounds - n) = 1 THEN Inv(ds[n + 1]) ELSE ds[n + 1]
  BY <1>1, <1>2, <1>5 DEF FactorOfG, FactorOfH
<1>8. Product(F) = Product(f) * F[n + 1] /\ Product(f) \in Int
  BY <1>3, <1>4, <1>6, ProductStep
<1>9. Product(G) = Product(g) * G[n + 1] /\ Product(g) \in Int
  BY <1>3, <1>4, <1>6, ProductStep
<1> QED BY <1>2, <1>7, <1>8, <1>9 DEF ScaleOfG, ScaleOfH

\* The verifier's weights, from one inversion, are what the rounds make of the generators.
LEMMA WeightIs ==
    ASSUME NEW cs, cs \in [1..Rounds -> Answer], NEW i \in Index
    PROVE  Weight(cs, i) \in Int /\ ScaleOfG(cs, i) \in Int /\ Same(Weight(cs, i), ScaleOfG(cs, i))
<1>1. Rounds \in Nat /\ Len(cs) = Rounds /\ DOMAIN cs = 1..Rounds
  BY WidthIs
<1> DEFINE t == [k \in DOMAIN cs |-> IF Bit(i - 1, Len(cs) + 1 - k) = 1 THEN cs[k] * cs[k] ELSE 1]
<1>2. PICK f, s : f = FactorOfG(cs, i) /\ s = t
  OBVIOUS
<1>3. \A k \in 1..Rounds : cs[k] \in Int /\ cs[k] * cs[k] \in Int /\ Same(cs[k] * Inv(cs[k]), 1)
                           /\ ~ Same(cs[k], 0) /\ Inv(cs[k]) \in Int
  BY AnswerIs
<1>4. cs \in [1..Rounds -> Int] /\ f \in [1..Rounds -> Int] /\ s \in [1..Rounds -> Int]
  <2>1. cs \in [1..Rounds -> Int]
    BY <1>3
  <2>2. f \in [1..Rounds -> Int]
    BY <1>1, <1>2, FactorsAre
  <2>3. s \in [1..Rounds -> Int]
    BY <1>1, <1>2, <1>3
  <2> QED BY <2>1, <2>2, <2>3
<1>5. ASSUME NEW k \in 1..Rounds PROVE Same(s[k], f[k] * cs[k])
  <2>1. CASE Bit(i - 1, Rounds + 1 - k) = 1
    <3>1. s[k] = cs[k] * cs[k] /\ f[k] = cs[k]
      BY <1>1, <1>2, <2>1 DEF FactorOfG
    <3> QED BY <3>1 DEF Same
  <2>2. CASE Bit(i - 1, Rounds + 1 - k) # 1
    <3>1. s[k] = 1 /\ f[k] = Inv(cs[k])
      BY <1>1, <1>2, <2>2 DEF FactorOfG
    <3>2. Inv(cs[k]) * cs[k] = cs[k] * Inv(cs[k])
      BY <1>3
    <3> QED BY <1>3, <3>1, <3>2 DEF Same
  <2> QED BY <2>1, <2>2
<1>6. /\ Product(f) \in Int /\ Product(cs) \in Int /\ Product(s) \in Int
      /\ Same(Product(s), Product(f) * Product(cs))
  BY <1>1, <1>4, <1>5, ProductOfProducts
<1>7. ~ Same(Product(cs), 0)
  BY <1>1, <1>3, <1>4, ProductNotZero
<1>8. PICK P \in Int, F \in Int, S \in Int : P = Product(cs) /\ F = Product(f) /\ S = Product(s)
  BY <1>6
<1>9. PICK I \in Int : I = Inv(P) /\ Same(P * I, 1)
  BY <1>7, <1>8, Inverses
<1>10. Weight(cs, i) = (I * S) % Order
  BY <1>2, <1>8, <1>9 DEF Weight
<1>11. Same(I * S, F)
  <2>1. Same(S, F * P)
    BY <1>6, <1>8
  <2>2. F * P \in Int /\ P * I \in Int
    OBVIOUS
  <2>3. Same(S * I, (F * P) * I)
    BY <2>1, <2>2, SameTimes, Zenon
  <2>4. Same((P * I) * F, 1 * F)
    <3>1. 1 \in Int
      OBVIOUS
    <3> QED BY <1>9, <2>2, <3>1, SameTimes, Zenon
  <2>5. S * I = I * S /\ (F * P) * I = (P * I) * F /\ 1 * F = F
    OBVIOUS
  <2> QED BY <2>3, <2>4, <2>5 DEF Same
<1>12. I * S \in Int
  OBVIOUS
<1>13. Weight(cs, i) \in Int /\ Same(Weight(cs, i), I * S)
  BY <1>10, <1>12, SameRest
<1> QED BY <1>2, <1>8, <1>11, <1>13 DEF Same, ScaleOfG

\* In reverse, they are what the rounds make of the other generators.
LEMMA ReverseWeightIs ==
    ASSUME NEW cs, cs \in [1..Rounds -> Answer], NEW i \in Index
    PROVE  /\ Width + 1 - i \in Index
           /\ Weight(cs, Width + 1 - i) \in Int /\ ScaleOfH(cs, i) \in Int
           /\ Same(Weight(cs, Width + 1 - i), ScaleOfH(cs, i))
<1>1. Width + 1 - i \in Index /\ i - 1 \in 0..(Width - 1) /\ (Width + 1 - i) - 1 = (Width - 1) - (i - 1)
  BY WidthIs
<1>2. ASSUME NEW k \in 1..Rounds
      PROVE  /\ Bit((Width + 1 - i) - 1, Rounds + 1 - k) = 1 - Bit(i - 1, Rounds + 1 - k)
             /\ Bit(i - 1, Rounds + 1 - k) \in {0, 1}
  <2>1. Rounds + 1 - k \in 1..Rounds /\ Rounds - k \in Nat /\ (Rounds - k) + 1 = Rounds + 1 - k
    BY WidthIs
  <2>2. Bit((Width - 1) - (i - 1), Rounds + 1 - k) = 1 - Bit(i - 1, Rounds + 1 - k)
    <3>1. PICK a, l, w : a = i - 1 /\ l = Rounds + 1 - k /\ w = Power(2, Rounds)
      OBVIOUS
    <3>2. a \in 0..(w - 1) /\ l \in 1..Rounds /\ w = Width
      BY <1>1, <2>1, <3>1, WidthIs
    <3>3. Bit((Power(2, Rounds) - 1) - a, l) = 1 - Bit(a, l)
      BY <3>1, <3>2, WidthIs, BitComplement
    <3> QED BY <3>1, <3>2, <3>3
  <2>3. i - 1 \in Nat
    BY <1>1, WidthIs
  <2>4. Bit(i - 1, (Rounds - k) + 1) \in {0, 1}
    BY <2>1, <2>3, BitIs
  <2> QED BY <1>1, <2>1, <2>2, <2>4
<1>3. FactorOfG(cs, Width + 1 - i) = FactorOfH(cs, i)
  <2>1. DOMAIN cs = 1..Rounds
    OBVIOUS
  <2>2. \A k \in 1..Rounds : Bit((Width + 1 - i) - 1, Rounds + 1 - k) = 1 <=> Bit(i - 1, Rounds + 1 - k) # 1
    BY <1>2
  <2> QED BY <2>1, <2>2 DEF FactorOfG, FactorOfH
<1>4. ScaleOfG(cs, Width + 1 - i) = ScaleOfH(cs, i)
  BY <1>3 DEF ScaleOfG, ScaleOfH
<1> QED BY <1>1, <1>4, WeightIs

-----------------------------------------------------------------------------
\* One pair of elements folded with a challenge and its inverse.
LEMMA FoldPair ==
    ASSUME NEW a \in Int, NEW b \in Int, NEW g \in Int, NEW h \in Int, NEW c \in Int, NEW d \in Int,
           Same(c * d, 1)
    PROVE  Same((a * c + b * d) * (g * d + h * c), a * g + b * h + (c * c) * (a * h) + (d * d) * (b * g))
<1>1. PICK k \in Int : c * d = 1 + k * Order
  <2>1. c * d \in Int /\ 1 \in Int
    OBVIOUS
  <2> QED BY <2>1, SameIff
<1>2. PICK x \in Int, y \in Int : x = a * g /\ y = b * h
  OBVIOUS
<1>3. PICK e \in Int, z \in Int : e = c * d /\ z = (c * c) * (a * h) + (d * d) * (b * g)
  OBVIOUS
<1>4. (a * c + b * d) * (g * d + h * c) = x * e + y * e + z
  BY <1>2, <1>3
<1>5. x * e = x + x * (k * Order) /\ y * e = y + y * (k * Order)
  BY <1>1, <1>3, OrderIs
<1>6. x * (k * Order) + y * (k * Order) = ((x + y) * k) * Order
  BY OrderIs
<1>7. (a * c + b * d) * (g * d + h * c) = (x + y + z) + ((x + y) * k) * Order
  <2>1. PICK u \in Int, v \in Int : u = x * (k * Order) /\ v = y * (k * Order)
    BY OrderIs
  <2> QED BY <1>4, <1>5, <1>6, <2>1
<1>8. (x + y) * k \in Int /\ x + y + z \in Int
  OBVIOUS
<1>9. Same((a * c + b * d) * (g * d + h * c), x + y + z)
  BY <1>7, <1>8, SameIff
<1> QED BY <1>2, <1>3, <1>9

\* The element that folds the halves of a with c and d.
Folds(a2, a, c, d, m) == \A i \in 1..m : Same(a2[i], a[i] * c + a[m + i] * d)

\* Half of one vector times the other half of the other.
Crosses(p, a, g, m) == \A i \in 1..m : p[i] = a[i] * g[m + i]

\* What folding both vectors does to their product.
LEMMA FoldProduct ==
    ASSUME NEW m \in Nat, NEW n \in Nat, n = m + m,
           NEW c \in Int, NEW d \in Int, Same(c * d, 1),
           NEW a, NEW g, Ints(a, n), Ints(g, n), NEW x, Products(x, a, g, n),
           NEW e, NEW f, Ints(e, m), Ints(f, m), Folds(e, a, c, d, m), Folds(f, g, d, c, m),
           NEW y, Products(y, e, f, m),
           NEW p, Crosses(p, a, g, m), NEW q, Crosses(q, g, a, m)
    PROVE  /\ Ints(x, n) /\ Ints(y, m) /\ Ints(p, m) /\ Ints(q, m)
           /\ Total(x, n) \in Int /\ Total(y, m) \in Int /\ Total(p, m) \in Int /\ Total(q, m) \in Int
           /\ Same(Total(y, m), Total(x, n) + (c * c) * Total(p, m) + (d * d) * Total(q, m))
<1>1. \A i \in 1..m : i \in 1..n /\ m + i \in 1..n
  OBVIOUS
<1>2. \A i \in 1..m : a[i] \in Int /\ a[m + i] \in Int /\ g[i] \in Int /\ g[m + i] \in Int
  BY <1>1 DEF Ints
<1>3. Ints(x, n)
  BY DEF Ints, Products
<1>4. Ints(y, m)
  BY DEF Ints, Products
<1>5. Ints(p, m) /\ Ints(q, m)
  BY <1>2 DEF Ints, Crosses
<1>6. PICK h : h = [i \in 1..m |-> x[m + i]]
  OBVIOUS
<1>7. Ints(x, m) /\ Ints(h, m) /\ Total(x, n) = Total(x, m) + Total(h, m)
  <2>1. \A i \in 1..m : h[i] = x[m + i]
    BY <1>6
  <2> QED BY <1>3, <2>1, TotalHalves
<1>8. PICK s, t, u, v, w : /\ s = [i \in 1..m |-> x[i] + h[i]]
                           /\ t = [i \in 1..m |-> (c * c) * p[i]]
                           /\ u = [i \in 1..m |-> (d * d) * q[i]]
                           /\ v = [i \in 1..m |-> s[i] + t[i]]
                           /\ w = [i \in 1..m |-> v[i] + u[i]]
  OBVIOUS
<1>9. c * c \in Int /\ d * d \in Int
  OBVIOUS
<1>10. Ints(s, m) /\ Total(s, m) = Total(x, m) + Total(h, m)
  <2>1. \A i \in 1..m : s[i] = x[i] + h[i]
    BY <1>8
  <2> QED BY <1>7, <2>1, TotalPlus
<1>11. Ints(t, m) /\ Total(t, m) = (c * c) * Total(p, m)
  <2>1. \A i \in 1..m : t[i] = (c * c) * p[i]
    BY <1>8
  <2>2. PICK k \in Int : k = c * c
    BY <1>9
  <2>3. \A i \in 1..m : t[i] = k * p[i]
    BY <2>1, <2>2
  <2>4. Ints(t, m) /\ Total(t, m) = k * Total(p, m)
    BY <1>5, <2>3, TotalScaled
  <2> QED BY <2>2, <2>4
<1>12. Ints(u, m) /\ Total(u, m) = (d * d) * Total(q, m)
  <2>1. \A i \in 1..m : u[i] = (d * d) * q[i]
    BY <1>8
  <2>2. PICK k \in Int : k = d * d
    BY <1>9
  <2>3. \A i \in 1..m : u[i] = k * q[i]
    BY <2>1, <2>2
  <2>4. Ints(u, m) /\ Total(u, m) = k * Total(q, m)
    BY <1>5, <2>3, TotalScaled
  <2> QED BY <2>2, <2>4
<1>13. Ints(v, m) /\ Total(v, m) = Total(s, m) + Total(t, m)
  <2>1. \A i \in 1..m : v[i] = s[i] + t[i]
    BY <1>8
  <2>2. Ints(s, m) /\ Ints(t, m)
    BY <1>10, <1>11
  <2> QED BY <2>1, <2>2, TotalPlus
<1>14. Ints(w, m) /\ Total(w, m) = Total(v, m) + Total(u, m)
  <2>1. \A i \in 1..m : w[i] = v[i] + u[i]
    BY <1>8
  <2> QED BY <1>12, <1>13, <2>1, TotalPlus
<1>15. ASSUME NEW i \in 1..m PROVE Same(y[i], w[i])
  <2>1. PICK A \in Int, B \in Int, G \in Int, H \in Int :
           A = a[i] /\ B = a[m + i] /\ G = g[i] /\ H = g[m + i]
    BY <1>2
  <2>2. x[i] = A * G /\ x[m + i] = B * H
    BY <1>1, <2>1 DEF Products
  <2>3. w[i] = A * G + B * H + (c * c) * (A * H) + (d * d) * (B * G)
    <3>1. p[i] = A * H /\ q[i] = B * G /\ h[i] = B * H
      BY <1>6, <2>1, <2>2 DEF Crosses
    <3>2. s[i] = A * G + B * H /\ t[i] = (c * c) * (A * H) /\ u[i] = (d * d) * (B * G)
      BY <1>8, <2>2, <3>1
    <3> QED BY <1>8, <3>2
  <2>4. PICK E \in Int, F \in Int : E = e[i] /\ F = f[i]
    BY DEF Ints
  <2>5. Same(E, A * c + B * d) /\ Same(F, G * d + H * c)
    BY <2>1, <2>4 DEF Folds
  <2>6. A * c + B * d \in Int /\ G * d + H * c \in Int
    OBVIOUS
  <2>7. Same(E * F, (A * c + B * d) * (G * d + H * c))
    BY <2>5, <2>6, SameProduct, Zenon
  <2>8. Same((A * c + B * d) * (G * d + H * c), A * G + B * H + (c * c) * (A * H) + (d * d) * (B * G))
    BY FoldPair
  <2>9. y[i] = E * F
    BY <2>4 DEF Products
  <2> QED BY <2>3, <2>7, <2>8, <2>9 DEF Same
<1>16. Same(Total(y, m), Total(w, m))
  BY <1>4, <1>14, <1>15, TotalSame
<1>17. /\ Total(x, m) \in Int /\ Total(h, m) \in Int /\ Total(y, m) \in Int
       /\ Total(p, m) \in Int /\ Total(q, m) \in Int
  BY <1>4, <1>5, <1>7, TotalType
<1>18. Total(w, m) = Total(x, n) + (c * c) * Total(p, m) + (d * d) * Total(q, m)
  BY <1>7, <1>10, <1>11, <1>12, <1>13, <1>14
<1>19. Total(x, n) \in Int
  BY <1>7, <1>17
<1> QED BY <1>3, <1>4, <1>5, <1>16, <1>17, <1>18, <1>19

-----------------------------------------------------------------------------
\* The combination that a pair of vectors and their product commit to.
Committed(g, h, a, b, u) == Add(<<Multi(g, a), Multi(h, b), Times(Dot(a, b), u)>>)

\* Sequences of n scalars, and of n points.
Scalars(n) == {v \in Seq(Int) : Len(v) = n}
PointLists(n) == {v \in Seq(Points) : Len(v) = n}

\* Lists of scalars and of points as sequences and as functions.
LEMMA ListsAre ==
    ASSUME NEW n \in Nat
    PROVE  /\ \A v \in Scalars(n) : v \in [1..n -> Int] /\ DOMAIN v = 1..n /\ Ints(v, n)
           /\ \A v \in PointLists(n) :
                  v \in [1..n -> Points] /\ v \in [1..n -> Combinations] /\ DOMAIN v = 1..n
           /\ \A v : v \in [1..n -> Int] => v \in Scalars(n)
           /\ \A v : v \in [1..n -> Points] => v \in PointLists(n)
<1>1. \A v \in Scalars(n) : v \in [1..n -> Int]
  BY DEF Scalars
<1>2. \A v \in PointLists(n) : v \in [1..n -> Points]
  BY DEF PointLists
<1>3. \A v : v \in [1..n -> Points] => v \in [1..n -> Combinations]
  BY PointsCombine
<1>4. \A v : v \in [1..n -> Int] => v \in Seq(Int) /\ Len(v) = n
  OBVIOUS
<1>5. \A v : v \in [1..n -> Points] => v \in Seq(Points) /\ Len(v) = n
  OBVIOUS
<1>6. \A v : v \in [1..n -> Int] => Ints(v, n)
  BY DEF Ints
<1> QED BY <1>1, <1>2, <1>3, <1>4, <1>5, <1>6 DEF Scalars, PointLists

\* The two halves of a vector.
LEMMA HalvesAre ==
    ASSUME NEW m \in Nat, NEW S, NEW v, v \in Seq(S), Len(v) = m + m
    PROVE  /\ Lower(v) = [i \in 1..m |-> v[i]] /\ Upper(v) = [i \in 1..m |-> v[m + i]]
           /\ Lower(v) \in [1..m -> S] /\ Upper(v) \in [1..m -> S]
<1>1. Len(v) \div 2 = m
  <2>1. m + m = m * 2 + 0 /\ 0 \in 0..(2 - 1)
    OBVIOUS
  <2> QED BY <2>1, Division
<1>2. Lower(v) = SubSeq(v, 1, m) /\ Upper(v) = SubSeq(v, m + 1, m + m)
  BY <1>1 DEF Lower, Upper
<1>3. /\ SubSeq(v, 1, m) = [i \in 1..m |-> v[i]]
      /\ SubSeq(v, m + 1, m + m) = [i \in 1..m |-> v[m + i]]
  <2>1. \A i \in 1..m : i + 1 - 1 = i /\ i + (m + 1) - 1 = m + i
    OBVIOUS
  <2>2. 1..(m - 1 + 1) = 1..m /\ 1..((m + m) - (m + 1) + 1) = 1..m
    OBVIOUS
  <2> QED BY <2>1, <2>2
<1>4. \A i \in 1..m : v[i] \in S /\ v[m + i] \in S
  OBVIOUS
<1> QED BY <1>2, <1>3, <1>4

-----------------------------------------------------------------------------
\* The terms of a folded sum may be replaced by what they are the same as.
LEMMA SameFolded ==
    ASSUME NEW c \in Int, NEW d \in Int,
           NEW y \in Int, NEW x \in Int, NEW p \in Int, NEW q \in Int,
           NEW Y \in Int, NEW X \in Int, NEW P \in Int, NEW Q \in Int,
           Same(Y, y), Same(X, x), Same(P, p), Same(Q, q),
           Same(y, x + (c * c) * p + (d * d) * q)
    PROVE  Same(Y, X + (c * c) * P + (d * d) * Q)
<1>1. PICK C \in Int, D \in Int : C = c * c /\ D = d * d
  OBVIOUS
<1>2. p * C \in Int /\ P * C \in Int /\ q * D \in Int /\ Q * D \in Int
  OBVIOUS
<1>3. Same(p, P) /\ Same(q, Q) /\ Same(x, X)
  BY DEF Same
<1>4. Same(p * C, P * C) /\ Same(q * D, Q * D)
  BY <1>3, SameTimes
<1>5. Same(x + p * C, X + P * C)
  BY <1>2, <1>3, <1>4, SameSum
<1>6. x + p * C \in Int /\ X + P * C \in Int
  BY <1>2
<1>7. Same((x + p * C) + q * D, (X + P * C) + Q * D)
  BY <1>2, <1>4, <1>5, <1>6, SameSum, Zenon
<1>8. /\ (x + p * C) + q * D = x + (c * c) * p + (d * d) * q
      /\ (X + P * C) + Q * D = X + (c * c) * P + (d * d) * Q
  BY <1>1
<1> QED BY <1>7, <1>8 DEF Same

\* Folding a list of points and the numbers that combine them.
LEMMA FoldMulti ==
    ASSUME NEW m \in Nat, NEW c \in Int, NEW d \in Int, Same(c * d, 1),
           NEW P, P \in PointLists(m + m), NEW v, v \in Scalars(m + m),
           NEW Q, Q \in [1..m -> Points], NEW w, w \in [1..m -> Int],
           Folds(w, v, c, d, m),
           \A i \in 1..m, b \in Generator : Same(Q[i][b], P[i][b] * d + P[m + i][b] * c),
           NEW b \in Generator
    PROVE  /\ Multi(Q, w)[b] \in Int /\ Multi(P, v)[b] \in Int
           /\ Multi(Upper(P), Lower(v))[b] \in Int /\ Multi(Lower(P), Upper(v))[b] \in Int
           /\ Same(Multi(Q, w)[b], Multi(P, v)[b] + (c * c) * Multi(Upper(P), Lower(v))[b]
                                                  + (d * d) * Multi(Lower(P), Upper(v))[b])
<1>1. PICK n \in Nat : n = m + m
  OBVIOUS
<1>2. /\ P \in Seq(Points) /\ Len(P) = m + m /\ v \in Seq(Int) /\ Len(v) = m + m
      /\ P \in [1..n -> Combinations] /\ v \in [1..n -> Int]
  <2>1. P \in PointLists(n) /\ v \in Scalars(n)
    BY <1>1
  <2>2. P \in [1..n -> Combinations] /\ v \in [1..n -> Int]
    BY <2>1, ListsAre
  <2> QED BY <2>2 DEF PointLists, Scalars
<1>3. PICK pl, pu, vl, vu : pl = Lower(P) /\ pu = Upper(P) /\ vl = Lower(v) /\ vu = Upper(v)
  OBVIOUS
<1>4. /\ Lower(P) = [i \in 1..m |-> P[i]] /\ Upper(P) = [i \in 1..m |-> P[m + i]]
      /\ Lower(P) \in [1..m -> Points] /\ Upper(P) \in [1..m -> Points]
  BY <1>2, HalvesAre
<1>5. /\ Lower(v) = [i \in 1..m |-> v[i]] /\ Upper(v) = [i \in 1..m |-> v[m + i]]
      /\ Lower(v) \in [1..m -> Int] /\ Upper(v) \in [1..m -> Int]
  BY <1>2, HalvesAre
<1>6. /\ pl \in [1..m -> Combinations] /\ pu \in [1..m -> Combinations] /\ Q \in [1..m -> Combinations]
      /\ vl \in [1..m -> Int] /\ vu \in [1..m -> Int]
  BY <1>3, <1>4, <1>5, PointsCombine
<1>7. PICK g, f, x, y, p, q : /\ g = [i \in 1..n |-> P[i][b]]
                              /\ f = [i \in 1..m |-> Q[i][b]]
                              /\ x = [i \in 1..n |-> P[i][b] * v[i]]
                              /\ y = [i \in 1..m |-> Q[i][b] * w[i]]
                              /\ p = [i \in 1..m |-> pu[i][b] * vl[i]]
                              /\ q = [i \in 1..m |-> pl[i][b] * vu[i]]
  OBVIOUS
<1>8. /\ Ints(x, n) /\ Total(x, n) \in Int /\ Multi(P, v)[b] \in Int /\ Same(Multi(P, v)[b], Total(x, n))
  <2>1. \A i \in 1..n : x[i] = P[i][b] * v[i]
    BY <1>7
  <2> QED BY <1>2, <2>1, MultiIs
<1>9. /\ Ints(y, m) /\ Total(y, m) \in Int /\ Multi(Q, w)[b] \in Int /\ Same(Multi(Q, w)[b], Total(y, m))
  <2>1. \A i \in 1..m : y[i] = Q[i][b] * w[i]
    BY <1>7
  <2> QED BY <1>6, <2>1, MultiIs
<1>10. /\ Ints(p, m) /\ Total(p, m) \in Int /\ Multi(pu, vl)[b] \in Int
       /\ Same(Multi(pu, vl)[b], Total(p, m))
  <2>1. \A i \in 1..m : p[i] = pu[i][b] * vl[i]
    BY <1>7
  <2> QED BY <1>6, <2>1, MultiIs
<1>11. /\ Ints(q, m) /\ Total(q, m) \in Int /\ Multi(pl, vu)[b] \in Int
       /\ Same(Multi(pl, vu)[b], Total(q, m))
  <2>1. \A i \in 1..m : q[i] = pl[i][b] * vu[i]
    BY <1>7
  <2> QED BY <1>6, <2>1, MultiIs
<1>12. /\ \A i \in 1..n : P[i][b] \in Int /\ v[i] \in Int
       /\ \A i \in 1..m : Q[i][b] \in Int /\ w[i] \in Int
  BY <1>2, <1>6, ZenonT(60) DEF Combinations
<1>13. \A i \in 1..m : i \in 1..n /\ m + i \in 1..n
  BY <1>1
<1>14. /\ Ints(v, n) /\ Ints(g, n) /\ Ints(w, m) /\ Ints(f, m)
  BY <1>7, <1>12 DEF Ints
<1>15. Products(x, v, g, n) /\ Products(y, w, f, m)
  BY <1>7, <1>12 DEF Products
<1>16. Folds(f, g, d, c, m)
  BY <1>7, <1>13 DEF Folds
<1>17. \A i \in 1..m : p[i] = v[i] * g[m + i]
  BY <1>3, <1>4, <1>5, <1>7, <1>12, <1>13
<1>18. \A i \in 1..m : q[i] = g[i] * v[m + i]
  <2> TAKE i \in 1..m
  <2>1. i \in 1..n /\ m + i \in 1..n
    BY <1>13
  <2>2. q[i] = P[i][b] * v[m + i]
    BY <1>3, <1>4, <1>5, <1>7
  <2>3. g[i] = P[i][b] /\ P[i][b] \in Int /\ v[m + i] \in Int
    BY <1>7, <1>12, <2>1
  <2> QED BY <2>2, <2>3
<1>19. Same(Total(y, m), Total(x, n) + (c * c) * Total(p, m) + (d * d) * Total(q, m))
  <2>1. Crosses(p, v, g, m) /\ Crosses(q, g, v, m)
    BY <1>17, <1>18 DEF Crosses
  <2> QED BY <1>1, <1>14, <1>15, <1>16, <2>1, FoldProduct
<1>20. Same(Multi(Q, w)[b], Multi(P, v)[b] + (c * c) * Multi(pu, vl)[b] + (d * d) * Multi(pl, vu)[b])
  <2>1. PICK y0 \in Int, x0 \in Int, p0 \in Int, q0 \in Int :
           y0 = Total(y, m) /\ x0 = Total(x, n) /\ p0 = Total(p, m) /\ q0 = Total(q, m)
    BY <1>8, <1>9, <1>10, <1>11
  <2>2. PICK y1 \in Int, x1 \in Int, p1 \in Int, q1 \in Int :
           y1 = Multi(Q, w)[b] /\ x1 = Multi(P, v)[b] /\ p1 = Multi(pu, vl)[b] /\ q1 = Multi(pl, vu)[b]
    BY <1>8, <1>9, <1>10, <1>11
  <2>3. /\ Same(y1, y0) /\ Same(x1, x0) /\ Same(p1, p0) /\ Same(q1, q0)
        /\ Same(y0, x0 + (c * c) * p0 + (d * d) * q0)
    BY <1>8, <1>9, <1>10, <1>11, <1>19, <2>1, <2>2
  <2>4. Same(y1, x1 + (c * c) * p1 + (d * d) * q1)
    BY <2>3, SameFolded
  <2> QED BY <2>2, <2>4
<1> QED BY <1>3, <1>8, <1>9, <1>10, <1>11, <1>20

-----------------------------------------------------------------------------
\* Folding two vectors that are multiplied.
LEMMA FoldDot ==
    ASSUME NEW m \in Nat, NEW c \in Int, NEW d \in Int, Same(c * d, 1),
           NEW v, v \in Scalars(m + m), NEW w, w \in Scalars(m + m),
           NEW e, e \in [1..m -> Int], NEW f, f \in [1..m -> Int],
           Folds(e, v, c, d, m), Folds(f, w, d, c, m)
    PROVE  /\ Dot(e, f) \in Int /\ Dot(v, w) \in Int
           /\ Dot(Lower(v), Upper(w)) \in Int /\ Dot(Upper(v), Lower(w)) \in Int
           /\ Same(Dot(e, f), Dot(v, w) + (c * c) * Dot(Lower(v), Upper(w))
                                        + (d * d) * Dot(Upper(v), Lower(w)))
<1>1. PICK n \in Nat : n = m + m
  OBVIOUS
<1>2. /\ v \in Seq(Int) /\ Len(v) = m + m /\ w \in Seq(Int) /\ Len(w) = m + m
      /\ v \in [1..n -> Int] /\ w \in [1..n -> Int]
  <2>1. v \in Scalars(n) /\ w \in Scalars(n)
    BY <1>1
  <2>2. v \in [1..n -> Int] /\ w \in [1..n -> Int]
    BY <2>1, ListsAre
  <2> QED BY <2>2 DEF Scalars
<1>3. PICK vl, vu, wl, wu : vl = Lower(v) /\ vu = Upper(v) /\ wl = Lower(w) /\ wu = Upper(w)
  OBVIOUS
<1>4. /\ Lower(v) = [i \in 1..m |-> v[i]] /\ Upper(v) = [i \in 1..m |-> v[m + i]]
      /\ Lower(v) \in [1..m -> Int] /\ Upper(v) \in [1..m -> Int]
  BY <1>2, HalvesAre
<1>5. /\ Lower(w) = [i \in 1..m |-> w[i]] /\ Upper(w) = [i \in 1..m |-> w[m + i]]
      /\ Lower(w) \in [1..m -> Int] /\ Upper(w) \in [1..m -> Int]
  BY <1>2, HalvesAre
<1>6. /\ vl \in [1..m -> Int] /\ vu \in [1..m -> Int]
      /\ wl \in [1..m -> Int] /\ wu \in [1..m -> Int]
  BY <1>3, <1>4, <1>5
<1>7. PICK x, y, p, q : /\ x = [i \in 1..n |-> v[i] * w[i]]
                        /\ y = [i \in 1..m |-> e[i] * f[i]]
                        /\ p = [i \in 1..m |-> vl[i] * wu[i]]
                        /\ q = [i \in 1..m |-> vu[i] * wl[i]]
  OBVIOUS
<1>8. /\ \A i \in 1..n : v[i] \in Int /\ w[i] \in Int
      /\ \A i \in 1..m : e[i] \in Int /\ f[i] \in Int
      /\ \A i \in 1..m : vl[i] \in Int /\ vu[i] \in Int /\ wl[i] \in Int /\ wu[i] \in Int
  BY <1>2, <1>6
<1>9. /\ Ints(x, n) /\ Ints(y, m) /\ Ints(p, m) /\ Ints(q, m)
      /\ Products(x, v, w, n) /\ Products(y, e, f, m)
      /\ Products(p, vl, wu, m) /\ Products(q, vu, wl, m)
  <2>1. Products(x, v, w, n) /\ Products(y, e, f, m)
    BY <1>7 DEF Products
  <2>2. Products(p, vl, wu, m) /\ Products(q, vu, wl, m)
    BY <1>7 DEF Products
  <2>3. \A i \in 1..n : x[i] \in Int
    BY <1>7, <1>8
  <2>4. \A i \in 1..m : y[i] \in Int
    BY <1>7, <1>8
  <2>5. \A i \in 1..m : p[i] \in Int
    BY <1>7, <1>8
  <2>6. \A i \in 1..m : q[i] \in Int
    BY <1>7, <1>8
  <2> QED BY <2>1, <2>2, <2>3, <2>4, <2>5, <2>6 DEF Ints
<1>10. DOMAIN v = 1..n /\ DOMAIN e = 1..m /\ DOMAIN vl = 1..m /\ DOMAIN vu = 1..m
  BY <1>2, <1>6
<1>11. /\ Dot(v, w) \in Int /\ Total(x, n) \in Int /\ Same(Dot(v, w), Total(x, n))
  BY <1>9, <1>10, DotIs
<1>12. /\ Dot(e, f) \in Int /\ Total(y, m) \in Int /\ Same(Dot(e, f), Total(y, m))
  BY <1>9, <1>10, DotIs
<1>13. /\ Dot(vl, wu) \in Int /\ Total(p, m) \in Int /\ Same(Dot(vl, wu), Total(p, m))
  BY <1>9, <1>10, DotIs
<1>14. /\ Dot(vu, wl) \in Int /\ Total(q, m) \in Int /\ Same(Dot(vu, wl), Total(q, m))
  BY <1>9, <1>10, DotIs
<1>15. \A i \in 1..m : i \in 1..n /\ m + i \in 1..n
  BY <1>1
<1>16. Crosses(p, v, w, m)
  BY <1>3, <1>4, <1>5, <1>7 DEF Crosses
<1>17. Crosses(q, w, v, m)
  <2> SUFFICES ASSUME NEW i \in 1..m PROVE q[i] = w[i] * v[m + i]
    BY DEF Crosses
  <2>1. i \in 1..n /\ m + i \in 1..n
    BY <1>15
  <2>2. q[i] = v[m + i] * w[i]
    BY <1>3, <1>4, <1>5, <1>7
  <2>3. w[i] \in Int /\ v[m + i] \in Int
    BY <1>8, <2>1
  <2> QED BY <2>2, <2>3
<1>18. Ints(v, n) /\ Ints(w, n) /\ Ints(e, m) /\ Ints(f, m)
  BY <1>8 DEF Ints
<1>19. Same(Total(y, m), Total(x, n) + (c * c) * Total(p, m) + (d * d) * Total(q, m))
  BY <1>1, <1>9, <1>16, <1>17, <1>18, FoldProduct
<1>20. Same(Dot(e, f), Dot(v, w) + (c * c) * Dot(vl, wu) + (d * d) * Dot(vu, wl))
  <2>1. PICK y0 \in Int, x0 \in Int, p0 \in Int, q0 \in Int :
           y0 = Total(y, m) /\ x0 = Total(x, n) /\ p0 = Total(p, m) /\ q0 = Total(q, m)
    BY <1>11, <1>12, <1>13, <1>14
  <2>2. PICK y1 \in Int, x1 \in Int, p1 \in Int, q1 \in Int :
           y1 = Dot(e, f) /\ x1 = Dot(v, w) /\ p1 = Dot(vl, wu) /\ q1 = Dot(vu, wl)
    BY <1>11, <1>12, <1>13, <1>14
  <2>3. /\ Same(y1, y0) /\ Same(x1, x0) /\ Same(p1, p0) /\ Same(q1, q0)
        /\ Same(y0, x0 + (c * c) * p0 + (d * d) * q0)
    BY <1>11, <1>12, <1>13, <1>14, <1>19, <2>1, <2>2
  <2>4. Same(y1, x1 + (c * c) * p1 + (d * d) * q1)
    BY <2>3, SameFolded
  <2> QED BY <2>2, <2>4
<1> QED BY <1>3, <1>11, <1>12, <1>13, <1>14, <1>20

-----------------------------------------------------------------------------
\* What a commitment to two vectors and their product is, coordinate by coordinate.
LEMMA CommittedIs ==
    ASSUME NEW n \in Nat, NEW g, g \in [1..n -> Points], NEW h, h \in [1..n -> Points],
           NEW a, a \in [1..n -> Int], NEW b, b \in [1..n -> Int], NEW u, u \in Points
    PROVE  /\ Committed(g, h, a, b, u) \in Points
           /\ \A e \in Generator :
                 /\ Committed(g, h, a, b, u)[e] \in Int /\ u[e] \in Int
                 /\ Multi(g, a)[e] \in Int /\ Multi(h, b)[e] \in Int /\ Dot(a, b) \in Int
                 /\ Same(Committed(g, h, a, b, u)[e], Multi(g, a)[e] + Multi(h, b)[e] + u[e] * Dot(a, b))
<1>1. g \in [1..n -> Combinations] /\ h \in [1..n -> Combinations] /\ u \in Combinations
  BY PointsCombine
<1>2. Multi(g, a) \in Combinations /\ Multi(h, b) \in Combinations
  <2>1. Multi(g, a) \in Points
    BY <1>1, MultiIs
  <2>2. Multi(h, b) \in Points
    BY <1>1, MultiIs
  <2> QED BY <2>1, <2>2, PointsCombine
<1>3. Dot(a, b) \in Int
  <2>1. PICK x : x = [i \in 1..n |-> a[i] * b[i]]
    OBVIOUS
  <2>2. Products(x, a, b, n)
    BY <2>1 DEF Products
  <2>3. \A i \in 1..n : a[i] \in Int /\ b[i] \in Int
    OBVIOUS
  <2>4. Ints(x, n)
    BY <2>1, <2>3 DEF Ints
  <2>5. DOMAIN a = 1..n
    OBVIOUS
  <2> QED BY <2>2, <2>4, <2>5, DotIs
<1>4. PICK p, q, r, k : p = Multi(g, a) /\ q = Multi(h, b) /\ k = Dot(a, b) /\ r = Times(k, u)
  OBVIOUS
<1>5. r \in Combinations /\ \A e \in Generator : r[e] \in Int /\ Same(r[e], u[e] * k)
  <2>1. /\ Times(k, u) \in Points
        /\ \A e \in Generator : Times(k, u)[e] \in Int /\ Same(Times(k, u)[e], u[e] * k)
    BY <1>1, <1>3, <1>4, TimesIs
  <2> QED BY <1>4, <2>1, PointsCombine
<1>6. /\ Add(<<p, q, r>>) \in Points
      /\ \A e \in Generator : Add(<<p, q, r>>)[e] \in Int /\ Same(Add(<<p, q, r>>)[e], p[e] + q[e] + r[e])
  <2>1. p \in Combinations /\ q \in Combinations /\ r \in Combinations
    BY <1>2, <1>4, <1>5
  <2> QED BY <2>1, ThreeAdd
<1>7. Committed(g, h, a, b, u) = Add(<<p, q, r>>)
  BY <1>4 DEF Committed
<1>8. ASSUME NEW e \in Generator
      PROVE  /\ Add(<<p, q, r>>)[e] \in Int /\ u[e] \in Int
             /\ p[e] \in Int /\ q[e] \in Int /\ k \in Int
             /\ Same(Add(<<p, q, r>>)[e], p[e] + q[e] + u[e] * k)
  <2>1. p[e] \in Int /\ q[e] \in Int /\ u[e] \in Int /\ k \in Int /\ r[e] \in Int
    BY <1>1, <1>2, <1>3, <1>4, <1>5 DEF Combinations
  <2>2. PICK x \in Int, y \in Int, z \in Int : x = p[e] + q[e] /\ y = r[e] /\ z = u[e] * k
    <3>1. u[e] * k \in Int /\ p[e] + q[e] \in Int
      BY <2>1
    <3> QED BY <2>1, <3>1
  <2>3. Same(x, x) /\ Same(y, z)
    BY <1>5, <2>2 DEF Same
  <2>4. Same(x + y, x + z)
    BY <2>3, SameSum
  <2> QED BY <1>6, <2>1, <2>2, <2>4 DEF Same
<1> QED BY <1>4, <1>6, <1>7, <1>8

\* A commitment's three terms, and a term after a round.
Committing(l, x, y, z, u) == Same(l, x + y + u * z)
Folding(n, o, l, r, C, D) == Same(n, o + C * l + D * r)

\* How the three terms of a commitment fold.
LEMMA FoldTerms ==
    ASSUME NEW U \in Int, NEW C \in Int, NEW D \in Int,
           NEW l0 \in Int, NEW l1 \in Int, NEW l2 \in Int, NEW l3 \in Int,
           NEW r0 \in Int, NEW r1 \in Int, NEW r2 \in Int, NEW r3 \in Int,
           NEW o0 \in Int, NEW o1 \in Int, NEW o2 \in Int, NEW o3 \in Int,
           NEW n0 \in Int, NEW n1 \in Int, NEW n2 \in Int, NEW n3 \in Int,
           Committing(l0, l1, l2, l3, U), Committing(r0, r1, r2, r3, U),
           Committing(o0, o1, o2, o3, U), Committing(n0, n1, n2, n3, U),
           Folding(n1, o1, l1, r1, C, D), Folding(n2, o2, l2, r2, C, D),
           Folding(n3, o3, l3, r3, C, D)
    PROVE  Folding(n0, o0, l0, r0, C, D)
<1>1. /\ l1 + l2 + U * l3 \in Int /\ r1 + r2 + U * r3 \in Int
      /\ o1 + o2 + U * o3 \in Int /\ n1 + n2 + U * n3 \in Int
      /\ o1 + C * l1 + D * r1 \in Int /\ o2 + C * l2 + D * r2 \in Int
      /\ o3 + C * l3 + D * r3 \in Int
  OBVIOUS
<1>2. PICK kl \in Int, kr \in Int, ko \in Int, kn \in Int :
         /\ l0 = (l1 + l2 + U * l3) + kl * Order /\ r0 = (r1 + r2 + U * r3) + kr * Order
         /\ o0 = (o1 + o2 + U * o3) + ko * Order /\ n0 = (n1 + n2 + U * n3) + kn * Order
  BY <1>1, SameIff, SMTT(40) DEF Committing
<1>3. PICK k1 \in Int, k2 \in Int, k3 \in Int :
         /\ n1 = (o1 + C * l1 + D * r1) + k1 * Order /\ n2 = (o2 + C * l2 + D * r2) + k2 * Order
         /\ n3 = (o3 + C * l3 + D * r3) + k3 * Order
  BY <1>1, SameIff DEF Folding
<1>4. PICK k \in Int : k = k1 + k2 + U * k3 + kn - ko - C * kl - D * kr
  OBVIOUS
<1>5. n0 = (o0 + C * l0 + D * r0) + k * Order
  BY <1>2, <1>3, <1>4, OrderIs
<1>6. o0 + C * l0 + D * r0 \in Int
  OBVIOUS
<1> QED BY <1>5, <1>6, SameIff DEF Folding

\* One round keeps what is committed to, but for what the prover publishes.
LEMMA FoldCommitted ==
    ASSUME NEW m \in Nat, NEW c \in Int, NEW d \in Int, Same(c * d, 1),
           NEW g, g \in PointLists(m + m), NEW h, h \in PointLists(m + m),
           NEW a, a \in Scalars(m + m), NEW b, b \in Scalars(m + m), NEW u, u \in Points,
           NEW g2, g2 \in [1..m -> Points], NEW h2, h2 \in [1..m -> Points],
           NEW a2, a2 \in [1..m -> Int], NEW b2, b2 \in [1..m -> Int],
           Folds(a2, a, c, d, m), Folds(b2, b, d, c, m),
           \A i \in 1..m, e \in Generator : Same(g2[i][e], g[i][e] * d + g[m + i][e] * c),
           \A i \in 1..m, e \in Generator : Same(h2[i][e], h[i][e] * c + h[m + i][e] * d),
           NEW left, left = Add(<<Multi(Upper(g), Lower(a)), Multi(Lower(h), Upper(b)),
                                  Times(Dot(Lower(a), Upper(b)), u)>>),
           NEW right, right = Add(<<Multi(Lower(g), Upper(a)), Multi(Upper(h), Lower(b)),
                                    Times(Dot(Upper(a), Lower(b)), u)>>)
    PROVE  /\ left \in Points /\ right \in Points
           /\ Committed(g2, h2, a2, b2, u) \in Points /\ Committed(g, h, a, b, u) \in Points
           /\ \A e \in Generator :
                 Same(Committed(g2, h2, a2, b2, u)[e],
                      Committed(g, h, a, b, u)[e] + (c * c) * left[e] + (d * d) * right[e])
<1>1. PICK n \in Nat : n = m + m
  OBVIOUS
<1>2. /\ g \in [1..n -> Points] /\ h \in [1..n -> Points] /\ a \in [1..n -> Int] /\ b \in [1..n -> Int]
  <2>1. g \in PointLists(n) /\ h \in PointLists(n) /\ a \in Scalars(n) /\ b \in Scalars(n)
    BY <1>1
  <2> QED BY <2>1, ListsAre
<1>3. PICK gl, gh, hl, hh : gl = Lower(g) /\ gh = Upper(g) /\ hl = Lower(h) /\ hh = Upper(h)
  OBVIOUS
<1>4. PICK al, ah, bl, bh : al = Lower(a) /\ ah = Upper(a) /\ bl = Lower(b) /\ bh = Upper(b)
  OBVIOUS
<1>5. /\ gl \in [1..m -> Points] /\ gh \in [1..m -> Points]
      /\ hl \in [1..m -> Points] /\ hh \in [1..m -> Points]
  <2>1. /\ g \in Seq(Points) /\ Len(g) = m + m /\ h \in Seq(Points) /\ Len(h) = m + m
    BY DEF PointLists
  <2>2. Lower(g) \in [1..m -> Points] /\ Upper(g) \in [1..m -> Points]
    BY <2>1, HalvesAre
  <2>3. Lower(h) \in [1..m -> Points] /\ Upper(h) \in [1..m -> Points]
    BY <2>1, HalvesAre
  <2> QED BY <1>3, <2>2, <2>3
<1>6. /\ al \in [1..m -> Int] /\ ah \in [1..m -> Int]
      /\ bl \in [1..m -> Int] /\ bh \in [1..m -> Int]
  <2>1. /\ a \in Seq(Int) /\ Len(a) = m + m /\ b \in Seq(Int) /\ Len(b) = m + m
    BY DEF Scalars
  <2>2. Lower(a) \in [1..m -> Int] /\ Upper(a) \in [1..m -> Int]
    BY <2>1, HalvesAre
  <2>3. Lower(b) \in [1..m -> Int] /\ Upper(b) \in [1..m -> Int]
    BY <2>1, HalvesAre
  <2> QED BY <1>4, <2>2, <2>3
<1>7. left = Committed(gh, hl, al, bh, u) /\ right = Committed(gl, hh, ah, bl, u)
  BY <1>3, <1>4 DEF Committed
<1>8. /\ left \in Points /\ \A e \in Generator :
            /\ left[e] \in Int /\ u[e] \in Int
            /\ Multi(gh, al)[e] \in Int /\ Multi(hl, bh)[e] \in Int /\ Dot(al, bh) \in Int
            /\ Same(left[e], Multi(gh, al)[e] + Multi(hl, bh)[e] + u[e] * Dot(al, bh))
  <2>1. /\ Committed(gh, hl, al, bh, u) \in Points /\ \A e \in Generator :
            /\ Committed(gh, hl, al, bh, u)[e] \in Int /\ u[e] \in Int
            /\ Multi(gh, al)[e] \in Int /\ Multi(hl, bh)[e] \in Int /\ Dot(al, bh) \in Int
            /\ Same(Committed(gh, hl, al, bh, u)[e],
                    Multi(gh, al)[e] + Multi(hl, bh)[e] + u[e] * Dot(al, bh))
    BY <1>5, <1>6, CommittedIs
  <2> QED BY <1>7, <2>1
<1>9. /\ right \in Points /\ \A e \in Generator :
            /\ right[e] \in Int /\ u[e] \in Int
            /\ Multi(gl, ah)[e] \in Int /\ Multi(hh, bl)[e] \in Int /\ Dot(ah, bl) \in Int
            /\ Same(right[e], Multi(gl, ah)[e] + Multi(hh, bl)[e] + u[e] * Dot(ah, bl))
  <2>1. /\ Committed(gl, hh, ah, bl, u) \in Points /\ \A e \in Generator :
            /\ Committed(gl, hh, ah, bl, u)[e] \in Int /\ u[e] \in Int
            /\ Multi(gl, ah)[e] \in Int /\ Multi(hh, bl)[e] \in Int /\ Dot(ah, bl) \in Int
            /\ Same(Committed(gl, hh, ah, bl, u)[e],
                    Multi(gl, ah)[e] + Multi(hh, bl)[e] + u[e] * Dot(ah, bl))
    BY <1>5, <1>6, CommittedIs
  <2> QED BY <1>7, <2>1
<1>10. PICK old, new : old = Committed(g, h, a, b, u) /\ new = Committed(g2, h2, a2, b2, u)
  OBVIOUS
<1>11. /\ old \in Points /\ \A e \in Generator :
            /\ old[e] \in Int /\ u[e] \in Int
            /\ Multi(g, a)[e] \in Int /\ Multi(h, b)[e] \in Int /\ Dot(a, b) \in Int
            /\ Same(old[e], Multi(g, a)[e] + Multi(h, b)[e] + u[e] * Dot(a, b))
  BY <1>2, <1>10, CommittedIs
<1>12. /\ new \in Points /\ \A e \in Generator :
            /\ new[e] \in Int /\ u[e] \in Int
            /\ Multi(g2, a2)[e] \in Int /\ Multi(h2, b2)[e] \in Int /\ Dot(a2, b2) \in Int
            /\ Same(new[e], Multi(g2, a2)[e] + Multi(h2, b2)[e] + u[e] * Dot(a2, b2))
  BY <1>10, CommittedIs
<1>13. Same(d * c, 1)
  BY DEF Same
<1>14. ASSUME NEW e \in Generator
       PROVE  Same(new[e], old[e] + (c * c) * left[e] + (d * d) * right[e])
  <2>1. Same(Multi(g2, a2)[e], Multi(g, a)[e] + (c * c) * Multi(gh, al)[e] + (d * d) * Multi(gl, ah)[e])
    BY <1>3, <1>4, FoldMulti
  <2>2. Same(Multi(h2, b2)[e], Multi(h, b)[e] + (d * d) * Multi(hh, bl)[e] + (c * c) * Multi(hl, bh)[e])
    BY <1>3, <1>4, <1>13, FoldMulti
  <2>3. Same(Dot(a2, b2), Dot(a, b) + (c * c) * Dot(al, bh) + (d * d) * Dot(ah, bl))
    BY <1>4, FoldDot
  <2>4. PICK U \in Int, C \in Int, D \in Int : U = u[e] /\ C = c * c /\ D = d * d
    <3>1. u[e] \in Int /\ c * c \in Int /\ d * d \in Int
      BY <1>8
    <3> QED BY <3>1
  <2>5. PICK l0 \in Int, l1 \in Int, l2 \in Int, l3 \in Int :
           l0 = left[e] /\ l1 = Multi(gh, al)[e] /\ l2 = Multi(hl, bh)[e] /\ l3 = Dot(al, bh)
    BY <1>8
  <2>6. PICK r0 \in Int, r1 \in Int, r2 \in Int, r3 \in Int :
           r0 = right[e] /\ r1 = Multi(gl, ah)[e] /\ r2 = Multi(hh, bl)[e] /\ r3 = Dot(ah, bl)
    BY <1>9
  <2>7. PICK o0 \in Int, o1 \in Int, o2 \in Int, o3 \in Int :
           o0 = old[e] /\ o1 = Multi(g, a)[e] /\ o2 = Multi(h, b)[e] /\ o3 = Dot(a, b)
    BY <1>11
  <2>8. PICK n0 \in Int, n1 \in Int, n2 \in Int, n3 \in Int :
           n0 = new[e] /\ n1 = Multi(g2, a2)[e] /\ n2 = Multi(h2, b2)[e] /\ n3 = Dot(a2, b2)
    BY <1>12
  <2>9. /\ Committing(l0, l1, l2, l3, U) /\ Committing(r0, r1, r2, r3, U)
        /\ Committing(o0, o1, o2, o3, U) /\ Committing(n0, n1, n2, n3, U)
    BY <1>8, <1>9, <1>11, <1>12, <2>4, <2>5, <2>6, <2>7, <2>8 DEF Committing
  <2>10. /\ Folding(n1, o1, l1, r1, C, D) /\ Folding(n3, o3, l3, r3, C, D)
    BY <2>1, <2>3, <2>4, <2>5, <2>6, <2>7, <2>8 DEF Folding
  <2>11. Folding(n2, o2, l2, r2, C, D)
    <3>1. Same(n2, o2 + D * r2 + C * l2)
      BY <2>2, <2>4, <2>5, <2>6, <2>7, <2>8
    <3>2. o2 + D * r2 + C * l2 = o2 + C * l2 + D * r2
      OBVIOUS
    <3> QED BY <3>1, <3>2 DEF Folding
  <2>12. Folding(n0, o0, l0, r0, C, D)
    BY <2>9, <2>10, <2>11, FoldTerms
  <2> QED BY <2>4, <2>5, <2>6, <2>7, <2>8, <2>12 DEF Folding
<1> QED BY <1>8, <1>9, <1>10, <1>11, <1>12, <1>14

-----------------------------------------------------------------------------
\* Folding n = Width generators to n: generator i of the kind e is in the element
\* whose place is i's rest, with the weight w[i]; no other generator is.
Place(i, n) == ((i - 1) % n) + 1
Part(e, w, n, j, b) == IF b \in {e} \X Index /\ Place(b[2], n) = j THEN w[b[2]] ELSE 0
Spread(P, e, w, n) == \A j \in 1..n, b \in Generator : Same(P[j][b], Part(e, w, n, j, b))

\* A multiple of 0 is 0.
LEMMA NoneOf ==
    ASSUME NEW a \in Int, NEW c \in Int, Same(a, 0)
    PROVE  Same(a * c, 0)
<1>1. 0 \in Int /\ 0 * c = 0
  OBVIOUS
<1>2. Same(a * c, 0 * c)
  BY <1>1, SameTimes
<1> QED BY <1>1, <1>2

\* A generator is in one of the folded elements.
LEMMA PlaceIs ==
    ASSUME NEW n \in Nat \ {0}, NEW i \in Nat \ {0}
    PROVE  Place(i, n) \in 1..n
<1>1. i - 1 \in Nat
  OBVIOUS
<1>2. PICK a \in Nat : a = i - 1
  BY <1>1
<1>3. a % n \in 0..(n - 1)
  BY TwiceRest
<1> QED BY <1>2, <1>3 DEF Place

\* A point combined from spread generators has its place's number times the weight.
LEMMA SpreadMulti ==
    ASSUME NEW n \in Nat \ {0}, NEW P, P \in [1..n -> Points], NEW v, v \in [1..n -> Int],
           NEW e, NEW w, Ints(w, Width), Spread(P, e, w, n), NEW b \in Generator
    PROVE  /\ Multi(P, v)[b] \in Int
           /\ b \in {e} \X Index => /\ b[2] \in Index /\ w[b[2]] \in Int
                                    /\ Place(b[2], n) \in 1..n /\ v[Place(b[2], n)] \in Int
                                    /\ Same(Multi(P, v)[b], w[b[2]] * v[Place(b[2], n)])
           /\ b \notin {e} \X Index => Same(Multi(P, v)[b], 0)
<1>1. P \in [1..n -> Combinations] /\ n \in Nat
  BY PointsCombine
<1>2. PICK x : x = [j \in 1..n |-> P[j][b] * v[j]]
  OBVIOUS
<1>3. /\ Ints(x, n) /\ Total(x, n) \in Int /\ Multi(P, v)[b] \in Int
      /\ Same(Multi(P, v)[b], Total(x, n))
  <2>1. \A j \in 1..n : x[j] = P[j][b] * v[j]
    BY <1>2
  <2> QED BY <1>1, <2>1, MultiIs
<1>4. \A j \in 1..n : P[j][b] \in Int /\ v[j] \in Int
  BY <1>1 DEF Combinations
<1>5. \A j \in 1..n : Same(P[j][b], Part(e, w, n, j, b))
  BY DEF Spread
<1>6. CASE b \in {e} \X Index
  <2>1. b[2] \in Index
    BY <1>6
  <2>2. PICK i \in Index : i = b[2]
    BY <2>1
  <2>3. w[i] \in Int /\ i \in Nat \ {0}
    BY <2>2, WidthIs DEF Ints
  <2>4. PICK j \in 1..n : j = Place(i, n)
    BY <2>3, PlaceIs
  <2>5. Same(x[j], w[i] * v[j])
    <3>1. Same(P[j][b], w[i])
      BY <1>5, <1>6, <2>2, <2>4 DEF Part
    <3>2. Same(P[j][b] * v[j], w[i] * v[j])
      BY <1>4, <2>3, <3>1, SameTimes
    <3> QED BY <1>2, <3>2
  <2>6. ASSUME NEW k \in 1..n, k # j PROVE Same(x[k], 0)
    <3>1. Same(P[k][b], 0)
      BY <1>5, <1>6, <2>2, <2>4, <2>6 DEF Part
    <3>2. Same(P[k][b] * v[k], 0)
      BY <1>4, <3>1, NoneOf
    <3> QED BY <1>2, <3>2
  <2>7. Same(Total(x, n), x[j])
    BY <1>1, <1>3, <2>6, TotalOnly
  <2>8. Same(Multi(P, v)[b], w[i] * v[j])
    BY <1>3, <2>5, <2>7 DEF Same
  <2> QED BY <1>3, <1>4, <1>6, <2>2, <2>3, <2>4, <2>8
<1>7. CASE b \notin {e} \X Index
  <2>1. ASSUME NEW k \in 1..n PROVE Same(x[k], 0)
    <3>1. Same(P[k][b], 0)
      BY <1>5, <1>7 DEF Part
    <3>2. Same(P[k][b] * v[k], 0)
      BY <1>4, <3>1, NoneOf
    <3> QED BY <1>2, <3>2
  <2>2. 1 \in 1..n
    OBVIOUS
  <2>3. Same(Total(x, n), x[1])
    BY <1>1, <1>3, <2>1, <2>2, TotalOnly
  <2>4. Same(Multi(P, v)[b], 0)
    BY <1>3, <2>1, <2>2, <2>3 DEF Same
  <2> QED BY <1>3, <1>7, <2>4
<1> QED BY <1>6, <1>7

\* Points folded with two factors, and weights rescaled by them, after a bit.
FoldsPoints(Q, P, lo, hi, m) ==
    \A j \in 1..m, b \in Generator : Same(Q[j][b], P[j][b] * lo + P[m + j][b] * hi)
Rescales(x, w, lo, hi, k) ==
    \A i \in Index : x[i] = w[i] * (IF Bit(i - 1, k + 1) = 1 THEN hi ELSE lo)

\* Folding spread generators spreads them over half as many elements.
LEMMA FoldSpread ==
    ASSUME NEW k \in Nat, NEW m \in Nat, m = Power(2, k),
           NEW P, P \in [1..(m + m) -> Points], NEW Q, Q \in [1..m -> Points],
           NEW lo \in Int, NEW hi \in Int,
           FoldsPoints(Q, P, lo, hi, m),
           NEW e, NEW w, Ints(w, Width), Spread(P, e, w, m + m),
           NEW x, Rescales(x, w, lo, hi, k)
    PROVE  Spread(Q, e, x, m)
<1>1. m \in Nat \ {0}
  BY PowersOfTwo
<1> SUFFICES ASSUME NEW j \in 1..m, NEW b \in Generator
             PROVE  Same(Q[j][b], Part(e, x, m, j, b))
  BY DEF Spread
<1>2. /\ j \in 1..(m + m) /\ m + j \in 1..(m + m)
  OBVIOUS
<1>3. P[j][b] \in Int /\ P[m + j][b] \in Int /\ Q[j][b] \in Int
  BY <1>2, PointsCombine DEF Combinations
<1>4. PICK s \in Int, t \in Int, q \in Int : s = P[j][b] /\ t = P[m + j][b] /\ q = Q[j][b]
  BY <1>3
<1>5. Same(q, s * lo + t * hi)
  BY <1>4 DEF FoldsPoints
<1>6. Same(s, Part(e, w, m + m, j, b)) /\ Same(t, Part(e, w, m + m, m + j, b))
  BY <1>2, <1>4 DEF Spread
<1>7. ASSUME NEW s0 \in Int, NEW t0 \in Int, Same(s, s0), Same(t, t0)
      PROVE  Same(q, s0 * lo + t0 * hi)
  <2>1. Same(s * lo, s0 * lo) /\ Same(t * hi, t0 * hi)
    BY <1>7, SameTimes
  <2>2. PICK s1 \in Int, s2 \in Int, t1 \in Int, t2 \in Int :
           s1 = s * lo /\ s2 = s0 * lo /\ t1 = t * hi /\ t2 = t0 * hi
    <3>1. s * lo \in Int /\ s0 * lo \in Int /\ t * hi \in Int /\ t0 * hi \in Int
      BY <1>7
    <3> QED BY <3>1
  <2>3. Same(s1 + t1, s2 + t2)
    BY <2>1, <2>2, SameSum
  <2> QED BY <1>5, <2>2, <2>3 DEF Same
<1>8. CASE b \notin {e} \X Index
  <2>1. Same(s, 0) /\ Same(t, 0)
    BY <1>6, <1>8 DEF Part
  <2>2. Same(q, 0 * lo + 0 * hi)
    BY <1>7, <2>1
  <2>3. 0 * lo + 0 * hi = 0
    OBVIOUS
  <2> QED BY <1>4, <1>8, <2>2, <2>3 DEF Part
<1>9. CASE b \in {e} \X Index
  <2>1. b[2] \in Index
    BY <1>9
  <2>2. PICK i \in Index : i = b[2]
    BY <2>1
  <2>3. w[i] \in Int /\ i \in Nat \ {0} /\ i - 1 \in Nat
    <3>1. Index = 1..Width /\ Width \in Nat
      BY WidthIs
    <3>2. i \in 1..Width
      BY <3>1
    <3>3. w[i] \in Int
      BY <3>2 DEF Ints
    <3> QED BY <3>1, <3>2, <3>3
  <2>4. PICK a \in Nat, W \in Int : a = i - 1 /\ W = w[i]
    BY <2>3
  <2>5. PICK B \in {0, 1}, r \in 0..(m - 1), R \in Int : B = Bit(a, k + 1) /\ r = a % m /\ R = a % (2 * m)
    <3>1. a % m \in 0..(m - 1) /\ a % (2 * m) \in Int
      BY <1>1
    <3>2. Bit(a, k + 1) \in {0, 1}
      BY BitIs
    <3> QED BY <3>1, <3>2
  <2>6. (B = 0 /\ R = r) \/ (B = 1 /\ R = r + m)
    <3>1. a % Power(2, k + 1) = (a % Power(2, k)) + Power(2, k) * Bit(a, k + 1)
      BY BitIs
    <3>2. Power(2, k + 1) = 2 * m
      BY PowersOfTwo
    <3>3. R = r + m * B
      BY <2>5, <3>1, <3>2
    <3> QED BY <1>1, <3>3, SMTT(40)
  <2>7. Place(i, m) = r + 1 /\ Place(i, m + m) = R + 1
    <3>1. m + m = 2 * m
      OBVIOUS
    <3> QED BY <2>4, <2>5, <3>1 DEF Place
  <2>8. x[i] = W * (IF B = 1 THEN hi ELSE lo)
    BY <2>4, <2>5 DEF Rescales
  <2>9. /\ Part(e, w, m + m, j, b) = (IF R + 1 = j THEN W ELSE 0)
        /\ Part(e, w, m + m, m + j, b) = (IF R + 1 = m + j THEN W ELSE 0)
        /\ Part(e, x, m, j, b) = (IF r + 1 = j THEN x[i] ELSE 0)
    BY <1>9, <2>2, <2>4, <2>7 DEF Part
  <2>10. CASE r + 1 = j /\ B = 0
    <3>1. R = r /\ R + 1 # m + j
      BY <2>6, <2>10, <1>1
    <3>2. Same(s, W) /\ Same(t, 0)
      BY <1>6, <2>9, <2>10, <3>1
    <3>3. Same(q, W * lo + 0 * hi)
      BY <1>7, <3>2
    <3>4. W * lo + 0 * hi = Part(e, x, m, j, b)
      BY <2>8, <2>9, <2>10
    <3> QED BY <1>4, <3>3, <3>4
  <2>11. CASE r + 1 = j /\ B = 1
    <3>1. R + 1 # j /\ R + 1 = m + j
      <4>1. R = r + m /\ r \in Nat /\ m \in Nat \ {0}
        BY <2>6, <2>11, <1>1
      <4>2. j = r + 1
        BY <2>11
      <4>3. R + 1 = m + j
        BY <4>1, <4>2
      <4>4. R + 1 # j
        BY <4>1, <4>2
      <4> QED BY <4>3, <4>4
    <3>2. Same(s, 0) /\ Same(t, W)
      BY <1>6, <2>9, <2>11, <3>1
    <3>3. Same(q, 0 * lo + W * hi)
      BY <1>7, <3>2
    <3>4. 0 * lo + W * hi = Part(e, x, m, j, b)
      BY <2>8, <2>9, <2>11
    <3> QED BY <1>4, <3>3, <3>4
  <2>12. CASE r + 1 # j
    <3>1. R + 1 # j /\ R + 1 # m + j
      BY <2>6, <2>12, <1>1, SMTT(40)
    <3>2. Same(s, 0) /\ Same(t, 0)
      BY <1>6, <2>9, <3>1
    <3>3. Same(q, 0 * lo + 0 * hi)
      BY <1>7, <3>2
    <3>4. 0 * lo + 0 * hi = Part(e, x, m, j, b)
      BY <2>9, <2>12
    <3> QED BY <1>4, <3>3, <3>4
  <2> QED BY <2>6, <2>10, <2>11, <2>12
<1> QED BY <1>8, <1>9

\* The generators themselves, each with a weight of its own.
LEMMA SpreadBases ==
    ASSUME NEW P, P \in [Index -> Points], NEW e, NEW w,
           \A i \in Index, b \in Generator : Same(P[i][b], IF b = <<e, i>> THEN w[i] ELSE 0)
    PROVE  Spread(P, e, w, Width)
<1> SUFFICES ASSUME NEW j \in 1..Width, NEW b \in Generator
             PROVE  Same(P[j][b], Part(e, w, Width, j, b))
  BY DEF Spread
<1>1. j \in Index
  BY WidthIs
<1>2. ASSUME NEW i \in Index PROVE Place(i, Width) = i
  <2>1. i - 1 \in 0..(Width - 1) /\ Width \in Nat \ {0}
    BY WidthIs
  <2>2. PICK a \in 0..(Width - 1) : a = i - 1
    BY <2>1
  <2>3. a % Width = a
    BY <2>1, SmallRest
  <2> QED BY <2>2, <2>3, WidthIs DEF Place
<1>3. (b \in {e} \X Index /\ Place(b[2], Width) = j) <=> b = <<e, j>>
  <2>1. CASE b \in {e} \X Index
    <3>1. b[2] \in Index /\ b = <<e, b[2]>>
      BY <2>1
    <3>2. Place(b[2], Width) = b[2]
      BY <1>2, <3>1
    <3> QED BY <2>1, <3>1, <3>2
  <2>2. CASE b \notin {e} \X Index
    BY <1>1, <2>2
  <2> QED BY <2>1, <2>2
<1>4. Part(e, w, Width, j, b) = (IF b = <<e, j>> THEN w[j] ELSE 0)
  <2>1. CASE b = <<e, j>>
    <3>1. b[2] = j
      BY <2>1
    <3> QED BY <1>3, <2>1, <3>1 DEF Part
  <2>2. CASE b # <<e, j>>
    BY <1>3, <2>2 DEF Part
  <2> QED BY <2>1, <2>2
<1> QED BY <1>1, <1>4

-----------------------------------------------------------------------------
\* The vectors of the range: powers of y, and the generators they rescale.
Rescaled(y) == [i \in Index |-> Times(Inv(Powers(y)[i]), HS[i])]
OnG(b) == b \in {"g"} \X Index
OnH(b) == b \in {"h"} \X Index

\* A generator is of one of four kinds.
LEMMA Kinds ==
    ASSUME NEW b \in Generator
    PROVE  \/ OnG(b) /\ ~ OnH(b) /\ b # <<"G", 0>> /\ b # <<"H", 0>> /\ b[2] \in Index
           \/ ~ OnG(b) /\ OnH(b) /\ b # <<"G", 0>> /\ b # <<"H", 0>> /\ b[2] \in Index
           \/ ~ OnG(b) /\ ~ OnH(b) /\ b = <<"G", 0>> /\ b # <<"H", 0>>
           \/ ~ OnG(b) /\ ~ OnH(b) /\ b # <<"G", 0>> /\ b = <<"H", 0>>
<1>1. CASE b \in {"g"} \X Index
  <2>1. b[1] = "g" /\ b[2] \in Index
    BY <1>1
  <2> QED BY <1>1, <2>1 DEF OnG, OnH
<1>2. CASE b \in {"h"} \X Index
  <2>1. b[1] = "h" /\ b[2] \in Index
    BY <1>2
  <2> QED BY <1>2, <2>1 DEF OnG, OnH
<1>3. CASE b = <<"G", 0>>
  BY <1>3 DEF OnG, OnH
<1>4. CASE b = <<"H", 0>>
  BY <1>4 DEF OnG, OnH
<1>5. b \in {"g"} \X Index \/ b \in {"h"} \X Index \/ b = <<"G", 0>> \/ b = <<"H", 0>>
  BY DEF Generator
<1> QED BY <1>1, <1>2, <1>3, <1>4, <1>5

\* The powers of an answer are scalars with inverses.
LEMMA PowersAre ==
    ASSUME NEW y \in Answer
    PROVE  /\ Powers(y) \in [Index -> Int]
           /\ \A i \in Index : /\ Powers(y)[i] \in Int /\ ~ Same(Powers(y)[i], 0)
                               /\ Inv(Powers(y)[i]) \in Int
                               /\ Same(Powers(y)[i] * Inv(Powers(y)[i]), 1)
<1>1. ASSUME NEW i \in Index
      PROVE  /\ Power(y, i - 1) % Order \in Int /\ ~ Same(Power(y, i - 1) % Order, 0)
  <2>1. PICK n \in Nat : n = i - 1
    BY WidthIs
  <2>2. y \in Int /\ ~ Same(y, 0)
    BY AnswerIs
  <2>3. Power(y, n) \in Int /\ ~ Same(Power(y, n), 0)
    BY <2>2, PowerNotZero
  <2>4. Power(y, n) % Order \in Int /\ Same(Power(y, n) % Order, Power(y, n))
    BY <2>3, SameRest
  <2> QED BY <2>1, <2>3, <2>4 DEF Same
<1>2. \A i \in Index : Powers(y)[i] = Power(y, i - 1) % Order
  BY DEF Powers
<1>3. \A i \in Index : Powers(y)[i] \in Int /\ ~ Same(Powers(y)[i], 0)
  BY <1>1, <1>2
<1>4. Powers(y) \in [Index -> Int]
  BY <1>3 DEF Powers
<1>5. ASSUME NEW i \in Index
      PROVE  Inv(Powers(y)[i]) \in Int /\ Same(Powers(y)[i] * Inv(Powers(y)[i]), 1)
  <2>1. PICK k \in Int : k = Powers(y)[i] /\ ~ Same(k, 0)
    BY <1>3
  <2>2. Inv(k) \in 1..(Order - 1) /\ Same(k * Inv(k), 1)
    BY <2>1, Inverses
  <2> QED BY <2>1, <2>2, OrderIs
<1> QED BY <1>3, <1>4, <1>5

\* Combining points each of which has a weight on a generator of its own.
LEMMA BasisMulti ==
    ASSUME NEW P, P \in [Index -> Points], NEW e, NEW w, Ints(w, Width),
           \A i \in Index, b \in Generator : Same(P[i][b], IF b = <<e, i>> THEN w[i] ELSE 0),
           NEW v, v \in [Index -> Int]
    PROVE  /\ Multi(P, v) \in Points
           /\ \A b \in Generator :
                 /\ Multi(P, v)[b] \in Int
                 /\ b \in {e} \X Index => /\ b[2] \in Index /\ w[b[2]] \in Int /\ v[b[2]] \in Int
                                          /\ Same(Multi(P, v)[b], w[b[2]] * v[b[2]])
                 /\ b \notin {e} \X Index => Same(Multi(P, v)[b], 0)
<1>1. Width \in Nat \ {0} /\ P \in [1..Width -> Points] /\ v \in [1..Width -> Int]
  BY WidthIs
<1>2. Spread(P, e, w, Width)
  BY SpreadBases
<1>3. Multi(P, v) \in Points
  <2>1. P \in [1..Width -> Combinations] /\ Width \in Nat
    BY <1>1, PointsCombine
  <2> QED BY <1>1, <2>1, MultiIs
<1>4. ASSUME NEW i \in Index PROVE Place(i, Width) = i
  <2>1. i - 1 \in 0..(Width - 1) /\ Width \in Nat \ {0}
    BY WidthIs
  <2>2. PICK a \in 0..(Width - 1) : a = i - 1
    BY <2>1
  <2>3. a % Width = a
    BY <2>1, SmallRest
  <2> QED BY <2>2, <2>3, WidthIs DEF Place
<1>5. ASSUME NEW b \in Generator
      PROVE  /\ Multi(P, v)[b] \in Int
             /\ b \in {e} \X Index => /\ b[2] \in Index /\ w[b[2]] \in Int /\ v[b[2]] \in Int
                                      /\ Same(Multi(P, v)[b], w[b[2]] * v[b[2]])
             /\ b \notin {e} \X Index => Same(Multi(P, v)[b], 0)
  <2>1. /\ Multi(P, v)[b] \in Int
        /\ b \in {e} \X Index => /\ b[2] \in Index /\ w[b[2]] \in Int
                                 /\ Same(Multi(P, v)[b], w[b[2]] * v[Place(b[2], Width)])
        /\ b \notin {e} \X Index => Same(Multi(P, v)[b], 0)
    BY <1>1, <1>2, SpreadMulti
  <2> QED BY <1>4, <2>1
<1> QED BY <1>3, <1>5

\* A vector over the generators of the left vector, one generator at a time.
LEMMA MultiOfG ==
    ASSUME NEW v, v \in [Index -> Int]
    PROVE  /\ Multi(GS, v) \in Points
           /\ \A b \in Generator :
                 /\ Multi(GS, v)[b] \in Int
                 /\ OnG(b) => v[b[2]] \in Int /\ Same(Multi(GS, v)[b], v[b[2]])
                 /\ ~ OnG(b) => Same(Multi(GS, v)[b], 0)
<1>1. PICK w : w = [i \in Index |-> 1]
  OBVIOUS
<1>2. Ints(w, Width)
  BY <1>1, WidthIs DEF Ints
<1>3. GS \in [Index -> Points]
  BY VectorBases
<1>4. \A i \in Index, b \in Generator : Same(GS[i][b], IF b = <<"g", i>> THEN w[i] ELSE 0)
  BY <1>1, VectorBases DEF Same
<1>5. /\ Multi(GS, v) \in Points
      /\ \A b \in Generator :
                 /\ Multi(GS, v)[b] \in Int
                 /\ b \in {"g"} \X Index => /\ b[2] \in Index /\ w[b[2]] \in Int /\ v[b[2]] \in Int
                                            /\ Same(Multi(GS, v)[b], w[b[2]] * v[b[2]])
                 /\ b \notin {"g"} \X Index => Same(Multi(GS, v)[b], 0)
  BY <1>2, <1>3, <1>4, BasisMulti
<1>6. \A i \in Index : w[i] * v[i] = v[i]
  BY <1>1
<1> QED BY <1>5, <1>6 DEF OnG

\* A vector over the generators of the right vector.
LEMMA MultiOfH ==
    ASSUME NEW v, v \in [Index -> Int]
    PROVE  /\ Multi(HS, v) \in Points
           /\ \A b \in Generator :
                 /\ Multi(HS, v)[b] \in Int
                 /\ OnH(b) => v[b[2]] \in Int /\ Same(Multi(HS, v)[b], v[b[2]])
                 /\ ~ OnH(b) => Same(Multi(HS, v)[b], 0)
<1>1. PICK w : w = [i \in Index |-> 1]
  OBVIOUS
<1>2. Ints(w, Width)
  BY <1>1, WidthIs DEF Ints
<1>3. HS \in [Index -> Points]
  BY VectorBases
<1>4. \A i \in Index, b \in Generator : Same(HS[i][b], IF b = <<"h", i>> THEN w[i] ELSE 0)
  BY <1>1, VectorBases DEF Same
<1>5. /\ Multi(HS, v) \in Points
      /\ \A b \in Generator :
                 /\ Multi(HS, v)[b] \in Int
                 /\ b \in {"h"} \X Index => /\ b[2] \in Index /\ w[b[2]] \in Int /\ v[b[2]] \in Int
                                            /\ Same(Multi(HS, v)[b], w[b[2]] * v[b[2]])
                 /\ b \notin {"h"} \X Index => Same(Multi(HS, v)[b], 0)
  BY <1>2, <1>3, <1>4, BasisMulti
<1>6. \A i \in Index : w[i] * v[i] = v[i]
  BY <1>1
<1> QED BY <1>5, <1>6 DEF OnH

\* What the rescaled generators are made of.
LEMMA RescaledIs ==
    ASSUME NEW y \in Answer
    PROVE  LET w == [i \in Index |-> Inv(Powers(y)[i])]
           IN  /\ Rescaled(y) \in [Index -> Points] /\ Ints(w, Width)
               /\ \A i \in Index, b \in Generator :
                     Same(Rescaled(y)[i][b], IF b = <<"h", i>> THEN w[i] ELSE 0)
<1> DEFINE w == [i \in Index |-> Inv(Powers(y)[i])]
<1>1. \A i \in Index : w[i] \in Int
  BY PowersAre
<1>2. Ints(w, Width)
  BY <1>1, WidthIs DEF Ints
<1>3. HS \in [Index -> Combinations]
  BY VectorBases, PointsCombine
<1>4. \A i \in Index : Rescaled(y)[i] = Times(w[i], HS[i])
  BY DEF Rescaled
<1> HIDE DEF w
<1>5. ASSUME NEW i \in Index
      PROVE  /\ Times(w[i], HS[i]) \in Points
             /\ \A b \in Generator : Same(Times(w[i], HS[i])[b], IF b = <<"h", i>> THEN w[i] ELSE 0)
  <2>1. PICK k \in Int : k = w[i]
    BY <1>1
  <2>2. HS[i] \in Combinations
    BY <1>3
  <2>3. /\ Times(k, HS[i]) \in Points
        /\ \A b \in Generator : Same(Times(k, HS[i])[b], HS[i][b] * k)
    BY <2>2, TimesIs
  <2>4. \A b \in Generator : HS[i][b] * k = (IF b = <<"h", i>> THEN k ELSE 0)
    BY VectorBases
  <2> QED BY <2>1, <2>3, <2>4
<1>6. Rescaled(y) \in [Index -> Points]
  BY <1>4, <1>5 DEF Rescaled
<1> QED BY <1>2, <1>4, <1>5, <1>6 DEF w

\* A vector over the generators that are divided by the powers of y.
LEMMA MultiOfRescaled ==
    ASSUME NEW y \in Answer, NEW v, v \in [Index -> Int]
    PROVE  /\ Rescaled(y) \in [Index -> Points] /\ Multi(Rescaled(y), v) \in Points
           /\ \A b \in Generator :
                 /\ Multi(Rescaled(y), v)[b] \in Int
                 /\ OnH(b) => /\ v[b[2]] \in Int /\ Inv(Powers(y)[b[2]]) \in Int
                              /\ Same(Multi(Rescaled(y), v)[b], Inv(Powers(y)[b[2]]) * v[b[2]])
                 /\ ~ OnH(b) => Same(Multi(Rescaled(y), v)[b], 0)
<1>1. PICK P, w : P = Rescaled(y) /\ w = [i \in Index |-> Inv(Powers(y)[i])]
  OBVIOUS
<1>2. /\ P \in [Index -> Points] /\ Ints(w, Width)
      /\ \A i \in Index, b \in Generator : Same(P[i][b], IF b = <<"h", i>> THEN w[i] ELSE 0)
  BY <1>1, RescaledIs
<1>3. /\ Multi(P, v) \in Points
      /\ \A b \in Generator :
                 /\ Multi(P, v)[b] \in Int
                 /\ b \in {"h"} \X Index => /\ b[2] \in Index /\ w[b[2]] \in Int /\ v[b[2]] \in Int
                                            /\ Same(Multi(P, v)[b], w[b[2]] * v[b[2]])
                 /\ b \notin {"h"} \X Index => Same(Multi(P, v)[b], 0)
  BY <1>2, BasisMulti
<1>4. \A i \in Index : w[i] = Inv(Powers(y)[i])
  BY <1>1
<1> QED BY <1>1, <1>2, <1>3, <1>4 DEF OnH

-----------------------------------------------------------------------------
\* A commitment to two vectors.
LEMMA VectorPoint ==
    ASSUME NEW v, v \in [Index -> Int], NEW w, w \in [Index -> Int], NEW k \in Int,
           NEW p, p = Add(<<Multi(GS, v), Multi(HS, w), Times(k, BlindingBase)>>)
    PROVE  /\ p \in Points
           /\ \A b \in Generator :
                 /\ p[b] \in Int
                 /\ OnG(b) => Same(p[b], v[b[2]])
                 /\ OnH(b) => Same(p[b], w[b[2]])
                 /\ b = <<"G", 0>> => Same(p[b], k)
                 /\ b = <<"H", 0>> => Same(p[b], 0)
<1>1. PICK q, r, s : q = Multi(GS, v) /\ r = Multi(HS, w) /\ s = Times(k, BlindingBase)
  OBVIOUS
<1>2. /\ q \in Points
      /\ \A b \in Generator : /\ q[b] \in Int
                              /\ OnG(b) => v[b[2]] \in Int /\ Same(q[b], v[b[2]])
                              /\ ~ OnG(b) => Same(q[b], 0)
  BY <1>1, MultiOfG
<1>3. /\ r \in Points
      /\ \A b \in Generator : /\ r[b] \in Int
                              /\ OnH(b) => w[b[2]] \in Int /\ Same(r[b], w[b[2]])
                              /\ ~ OnH(b) => Same(r[b], 0)
  BY <1>1, MultiOfH
<1>4. /\ s \in Points
      /\ \A b \in Generator : s[b] \in Int /\ Same(s[b], IF b = <<"G", 0>> THEN k ELSE 0)
  <2>1. BlindingBase \in Combinations
    BY Bases, PointsCombine
  <2>2. /\ Times(k, BlindingBase) \in Points
        /\ \A b \in Generator : /\ Times(k, BlindingBase)[b] \in Int
                                /\ Same(Times(k, BlindingBase)[b], BlindingBase[b] * k)
    BY <2>1, TimesIs
  <2>3. \A b \in Generator : BlindingBase[b] * k = (IF b = <<"G", 0>> THEN k ELSE 0)
    BY Bases
  <2> QED BY <1>1, <2>2, <2>3
<1>5. /\ p \in Points
      /\ \A b \in Generator : p[b] \in Int /\ Same(p[b], q[b] + r[b] + s[b])
  <2>1. q \in Combinations /\ r \in Combinations /\ s \in Combinations
    BY <1>2, <1>3, <1>4, PointsCombine
  <2>2. p = Add(<<q, r, s>>)
    BY <1>1
  <2> QED BY <2>1, <2>2, ThreeAdd
<1>6. ASSUME NEW b \in Generator
      PROVE  /\ OnG(b) => Same(p[b], v[b[2]])
             /\ OnH(b) => Same(p[b], w[b[2]])
             /\ b = <<"G", 0>> => Same(p[b], k)
             /\ b = <<"H", 0>> => Same(p[b], 0)
  <2>1. PICK Q \in Int, R \in Int, T \in Int : Q = q[b] /\ R = r[b] /\ T = s[b]
    BY <1>2, <1>3, <1>4
  <2>2. ASSUME NEW Q0 \in Int, NEW R0 \in Int, NEW T0 \in Int, Same(Q, Q0), Same(R, R0), Same(T, T0)
        PROVE  Same(p[b], Q0 + R0 + T0)
    <3>1. Same(Q + R, Q0 + R0)
      BY <2>2, SameSum
    <3>2. PICK X \in Int, X0 \in Int : X = Q + R /\ X0 = Q0 + R0
      OBVIOUS
    <3>3. Same(X + T, X0 + T0)
      BY <2>2, <3>1, <3>2, SameSum
    <3> QED BY <1>5, <2>1, <3>2, <3>3 DEF Same
  <2>3. CASE OnG(b)
    <3>1. ~ OnH(b) /\ b # <<"G", 0>> /\ b # <<"H", 0>>
      BY <2>3, Kinds
    <3>2. Same(Q, v[b[2]]) /\ v[b[2]] \in Int /\ Same(R, 0) /\ Same(T, 0)
      BY <1>2, <1>3, <1>4, <2>1, <2>3, <3>1
    <3>3. PICK V \in Int : V = v[b[2]]
      BY <3>2
    <3>4. Same(p[b], V + 0 + 0)
      BY <2>2, <3>2, <3>3
    <3> QED BY <2>3, <3>1, <3>3, <3>4
  <2>4. CASE OnH(b)
    <3>1. ~ OnG(b) /\ b # <<"G", 0>> /\ b # <<"H", 0>>
      BY <2>4, Kinds
    <3>2. Same(Q, 0) /\ Same(R, w[b[2]]) /\ w[b[2]] \in Int /\ Same(T, 0)
      BY <1>2, <1>3, <1>4, <2>1, <2>4, <3>1
    <3>3. PICK V \in Int : V = w[b[2]]
      BY <3>2
    <3>4. Same(p[b], 0 + V + 0)
      BY <2>2, <3>2, <3>3
    <3> QED BY <2>4, <3>1, <3>3, <3>4
  <2>5. CASE b = <<"G", 0>>
    <3>1. ~ OnG(b) /\ ~ OnH(b) /\ b # <<"H", 0>>
      BY <2>5, Kinds
    <3>2. Same(Q, 0) /\ Same(R, 0) /\ Same(T, k)
      BY <1>2, <1>3, <1>4, <2>1, <2>5, <3>1
    <3>3. Same(p[b], 0 + 0 + k)
      BY <2>2, <3>2
    <3> QED BY <2>5, <3>1, <3>3
  <2>6. CASE b = <<"H", 0>>
    <3>1. ~ OnG(b) /\ ~ OnH(b) /\ b # <<"G", 0>>
      BY <2>6, Kinds
    <3>2. Same(Q, 0) /\ Same(R, 0) /\ Same(T, 0)
      BY <1>2, <1>3, <1>4, <2>1, <2>6, <3>1
    <3>3. Same(p[b], 0 + 0 + 0)
      BY <2>2, <3>2
    <3> QED BY <2>6, <3>1, <3>3
  <2> QED BY <2>3, <2>4, <2>5, <2>6, Kinds
<1> QED BY <1>5, <1>6

\* Sums of terms that are the same.
LEMMA SameFive ==
    ASSUME NEW a1 \in Int, NEW a2 \in Int, NEW a3 \in Int, NEW a4 \in Int, NEW a5 \in Int,
           NEW c1 \in Int, NEW c2 \in Int, NEW c3 \in Int, NEW c4 \in Int, NEW c5 \in Int,
           Same(a1, c1), Same(a2, c2), Same(a3, c3), Same(a4, c4), Same(a5, c5)
    PROVE  Same(a1 + a2 + a3 + a4 + a5, c1 + c2 + c3 + c4 + c5)
<1>1. PICK k1 \in Int, k2 \in Int, k3 \in Int, k4 \in Int, k5 \in Int :
         /\ a1 = c1 + k1 * Order /\ a2 = c2 + k2 * Order /\ a3 = c3 + k3 * Order
         /\ a4 = c4 + k4 * Order /\ a5 = c5 + k5 * Order
  <2>1. /\ \E k \in Int : a1 = c1 + k * Order
        /\ \E k \in Int : a2 = c2 + k * Order
        /\ \E k \in Int : a3 = c3 + k * Order
        /\ \E k \in Int : a4 = c4 + k * Order
        /\ \E k \in Int : a5 = c5 + k * Order
    BY SameIff
  <2> QED BY <2>1
<1>2. PICK k \in Int : k = k1 + k2 + k3 + k4 + k5
  OBVIOUS
<1>3. a1 + a2 + a3 + a4 + a5 = (c1 + c2 + c3 + c4 + c5) + k * Order
  BY <1>1, <1>2, OrderIs
<1>4. a1 + a2 + a3 + a4 + a5 \in Int /\ c1 + c2 + c3 + c4 + c5 \in Int
  OBVIOUS
<1> QED BY <1>3, <1>4, SameIff

-----------------------------------------------------------------------------
\* The coordinate of a rescaled generator: its scale cancels the power of y.
LEMMA ScaleCancels ==
    ASSUME NEW Y \in Int, NEW I \in Int, Same(Y * I, 1), NEW n \in Int, NEW z \in Int,
           NEW q \in Int, NEW P \in Int
    PROVE  Same(n + q + I * (Y * z + P * z * z), I * (Y * (n + z) + z * z * P + Y * q))
<1>1. PICK k \in Int : Y * I = 1 + k * Order
  <2>1. Y * I \in Int /\ 1 \in Int
    OBVIOUS
  <2> QED BY <2>1, SameIff
<1>2. PICK e \in Int, R \in Int : e = Y * I /\ R = I * (P * z * z)
  <2>1. Y * I \in Int /\ I * (P * z * z) \in Int
    OBVIOUS
  <2> QED BY <2>1
<1>3. n + q + I * (Y * z + P * z * z) = n + q + e * z + R
  BY <1>2
<1>4. I * (Y * (n + z) + z * z * P + Y * q) = e * (n + z) + R + e * q
  BY <1>2
<1>5. PICK m \in Int : m = n + q
  OBVIOUS
<1>6. n + q + e * z + R = (e * (n + z) + R + e * q) + (m - e * m)
  BY <1>5
<1>7. m - e * m = ((- k) * m) * Order
  <2>1. e * m = m + (k * Order) * m
    BY <1>1, <1>2, OrderIs
  <2>2. (k * Order) * m = - (((- k) * m) * Order)
    BY OrderIs
  <2>3. PICK r \in Int : r = ((- k) * m) * Order
    BY OrderIs
  <2> QED BY <2>1, <2>2, <2>3
<1>8. (- k) * m \in Int /\ e * (n + z) + R + e * q \in Int
  OBVIOUS
<1>9. PICK x \in Int, y \in Int, j \in Int :
         /\ x = n + q + e * z + R /\ y = e * (n + z) + R + e * q /\ j = (- k) * m
  <2>1. n + q + e * z + R \in Int
    OBVIOUS
  <2> QED BY <1>8, <2>1
<1>10. x = y + j * Order
  BY <1>6, <1>7, <1>9
<1>11. Same(x, y)
  BY <1>10, SameIff
<1> QED BY <1>3, <1>4, <1>9, <1>11

\* The prover's vectors and their mask at x.
MaskSame(mu, alpha, rho, x) == Same(mu, alpha + rho * x)
LeftSame(le, bits, sl, z, x) == \A i \in Index : Same(le[i], bits[i] - z + sl[i] * x)
RightSame(re, bits, sr, y, z, x) ==
    \A i \in Index : Same(re[i], Powers(y)[i] * (bits[i] - 1 + z) + z * z * Power(2, i - 1)
                                    + Powers(y)[i] * (sr[i] * x))

VectorHidden(A, v, w, k) == A = Add(<<Multi(GS, v), Multi(HS, w), Times(k, BlindingBase)>>)
Lessened(less, bits) == less = [i \in Index |-> bits[i] - 1]
TermsOf(y, z) == [i \in Index |-> Powers(y)[i] * z + Power(2, i - 1) * z * z]
InnerPoint(A, S, h, y, z, x, mu, T) ==
    Add(<<A, Times(x, S), Times(-z, Add(GS)), Multi(h, TermsOf(y, z)), Times(-mu, BlindingBase), T>>)
InnerEqual(A, S, y, z, x, mu, T, le, re) ==
    InnerPoint(A, S, Rescaled(y), y, z, x, mu, T) = Add(<<Multi(GS, le), Multi(Rescaled(y), re), T>>)

\* deriveInnerCommitment computes the point the prover commits its vectors in.
LEMMA InnerSame ==
    ASSUME NEW y \in Answer, NEW z \in Answer, NEW x \in Answer,
           NEW bits, bits \in [Index -> Int], NEW sl, sl \in [Index -> Int],
           NEW sr, sr \in [Index -> Int], NEW alpha \in Int, NEW rho \in Int,
           NEW less, Lessened(less, bits), NEW A, VectorHidden(A, bits, less, alpha),
           NEW S, VectorHidden(S, sl, sr, rho),
           NEW le, le \in [Index -> Int], NEW re, re \in [Index -> Int],
           LeftSame(le, bits, sl, z, x), RightSame(re, bits, sr, y, z, x),
           NEW mu \in Int, MaskSame(mu, alpha, rho, x), NEW T, T \in Points
    PROVE  InnerEqual(A, S, y, z, x, mu, T, le, re)
<1>0. PICK v : v = TermsOf(y, z)
  OBVIOUS
<1>1. x \in Int /\ y \in Int /\ z \in Int /\ -z \in Int /\ -mu \in Int
  BY AnswerIs
<1>2. \A i \in Index : Power(2, i - 1) \in Int
  <2>1. \A i \in Index : i - 1 \in Nat
    BY WidthIs
  <2> QED BY <2>1, PowersOfTwo
<1>3. less \in [Index -> Int] /\ v \in [Index -> Int]
  <2>1. \A i \in Index : bits[i] - 1 \in Int
    OBVIOUS
  <2>2. \A i \in Index : Powers(y)[i] * z + Power(2, i - 1) * z * z \in Int
    BY <1>1, <1>2, PowersAre
  <2> QED BY <1>0, <2>1, <2>2 DEF Lessened, TermsOf
<1>4. /\ A \in Points
      /\ \A b \in Generator : /\ A[b] \in Int
                              /\ OnG(b) => Same(A[b], bits[b[2]])
                              /\ OnH(b) => Same(A[b], less[b[2]])
                              /\ b = <<"G", 0>> => Same(A[b], alpha)
                              /\ b = <<"H", 0>> => Same(A[b], 0)
  BY <1>3, VectorPoint DEF VectorHidden
<1>5. /\ S \in Points
      /\ \A b \in Generator : /\ S[b] \in Int
                              /\ OnG(b) => Same(S[b], sl[b[2]])
                              /\ OnH(b) => Same(S[b], sr[b[2]])
                              /\ b = <<"G", 0>> => Same(S[b], rho)
                              /\ b = <<"H", 0>> => Same(S[b], 0)
  BY VectorPoint DEF VectorHidden
<1>6. PICK p2, p3, p4, p5 : /\ p2 = Times(x, S) /\ p3 = Times(-z, Add(GS))
                            /\ p4 = Multi(Rescaled(y), v) /\ p5 = Times(-mu, BlindingBase)
  OBVIOUS
<1>7. PICK q1, q2 : q1 = Multi(GS, le) /\ q2 = Multi(Rescaled(y), re)
  OBVIOUS
<1>8. p2 \in Points /\ \A b \in Generator : p2[b] \in Int /\ Same(p2[b], S[b] * x)
  BY <1>1, <1>5, <1>6, TimesIs, PointsCombine
<1>9. /\ p3 \in Points
      /\ \A b \in Generator : /\ p3[b] \in Int
                              /\ OnG(b) => Same(p3[b], -z)
                              /\ ~ OnG(b) => Same(p3[b], 0)
  <2>1. PICK one : one = [i \in Index |-> 1]
    OBVIOUS
  <2>2. Add(GS) = Multi(GS, one)
    <3>1. DOMAIN GS = Index
      BY VectorBases
    <3> QED BY <2>1, <3>1 DEF Add
  <2>3. one \in [Index -> Int] /\ \A i \in Index : one[i] = 1
    BY <2>1
  <2>4. /\ Add(GS) \in Points
        /\ \A b \in Generator : /\ Add(GS)[b] \in Int
                                /\ OnG(b) => one[b[2]] \in Int /\ Same(Add(GS)[b], one[b[2]])
                                /\ ~ OnG(b) => Same(Add(GS)[b], 0)
    BY <2>2, <2>3, MultiOfG
  <2>5. /\ Times(-z, Add(GS)) \in Points
        /\ \A b \in Generator : /\ Times(-z, Add(GS))[b] \in Int
                                /\ Same(Times(-z, Add(GS))[b], Add(GS)[b] * (-z))
    <3>1. PICK k, G : k \in Int /\ k = -z /\ G = Add(GS) /\ G \in Combinations
      BY <1>1, <2>4, PointsCombine
    <3>2. /\ Times(k, G) \in Points
          /\ \A b \in Generator : Times(k, G)[b] \in Int /\ Same(Times(k, G)[b], G[b] * k)
      BY <3>1, TimesIs
    <3> QED BY <3>1, <3>2
  <2>6. ASSUME NEW b \in Generator
        PROVE  /\ OnG(b) => Same(Add(GS)[b] * (-z), -z)
               /\ ~ OnG(b) => Same(Add(GS)[b] * (-z), 0)
    <3>1. PICK k \in Int, a \in Int : k = -z /\ a = Add(GS)[b]
      BY <1>1, <2>4
    <3>2. ASSUME NEW c \in Int, Same(a, c) PROVE Same(a * k, c * k)
      BY <3>2, SameTimes
    <3>3. CASE OnG(b)
      <4>1. b[2] \in Index
        BY <3>3, Kinds
      <4>2. Same(a, 1)
        BY <2>3, <2>4, <3>1, <3>3, <4>1
      <4>3. Same(a * k, 1 * k)
        BY <3>2, <4>2
      <4> QED BY <3>1, <3>3, <4>3
    <3>4. CASE ~ OnG(b)
      <4>1. Same(a, 0)
        BY <2>4, <3>1, <3>4
      <4>2. Same(a * k, 0)
        BY <4>1, NoneOf
      <4> QED BY <3>1, <3>4, <4>2
    <3> QED BY <3>3, <3>4
  <2> QED BY <1>6, <2>5, <2>6 DEF Same
<1>10. /\ p4 \in Points
       /\ \A b \in Generator : /\ p4[b] \in Int
                               /\ OnH(b) => Same(p4[b], Inv(Powers(y)[b[2]]) * v[b[2]])
                               /\ ~ OnH(b) => Same(p4[b], 0)
  BY <1>3, <1>6, MultiOfRescaled
<1>11. /\ p5 \in Points
       /\ \A b \in Generator : /\ p5[b] \in Int
                               /\ b = <<"G", 0>> => Same(p5[b], -mu)
                               /\ b # <<"G", 0>> => Same(p5[b], 0)
  <2>1. PICK k, G : k \in Int /\ k = -mu /\ G = BlindingBase /\ G \in Combinations
    BY <1>1, Bases, PointsCombine
  <2>2. /\ Times(k, G) \in Points
        /\ \A b \in Generator : Times(k, G)[b] \in Int /\ Same(Times(k, G)[b], G[b] * k)
    BY <2>1, TimesIs
  <2>3. \A b \in Generator : G[b] * k = (IF b = <<"G", 0>> THEN k ELSE 0)
    BY <2>1, Bases
  <2> QED BY <1>6, <2>1, <2>2, <2>3
<1>12. /\ q1 \in Points
       /\ \A b \in Generator : /\ q1[b] \in Int
                               /\ OnG(b) => Same(q1[b], le[b[2]])
                               /\ ~ OnG(b) => Same(q1[b], 0)
  BY <1>7, MultiOfG
<1>13. /\ q2 \in Points
       /\ \A b \in Generator : /\ q2[b] \in Int
                               /\ OnH(b) => Same(q2[b], Inv(Powers(y)[b[2]]) * re[b[2]])
                               /\ ~ OnH(b) => Same(q2[b], 0)
  BY <1>7, MultiOfRescaled
<1>14. PICK p, q : p = Add(<<A, p2, p3, p4, p5, T>>) /\ q = Add(<<q1, q2, T>>)
  OBVIOUS
<1>15. /\ p \in Points
       /\ \A b \in Generator : p[b] \in Int /\ Same(p[b], A[b] + p2[b] + p3[b] + p4[b] + p5[b] + T[b])
  <2>1. /\ A \in Combinations /\ p2 \in Combinations /\ p3 \in Combinations /\ p4 \in Combinations
        /\ p5 \in Combinations /\ T \in Combinations
    BY <1>4, <1>8, <1>9, <1>10, <1>11, PointsCombine
  <2> QED BY <1>14, <2>1, SixAdd
<1>16. /\ q \in Points
       /\ \A b \in Generator : q[b] \in Int /\ Same(q[b], q1[b] + q2[b] + T[b])
  <2>1. /\ q1 \in Combinations /\ q2 \in Combinations /\ T \in Combinations
    BY <1>12, <1>13, PointsCombine
  <2> QED BY <1>14, <2>1, ThreeAdd
<1>17. ASSUME NEW b \in Generator PROVE Same(p[b], q[b])
  <2>1. PICK a1 \in Int, a2 \in Int, a3 \in Int, a4 \in Int, a5 \in Int, a6 \in Int :
           /\ a1 = A[b] /\ a2 = p2[b] /\ a3 = p3[b] /\ a4 = p4[b] /\ a5 = p5[b] /\ a6 = T[b]
    <3>1. T[b] \in Int
      BY PointsCombine DEF Combinations
    <3> QED BY <1>4, <1>8, <1>9, <1>10, <1>11, <3>1
  <2>2. PICK d1 \in Int, d2 \in Int : d1 = q1[b] /\ d2 = q2[b]
    BY <1>12, <1>13
  <2>3. Same(p[b], a1 + a2 + a3 + a4 + a5 + a6) /\ Same(q[b], d1 + d2 + a6)
    BY <1>15, <1>16, <2>1, <2>2
  <2>4. SUFFICES Same(a1 + a2 + a3 + a4 + a5, d1 + d2)
    <3>1. ASSUME Same(a1 + a2 + a3 + a4 + a5, d1 + d2)
          PROVE  Same(a1 + a2 + a3 + a4 + a5 + a6, d1 + d2 + a6)
      <4>1. PICK X \in Int, Y \in Int : X = a1 + a2 + a3 + a4 + a5 /\ Y = d1 + d2
        <5>1. a1 + a2 + a3 + a4 + a5 \in Int /\ d1 + d2 \in Int
          OBVIOUS
        <5> QED BY <5>1
      <4>2. Same(X, Y) /\ Same(a6, a6)
        BY <3>1, <4>1 DEF Same
      <4>3. Same(X + a6, Y + a6)
        BY <4>2, SameSum
      <4> QED BY <4>1, <4>3
    <3> QED BY <2>3, <3>1 DEF Same
  <2>5. CASE OnG(b)
    <3>1. ~ OnH(b) /\ b # <<"G", 0>> /\ b # <<"H", 0>> /\ b[2] \in Index
      BY <2>5, Kinds
    <3>2. PICK i \in Index : i = b[2]
      BY <3>1
    <3>3. PICK n \in Int, s \in Int, l \in Int : n = bits[i] /\ s = sl[i] /\ l = le[i]
      OBVIOUS
    <3>4. Same(a1, n) /\ Same(S[b], s) /\ Same(a3, -z) /\ Same(a4, 0) /\ Same(a5, 0)
      BY <1>4, <1>5, <1>9, <1>10, <1>11, <2>1, <2>5, <3>1, <3>2, <3>3
    <3>5. Same(a2, s * x)
      <4>1. S[b] \in Int
        BY <1>5
      <4>2. Same(S[b] * x, s * x)
        BY <1>1, <3>4, <4>1, SameTimes
      <4> QED BY <1>8, <2>1, <4>2 DEF Same
    <3>6. PICK t \in Int, m \in Int : t = s * x /\ m = -z
      BY <1>1
    <3>7. Same(a1 + a2 + a3 + a4 + a5, n + t + m + 0 + 0)
      <4>1. Same(a1, n) /\ Same(a2, t) /\ Same(a3, m) /\ Same(a4, 0) /\ Same(a5, 0)
        BY <3>4, <3>5, <3>6
      <4> QED BY <4>1, SameFive
    <3>8. Same(d1, l) /\ Same(d2, 0)
      BY <1>12, <1>13, <2>2, <2>5, <3>1, <3>2, <3>3
    <3>9. Same(d1 + d2, l + 0)
      BY <3>8, SameSum
    <3>10. Same(l, n - z + s * x)
      BY <3>3 DEF LeftSame
    <3>11. n + t + m + 0 + 0 = n - z + s * x /\ l + 0 = l
      BY <1>1, <3>6
    <3> QED BY <3>7, <3>9, <3>10, <3>11 DEF Same
  <2>6. CASE OnH(b)
    <3>1. ~ OnG(b) /\ b # <<"G", 0>> /\ b # <<"H", 0>> /\ b[2] \in Index
      BY <2>6, Kinds
    <3>2. PICK i \in Index : i = b[2]
      BY <3>1
    <3>3. PICK n \in Int, s \in Int, r \in Int : n = bits[i] - 1 /\ s = sr[i] /\ r = re[i]
      <4>1. bits[i] \in Int /\ sr[i] \in Int /\ re[i] \in Int
        OBVIOUS
      <4> QED BY <4>1
    <3>4. PICK Y \in Int, I \in Int, P \in Int :
             Y = Powers(y)[i] /\ I = Inv(Powers(y)[i]) /\ P = Power(2, i - 1)
      BY <1>2, PowersAre
    <3>5. Same(Y * I, 1)
      BY <3>4, PowersAre
    <3>6. less[i] = n /\ v[i] = Y * z + P * z * z
      BY <1>0, <3>3, <3>4 DEF Lessened, TermsOf
    <3>7. PICK V \in Int : V = Y * z + P * z * z
      <4>1. Y * z + P * z * z \in Int
        BY <1>1
      <4> QED BY <4>1
    <3>8. /\ Same(a1, n) /\ Same(S[b], s) /\ Same(a3, 0) /\ Same(a4, I * V) /\ Same(a5, 0)
      BY <1>4, <1>5, <1>9, <1>10, <1>11, <2>1, <2>6, <3>1, <3>2, <3>3, <3>4, <3>6, <3>7
    <3>9. Same(a2, s * x)
      <4>1. S[b] \in Int
        BY <1>5
      <4>2. Same(S[b] * x, s * x)
        BY <1>1, <3>8, <4>1, SameTimes
      <4> QED BY <1>8, <2>1, <4>2 DEF Same
    <3>10. PICK t \in Int, W \in Int : t = s * x /\ W = I * V
      <4>1. s * x \in Int /\ I * V \in Int
        BY <1>1
      <4> QED BY <4>1
    <3>11. Same(a1 + a2 + a3 + a4 + a5, n + t + 0 + W + 0)
      <4>1. Same(a1, n) /\ Same(a2, t) /\ Same(a3, 0) /\ Same(a4, W) /\ Same(a5, 0)
        BY <3>8, <3>9, <3>10
      <4> QED BY <4>1, SameFive
    <3>12. Same(d1, 0) /\ Same(d2, I * r)
      BY <1>12, <1>13, <2>2, <2>6, <3>1, <3>2, <3>3, <3>4
    <3>13. PICK R \in Int, R0 \in Int : R = I * r /\ R0 = Y * (n + z) + z * z * P + Y * t
      <4>1. I * r \in Int /\ Y * (n + z) + z * z * P + Y * t \in Int
        BY <1>1
      <4> QED BY <4>1
    <3>14. Same(d1 + d2, 0 + R)
      BY <3>12, <3>13, SameSum
    <3>15. Same(r, R0)
      <4>1. bits[i] - 1 + z = n + z
        BY <3>3
      <4> QED BY <3>3, <3>4, <3>10, <3>13, <4>1 DEF RightSame
    <3>16. Same(R, I * R0)
      <4>1. Same(r * I, R0 * I)
        BY <3>15, SameTimes
      <4>2. r * I = I * r /\ R0 * I = I * R0
        OBVIOUS
      <4> QED BY <3>13, <4>1, <4>2
    <3>17. Same(n + t + I * (Y * z + P * z * z), I * (Y * (n + z) + z * z * P + Y * t))
      BY <1>1, <3>5, ScaleCancels
    <3>18. Same(n + t + W, I * R0)
      BY <3>7, <3>10, <3>13, <3>17
    <3>19. n + t + 0 + W + 0 = n + t + W /\ 0 + R = R
      OBVIOUS
    <3> QED BY <3>11, <3>14, <3>16, <3>18, <3>19 DEF Same
  <2>7. CASE b = <<"G", 0>>
    <3>1. ~ OnG(b) /\ ~ OnH(b) /\ b # <<"H", 0>>
      BY <2>7, Kinds
    <3>2. Same(a1, alpha) /\ Same(S[b], rho) /\ Same(a3, 0) /\ Same(a4, 0) /\ Same(a5, -mu)
      BY <1>4, <1>5, <1>9, <1>10, <1>11, <2>1, <2>7, <3>1
    <3>3. Same(a2, rho * x)
      <4>1. S[b] \in Int
        BY <1>5
      <4>2. Same(S[b] * x, rho * x)
        BY <1>1, <3>2, <4>1, SameTimes
      <4> QED BY <1>8, <2>1, <4>2 DEF Same
    <3>4. PICK t \in Int, m \in Int : t = rho * x /\ m = -mu
      BY <1>1
    <3>5. Same(a1 + a2 + a3 + a4 + a5, alpha + t + 0 + 0 + m)
      <4>1. Same(a1, alpha) /\ Same(a2, t) /\ Same(a3, 0) /\ Same(a4, 0) /\ Same(a5, m)
        BY <3>2, <3>3, <3>4
      <4> QED BY <4>1, SameFive
    <3>6. Same(alpha + t + 0 + 0 + m, 0)
      <4>1. PICK s \in Int : s = alpha + t
        OBVIOUS
      <4>2. Same(s, mu) /\ Same(m, m)
        BY <3>4, <4>1 DEF Same, MaskSame
      <4>3. Same(s + m, mu + m)
        BY <4>2, SameSum
      <4>4. s + m = alpha + t + 0 + 0 + m /\ mu + m = 0
        BY <3>4, <4>1
      <4> QED BY <4>3, <4>4
    <3>7. Same(d1, 0) /\ Same(d2, 0)
      BY <1>12, <1>13, <2>2, <3>1
    <3>8. Same(d1 + d2, 0 + 0)
      BY <3>7, SameSum
    <3> QED BY <3>5, <3>6, <3>8 DEF Same
  <2>8. CASE b = <<"H", 0>>
    <3>1. ~ OnG(b) /\ ~ OnH(b) /\ b # <<"G", 0>>
      BY <2>8, Kinds
    <3>2. Same(a1, 0) /\ Same(S[b], 0) /\ Same(a3, 0) /\ Same(a4, 0) /\ Same(a5, 0)
      BY <1>4, <1>5, <1>9, <1>10, <1>11, <2>1, <2>8, <3>1
    <3>3. Same(a2, 0)
      <4>1. S[b] \in Int
        BY <1>5
      <4>2. Same(S[b] * x, 0)
        BY <1>1, <3>2, <4>1, NoneOf
      <4> QED BY <1>8, <2>1, <4>2 DEF Same
    <3>4. Same(a1 + a2 + a3 + a4 + a5, 0 + 0 + 0 + 0 + 0)
      BY <3>2, <3>3, SameFive
    <3>5. Same(d1, 0) /\ Same(d2, 0)
      BY <1>12, <1>13, <2>2, <3>1
    <3>6. Same(d1 + d2, 0 + 0)
      BY <3>5, SameSum
    <3> QED BY <3>4, <3>6 DEF Same
  <2> QED BY <2>5, <2>6, <2>7, <2>8, Kinds
<1>18. p = q
  BY <1>15, <1>16, <1>17, SamePoints
<1> QED BY <1>0, <1>6, <1>7, <1>14, <1>18 DEF InnerEqual, InnerPoint

-----------------------------------------------------------------------------
\* Six functions, each scaled, are h together.
Mixes(h, c1, f1, c2, f2, c3, f3, c4, f4, c5, f5, c6, f6, n) ==
    \A i \in 1..n : h[i] = c1 * f1[i] + c2 * f2[i] + c3 * f3[i]
                            + c4 * f4[i] + c5 * f5[i] + c6 * f6[i]

\* A sum of six scaled terms is the six scaled sums.
LEMMA TotalOfSix ==
    ASSUME NEW n \in Nat,
           NEW f1, NEW f2, NEW f3, NEW f4, NEW f5, NEW f6,
           Ints(f1, n), Ints(f2, n), Ints(f3, n), Ints(f4, n), Ints(f5, n), Ints(f6, n),
           NEW c1 \in Int, NEW c2 \in Int, NEW c3 \in Int, NEW c4 \in Int, NEW c5 \in Int, NEW c6 \in Int,
           NEW h, Mixes(h, c1, f1, c2, f2, c3, f3, c4, f4, c5, f5, c6, f6, n)
    PROVE  /\ Ints(h, n)
           /\ Total(h, n) = c1 * Total(f1, n) + c2 * Total(f2, n) + c3 * Total(f3, n)
                              + c4 * Total(f4, n) + c5 * Total(f5, n) + c6 * Total(f6, n)
<1>1. PICK g1, g2, g3, g4, g5, g6 :
         /\ g1 = [i \in 1..n |-> c1 * f1[i]] /\ g2 = [i \in 1..n |-> c2 * f2[i]]
         /\ g3 = [i \in 1..n |-> c3 * f3[i]] /\ g4 = [i \in 1..n |-> c4 * f4[i]]
         /\ g5 = [i \in 1..n |-> c5 * f5[i]] /\ g6 = [i \in 1..n |-> c6 * f6[i]]
  OBVIOUS
<1>2. Ints(g1, n) /\ Total(g1, n) = c1 * Total(f1, n)
  <2>1. \A i \in 1..n : g1[i] = c1 * f1[i]
    BY <1>1
  <2> QED BY <2>1, TotalScaled
<1>3. Ints(g2, n) /\ Total(g2, n) = c2 * Total(f2, n)
  <2>1. \A i \in 1..n : g2[i] = c2 * f2[i]
    BY <1>1
  <2> QED BY <2>1, TotalScaled
<1>4. Ints(g3, n) /\ Total(g3, n) = c3 * Total(f3, n)
  <2>1. \A i \in 1..n : g3[i] = c3 * f3[i]
    BY <1>1
  <2> QED BY <2>1, TotalScaled
<1>5. Ints(g4, n) /\ Total(g4, n) = c4 * Total(f4, n)
  <2>1. \A i \in 1..n : g4[i] = c4 * f4[i]
    BY <1>1
  <2> QED BY <2>1, TotalScaled
<1>6. Ints(g5, n) /\ Total(g5, n) = c5 * Total(f5, n)
  <2>1. \A i \in 1..n : g5[i] = c5 * f5[i]
    BY <1>1
  <2> QED BY <2>1, TotalScaled
<1>7. Ints(g6, n) /\ Total(g6, n) = c6 * Total(f6, n)
  <2>1. \A i \in 1..n : g6[i] = c6 * f6[i]
    BY <1>1
  <2> QED BY <2>1, TotalScaled
<1>8. PICK h2, h3, h4, h5 :
         /\ h2 = [i \in 1..n |-> g1[i] + g2[i]] /\ h3 = [i \in 1..n |-> h2[i] + g3[i]]
         /\ h4 = [i \in 1..n |-> h3[i] + g4[i]] /\ h5 = [i \in 1..n |-> h4[i] + g5[i]]
  OBVIOUS
<1>9. Ints(h2, n) /\ Total(h2, n) = Total(g1, n) + Total(g2, n)
  <2>1. \A i \in 1..n : h2[i] = g1[i] + g2[i]
    BY <1>8
  <2>2. Ints(g1, n) /\ Ints(g2, n)
    BY <1>2, <1>3
  <2> QED BY <2>1, <2>2, TotalPlus
<1>10. Ints(h3, n) /\ Total(h3, n) = Total(h2, n) + Total(g3, n)
  <2>1. \A i \in 1..n : h3[i] = h2[i] + g3[i]
    BY <1>8
  <2>2. Ints(h2, n) /\ Ints(g3, n)
    BY <1>4, <1>9
  <2> QED BY <2>1, <2>2, TotalPlus
<1>11. Ints(h4, n) /\ Total(h4, n) = Total(h3, n) + Total(g4, n)
  <2>1. \A i \in 1..n : h4[i] = h3[i] + g4[i]
    BY <1>8
  <2>2. Ints(h3, n) /\ Ints(g4, n)
    BY <1>5, <1>10
  <2> QED BY <2>1, <2>2, TotalPlus
<1>12. Ints(h5, n) /\ Total(h5, n) = Total(h4, n) + Total(g5, n)
  <2>1. \A i \in 1..n : h5[i] = h4[i] + g5[i]
    BY <1>8
  <2>2. Ints(h4, n) /\ Ints(g5, n)
    BY <1>6, <1>11
  <2> QED BY <2>1, <2>2, TotalPlus
<1>13. Ints(h, n) /\ Total(h, n) = Total(h5, n) + Total(g6, n)
  <2>1. ASSUME NEW i \in 1..n PROVE h[i] = h5[i] + g6[i]
    <3>1. /\ g1[i] = c1 * f1[i] /\ g2[i] = c2 * f2[i] /\ g3[i] = c3 * f3[i]
          /\ g4[i] = c4 * f4[i] /\ g5[i] = c5 * f5[i] /\ g6[i] = c6 * f6[i]
      BY <1>1
    <3>2. h5[i] = g1[i] + g2[i] + g3[i] + g4[i] + g5[i]
      BY <1>8
    <3> QED BY <3>1, <3>2 DEF Mixes
  <2>2. Ints(h5, n) /\ Ints(g6, n)
    BY <1>7, <1>12
  <2> QED BY <2>1, <2>2, TotalPlus
<1> QED BY <1>2, <1>3, <1>4, <1>5, <1>6, <1>7, <1>9, <1>10, <1>11, <1>12, <1>13

\* One index of the product of the prover's vectors.
LEMMA OneProduct ==
    ASSUME NEW b \in {0, 1}, NEW Y \in Int, NEW P \in Int, NEW z \in Int, NEW x \in Int,
           NEW s \in Int, NEW r \in Int, NEW l0 \in Int, NEW r0 \in Int, NEW q0 \in Int,
           l0 = b - z, r0 = Y * (b - 1 + z) + z * z * P, q0 = Y * r
    PROVE  (l0 + s * x) * (r0 + q0 * x)
              = 1 * (Y * (z - z * z)) + (z * z) * (b * P) + (- (z * z * z)) * P
                  + x * (s * r0) + x * (l0 * q0) + (x * x) * (s * q0)
<1>1. (l0 + s * x) * (r0 + q0 * x) = l0 * r0 + x * (s * r0) + x * (l0 * q0) + (x * x) * (s * q0)
  OBVIOUS
<1>2. l0 * r0 = Y * (z - z * z) + (z * z) * (b * P) + (- (z * z * z)) * P
  <2>1. CASE b = 0
    BY <2>1
  <2>2. CASE b = 1
    BY <2>2
  <2> QED BY <2>1, <2>2
<1> QED BY <1>1, <1>2

-----------------------------------------------------------------------------
\* The prover's vectors and the numbers it commits to.
LeftOf(bits, z) == [i \in Index |-> bits[i] - z]
RightOf(bits, y, z) == [i \in Index |-> Powers(y)[i] * (bits[i] - 1 + z) + z * z * Power(2, i - 1)]
LinearOf(sr, y) == [i \in Index |-> Powers(y)[i] * sr[i]]
At(v, w, x) == [i \in Index |-> (v[i] + w[i] * x) % Order]
Digits(a) == [i \in Index |-> Bit(a - 1, i)]
DeltaOf(y, z) == Dot(Powers(y), [i \in Index |-> z - z * z]) - z * z * z * (MaxAmount - 1)

\* The vectors of the range proof are scalars.
LEMMA VectorsAre ==
    ASSUME NEW y \in Answer, NEW z \in Answer, NEW x \in Answer, NEW a \in 1..MaxAmount,
           NEW sl, sl \in [Index -> Int], NEW sr, sr \in [Index -> Int]
    PROVE  /\ Digits(a) \in [Index -> {0, 1}]
           /\ LeftOf(Digits(a), z) \in [Index -> Int] /\ RightOf(Digits(a), y, z) \in [Index -> Int]
           /\ LinearOf(sr, y) \in [Index -> Int]
           /\ At(LeftOf(Digits(a), z), sl, x) \in [Index -> Residue]
           /\ At(RightOf(Digits(a), y, z), LinearOf(sr, y), x) \in [Index -> Residue]
<1>1. y \in Int /\ z \in Int /\ x \in Int /\ Powers(y) \in [Index -> Int]
  BY AnswerIs, PowersAre
<1>2. \A i \in Index : i - 1 \in Nat /\ i \in Nat
  BY WidthIs
<1>3. \A i \in Index : Power(2, i - 1) \in Int
  BY <1>2, PowersOfTwo
<1>4. a - 1 \in Nat
  BY WidthIs
<1>5. ASSUME NEW i \in Index PROVE Bit(a - 1, i) \in {0, 1}
  <2>1. PICK k \in Nat, c \in Nat : k = i - 1 /\ c = a - 1
    BY <1>2, <1>4
  <2>2. Bit(c, k + 1) \in {0, 1}
    BY BitIs
  <2>3. k + 1 = i
    BY <1>2, <2>1
  <2> QED BY <2>1, <2>2, <2>3
<1>6. Digits(a) \in [Index -> {0, 1}]
  BY <1>5 DEF Digits
<1>7. PICK bits : bits = Digits(a) /\ bits \in [Index -> {0, 1}]
  BY <1>6
<1>8. \A i \in Index : bits[i] \in Int
  BY <1>7
<1>9. LeftOf(bits, z) \in [Index -> Int]
  BY <1>1, <1>8 DEF LeftOf
<1>10. RightOf(bits, y, z) \in [Index -> Int]
  <2>1. \A i \in Index : Powers(y)[i] * (bits[i] - 1 + z) + z * z * Power(2, i - 1) \in Int
    BY <1>1, <1>3, <1>8
  <2> QED BY <2>1 DEF RightOf
<1>11. LinearOf(sr, y) \in [Index -> Int]
  BY <1>1 DEF LinearOf
<1>12. ASSUME NEW v, v \in [Index -> Int], NEW w, w \in [Index -> Int]
       PROVE  At(v, w, x) \in [Index -> Residue]
  <2>1. \A i \in Index : v[i] + w[i] * x \in Int
    BY <1>1, <1>12
  <2>2. \A i \in Index : (v[i] + w[i] * x) % Order \in Residue
    BY <2>1, SameRests DEF Residue
  <2> QED BY <2>2 DEF At
<1> QED BY <1>6, <1>7, <1>9, <1>10, <1>11, <1>12

\* The product of the prover's vectors is what the committed polynomial gives at x.
LEMMA PolynomialTotals ==
    ASSUME NEW y \in Answer, NEW z \in Answer, NEW x \in Answer, NEW a \in 1..MaxAmount,
           NEW sl, sl \in [Index -> Int], NEW sr, sr \in [Index -> Int],
           NEW le, le = LeftOf(Digits(a), z), NEW re, re = RightOf(Digits(a), y, z),
           NEW lin, lin = LinearOf(sr, y), NEW t, t = Dot(At(le, sl, x), At(re, lin, x))
    PROVE  /\ Dot(sl, re) \in Int /\ Dot(le, lin) \in Int /\ Dot(sl, lin) \in Int
           /\ DeltaOf(y, z) \in Int /\ t \in Int
           /\ Same((Dot(sl, re) + Dot(le, lin)) * x + Dot(sl, lin) * (x * x)
                      + (a - 1) * (z * z) + DeltaOf(y, z), t)
<1>1. y \in Int /\ z \in Int /\ x \in Int /\ Powers(y) \in [Index -> Int]
  BY AnswerIs, PowersAre
<1>2. PICK n \in Nat \ {0} : n = Width
  BY WidthIs
<1>3. Index = 1..n
  BY <1>2, WidthIs
<1>4. PICK bits, Y, L, R : /\ bits = Digits(a) /\ Y = Powers(y)
                           /\ L = At(le, sl, x) /\ R = At(re, lin, x)
  OBVIOUS
<1>5. /\ bits \in [1..n -> {0, 1}] /\ le \in [1..n -> Int] /\ re \in [1..n -> Int]
      /\ lin \in [1..n -> Int] /\ L \in [1..n -> Residue] /\ R \in [1..n -> Residue]
      /\ sl \in [1..n -> Int] /\ sr \in [1..n -> Int] /\ Y \in [1..n -> Int]
  BY <1>1, <1>3, <1>4, VectorsAre
<1>6. /\ \A i \in 1..n : /\ le[i] \in Int /\ re[i] \in Int /\ lin[i] \in Int /\ sl[i] \in Int
                         /\ sr[i] \in Int /\ Y[i] \in Int /\ bits[i] \in {0, 1}
                         /\ L[i] \in Int /\ R[i] \in Int
  BY <1>5, PointsCombine
<1>7. \A i \in 1..n : Power(2, i - 1) \in Int /\ i - 1 \in Nat
  <2>1. \A i \in 1..n : i - 1 \in Nat
    OBVIOUS
  <2> QED BY <2>1, PowersOfTwo
<1>8. PICK two : two = [i \in 1..n |-> Power(2, i - 1)]
  OBVIOUS
<1>9. \A i \in 1..n : two[i] \in Int /\ two[i] = Power(2, i - 1)
  BY <1>7, <1>8
<1>10. /\ \A i \in 1..n : /\ le[i] = bits[i] - z
                          /\ re[i] = Y[i] * (bits[i] - 1 + z) + z * z * two[i]
                          /\ lin[i] = Y[i] * sr[i]
                          /\ L[i] = (le[i] + sl[i] * x) % Order
                          /\ R[i] = (re[i] + lin[i] * x) % Order
  BY <1>3, <1>4, <1>9 DEF LeftOf, RightOf, LinearOf, At
<1>11. PICK f1, f2, f3, f4, f5, f6 :
          /\ f1 = [i \in 1..n |-> Y[i] * (z - z * z)] /\ f2 = [i \in 1..n |-> bits[i] * two[i]]
          /\ f3 = two /\ f4 = [i \in 1..n |-> sl[i] * re[i]]
          /\ f5 = [i \in 1..n |-> le[i] * lin[i]] /\ f6 = [i \in 1..n |-> sl[i] * lin[i]]
  OBVIOUS
<1>12. PICK h, g : /\ h = [i \in 1..n |-> (le[i] + sl[i] * x) * (re[i] + lin[i] * x)]
                   /\ g = [i \in 1..n |-> L[i] * R[i]]
  OBVIOUS
<1>13. Ints(f1, n) /\ Ints(f2, n) /\ Ints(f3, n)
  <2>1. \A i \in 1..n : f1[i] \in Int
    BY <1>1, <1>6, <1>11
  <2>2. \A i \in 1..n : f2[i] \in Int
    <3>1. \A i \in 1..n : bits[i] * two[i] \in Int
      BY <1>6, <1>9
    <3> QED BY <1>11, <3>1
  <2>3. \A i \in 1..n : f3[i] \in Int
    BY <1>9, <1>11
  <2> QED BY <2>1, <2>2, <2>3 DEF Ints
<1>14. Ints(f4, n) /\ Ints(f5, n) /\ Ints(f6, n)
  <2>1. \A i \in 1..n : f4[i] \in Int
    <3>1. \A i \in 1..n : sl[i] * re[i] \in Int
      BY <1>6
    <3> QED BY <1>11, <3>1
  <2>2. \A i \in 1..n : f5[i] \in Int
    <3>1. \A i \in 1..n : le[i] * lin[i] \in Int
      BY <1>6
    <3> QED BY <1>11, <3>1
  <2>3. \A i \in 1..n : f6[i] \in Int
    <3>1. \A i \in 1..n : sl[i] * lin[i] \in Int
      BY <1>6
    <3> QED BY <1>11, <3>1
  <2> QED BY <2>1, <2>2, <2>3 DEF Ints
<1>15. PICK c2 \in Int, c3 \in Int, c6 \in Int : c2 = z * z /\ c3 = - (z * z * z) /\ c6 = x * x
  <2>1. z * z \in Int /\ - (z * z * z) \in Int /\ x * x \in Int
    BY <1>1
  <2> QED BY <2>1
<1>16. ASSUME NEW i \in 1..n
       PROVE  h[i] = 1 * f1[i] + c2 * f2[i] + c3 * f3[i] + x * f4[i] + x * f5[i] + c6 * f6[i]
  <2>1. PICK b \in {0, 1}, Y0 \in Int, P \in Int, s \in Int, r \in Int, l0 \in Int, r0 \in Int, q0 \in Int :
           /\ b = bits[i] /\ Y0 = Y[i] /\ P = two[i] /\ s = sl[i] /\ r = sr[i]
           /\ l0 = le[i] /\ r0 = re[i] /\ q0 = lin[i]
    BY <1>6, <1>9
  <2>2. l0 = b - z /\ r0 = Y0 * (b - 1 + z) + z * z * P /\ q0 = Y0 * r
    BY <1>10, <2>1
  <2>3. (l0 + s * x) * (r0 + q0 * x)
              = 1 * (Y0 * (z - z * z)) + (z * z) * (b * P) + (- (z * z * z)) * P
                  + x * (s * r0) + x * (l0 * q0) + (x * x) * (s * q0)
    BY <1>1, <2>2, OneProduct
  <2>4. /\ f1[i] = Y0 * (z - z * z) /\ f2[i] = b * P /\ f3[i] = P
        /\ f4[i] = s * r0 /\ f5[i] = l0 * q0 /\ f6[i] = s * q0
        /\ h[i] = (l0 + s * x) * (r0 + q0 * x)
    BY <1>11, <1>12, <2>1
  <2> QED BY <1>15, <2>3, <2>4
<1>17. /\ Ints(h, n)
       /\ Total(h, n) = 1 * Total(f1, n) + c2 * Total(f2, n) + c3 * Total(f3, n)
                          + x * Total(f4, n) + x * Total(f5, n) + c6 * Total(f6, n)
  <2>1. Mixes(h, 1, f1, c2, f2, c3, f3, x, f4, x, f5, c6, f6, n)
    BY <1>16 DEF Mixes
  <2>2. 1 \in Int /\ n \in Nat
    OBVIOUS
  <2> QED BY <1>1, <1>13, <1>14, <2>1, <2>2, TotalOfSix, SMTT(40)
<1>18. Ints(g, n) /\ Same(Total(g, n), Total(h, n))
  <2>1. Ints(g, n)
    <3>1. \A i \in 1..n : g[i] \in Int
      BY <1>6, <1>12
    <3> QED BY <3>1 DEF Ints
  <2>2. ASSUME NEW i \in 1..n PROVE Same(g[i], h[i])
    <3>1. PICK l \in Int, r \in Int : l = le[i] + sl[i] * x /\ r = re[i] + lin[i] * x
      <4>1. le[i] + sl[i] * x \in Int /\ re[i] + lin[i] * x \in Int
        BY <1>1, <1>6
      <4> QED BY <4>1
    <3>2. PICK l1 \in Int, r1 \in Int : l1 = L[i] /\ r1 = R[i]
      BY <1>6
    <3>3. Same(l1, l) /\ Same(r1, r)
      BY <1>10, <3>1, <3>2, SameRest
    <3>4. Same(l1 * r1, l * r)
      BY <3>3, SameProduct
    <3> QED BY <1>12, <3>1, <3>2, <3>4
  <2> QED BY <1>17, <2>1, <2>2, TotalSame
<1>19. t \in Int /\ Total(g, n) \in Int /\ Same(t, Total(g, n))
  <2>1. Products(g, L, R, n)
    BY <1>12 DEF Products
  <2>2. DOMAIN L = 1..n
    BY <1>5
  <2>3. t = Dot(L, R)
    BY <1>4
  <2> QED BY <1>18, <2>1, <2>2, <2>3, DotIs
<1>20. Dot(sl, re) \in Int /\ Total(f4, n) \in Int /\ Same(Dot(sl, re), Total(f4, n))
  <2>1. Products(f4, sl, re, n)
    BY <1>11 DEF Products
  <2>2. DOMAIN sl = 1..n
    BY <1>5
  <2> QED BY <1>14, <2>1, <2>2, DotIs
<1>21. Dot(le, lin) \in Int /\ Total(f5, n) \in Int /\ Same(Dot(le, lin), Total(f5, n))
  <2>1. Products(f5, le, lin, n)
    BY <1>11 DEF Products
  <2>2. DOMAIN le = 1..n
    BY <1>5
  <2> QED BY <1>14, <2>1, <2>2, DotIs
<1>22. Dot(sl, lin) \in Int /\ Total(f6, n) \in Int /\ Same(Dot(sl, lin), Total(f6, n))
  <2>1. Products(f6, sl, lin, n)
    BY <1>11 DEF Products
  <2>2. DOMAIN sl = 1..n
    BY <1>5
  <2> QED BY <1>14, <2>1, <2>2, DotIs
<1>23. PICK w : w = [i \in Index |-> z - z * z]
  OBVIOUS
<1>24. Dot(Y, w) \in Int /\ Total(f1, n) \in Int /\ Same(Dot(Y, w), Total(f1, n))
  <2>1. Products(f1, Y, w, n)
    BY <1>3, <1>11, <1>23 DEF Products
  <2>2. DOMAIN Y = 1..n
    BY <1>5
  <2> QED BY <1>13, <2>1, <2>2, DotIs
<1>25. Total(f2, n) = a - 1
  <2>1. PICK c : c = a - 1 /\ c \in 0..(Power(2, n) - 1)
    BY <1>2, WidthIs
  <2>2. \A i \in 1..n : f2[i] = Bit(c, i) * Power(2, i - 1)
    BY <1>3, <1>4, <1>9, <1>11, <2>1 DEF Digits
  <2> QED BY <2>1, <2>2, BitsAddUp
<1>26. Total(f3, n) = MaxAmount - 1
  <2>1. \A i \in 1..n : f3[i] = Power(2, i - 1)
    BY <1>9, <1>11
  <2>2. Total(f3, n) = Power(2, n) - 1
    BY <2>1, PowersAddUp
  <2> QED BY <1>2, <2>2, WidthIs
<1>27. DeltaOf(y, z) = Dot(Y, w) - z * z * z * (MaxAmount - 1)
  BY <1>4, <1>23 DEF DeltaOf
<1>28. PICK M \in Int, D1 \in Int, D4 \in Int, D5 \in Int, D6 \in Int :
          M = MaxAmount - 1 /\ D1 = Dot(Y, w) /\ D4 = Dot(sl, re) /\ D5 = Dot(le, lin) /\ D6 = Dot(sl, lin)
  <2>1. MaxAmount - 1 \in Int
    BY WidthIs
  <2> QED BY <1>20, <1>21, <1>22, <1>24, <2>1
<1>29. DeltaOf(y, z) = D1 + c3 * M /\ DeltaOf(y, z) \in Int
  BY <1>1, <1>15, <1>27, <1>28
<1>30. PICK F1 \in Int, F4 \in Int, F5 \in Int, F6 \in Int :
          F1 = Total(f1, n) /\ F4 = Total(f4, n) /\ F5 = Total(f5, n) /\ F6 = Total(f6, n)
  BY <1>20, <1>21, <1>22, <1>24
<1>31. Total(h, n) = F1 + c2 * (a - 1) + c3 * M + x * F4 + x * F5 + c6 * F6
  BY <1>17, <1>25, <1>26, <1>28, <1>30
<1>32. PICK k1 \in Int, k4 \in Int, k5 \in Int, k6 \in Int :
          /\ D1 = F1 + k1 * Order /\ D4 = F4 + k4 * Order
          /\ D5 = F5 + k5 * Order /\ D6 = F6 + k6 * Order
  <2>1. Same(D1, F1) /\ Same(D4, F4) /\ Same(D5, F5) /\ Same(D6, F6)
    BY <1>20, <1>21, <1>22, <1>24, <1>28, <1>30
  <2> QED BY <2>1, SameIff
<1>33. PICK k \in Int : k = k1 + x * k4 + x * k5 + c6 * k6
  <2>1. k1 + x * k4 + x * k5 + c6 * k6 \in Int
    BY <1>1
  <2> QED BY <2>1
<1>34. (D4 + D5) * x + D6 * c6 + (a - 1) * c2 + (D1 + c3 * M)
          = (F1 + c2 * (a - 1) + c3 * M + x * F4 + x * F5 + c6 * F6) + k * Order
  BY <1>1, <1>32, <1>33, OrderIs
<1>35. PICK X \in Int, H \in Int : /\ X = (D4 + D5) * x + D6 * c6 + (a - 1) * c2 + (D1 + c3 * M)
                                   /\ H = F1 + c2 * (a - 1) + c3 * M + x * F4 + x * F5 + c6 * F6
  <2>1. /\ (D4 + D5) * x + D6 * c6 + (a - 1) * c2 + (D1 + c3 * M) \in Int
        /\ F1 + c2 * (a - 1) + c3 * M + x * F4 + x * F5 + c6 * F6 \in Int
    BY <1>1
  <2> QED BY <2>1
<1>36. Same(X, H)
  <2>1. X = H + k * Order
    BY <1>34, <1>35
  <2> QED BY <2>1, SameIff
<1>37. Same(X, t)
  BY <1>18, <1>19, <1>31, <1>35, <1>36 DEF Same
<1> QED BY <1>15, <1>19, <1>20, <1>21, <1>22, <1>28, <1>29, <1>35, <1>37

-----------------------------------------------------------------------------
\* Hidden numbers, and the point of amount - 1.
LEMMA TwoBases ==
    ASSUME NEW k \in Int, NEW l \in Int, NEW p, p = Multi(<<ValueBase, BlindingBase>>, <<k, l>>)
    PROVE  /\ p \in Points
           /\ \A b \in Generator : /\ ValueBase[b] \in Int /\ BlindingBase[b] \in Int /\ p[b] \in Int
                                   /\ Same(p[b], ValueBase[b] * k + BlindingBase[b] * l)
<1>1. ValueBase \in Combinations /\ BlindingBase \in Combinations
  BY Bases, PointsCombine
<1>2. \A b \in Generator : ValueBase[b] \in Int /\ BlindingBase[b] \in Int
  BY <1>1 DEF Combinations
<1> QED BY <1>1, <1>2, TwoMulti

\* A commitment to an amount.
LEMMA HideIs ==
    ASSUME NEW a \in Int, NEW l \in Int, NEW p, p = Hide([amount |-> a, blinding |-> l])
    PROVE  p = Multi(<<ValueBase, BlindingBase>>, <<a, l>>)
BY DEF Hide

\* The point of a range proof commits to the amount less one.
LEMMA RangePointIs ==
    ASSUME NEW a \in Int, NEW l \in Int, NEW C, C = RangePoint(Hide([amount |-> a, blinding |-> l]))
    PROVE  /\ C \in Points
           /\ \A b \in Generator : /\ ValueBase[b] \in Int /\ BlindingBase[b] \in Int /\ C[b] \in Int
                                   /\ Same(C[b], ValueBase[b] * (a - 1) + BlindingBase[b] * l)
<1>1. PICK p, q : p = Multi(<<ValueBase, BlindingBase>>, <<a, l>>) /\ q = Times(-1, ValueBase)
  OBVIOUS
<1>2. /\ p \in Points
      /\ \A b \in Generator : /\ ValueBase[b] \in Int /\ BlindingBase[b] \in Int /\ p[b] \in Int
                              /\ Same(p[b], ValueBase[b] * a + BlindingBase[b] * l)
  BY <1>1, TwoBases
<1>3. /\ q \in Points
      /\ \A b \in Generator : q[b] \in Int /\ Same(q[b], ValueBase[b] * (-1))
  <2>1. ValueBase \in Combinations
    BY Bases, PointsCombine
  <2>2. PICK k \in Int : k = -1
    OBVIOUS
  <2>3. /\ Times(k, ValueBase) \in Points
        /\ \A b \in Generator : Times(k, ValueBase)[b] \in Int
                                /\ Same(Times(k, ValueBase)[b], ValueBase[b] * k)
    BY <2>1, TimesIs
  <2> QED BY <1>1, <2>2, <2>3
<1>4. C = Add(<<p, q>>)
  BY <1>1, HideIs DEF RangePoint
<1>5. p \in Combinations /\ q \in Combinations
  BY <1>2, <1>3, PointsCombine
<1>6. /\ Add(<<p, q>>) \in Points
      /\ \A b \in Generator : Add(<<p, q>>)[b] \in Int /\ Same(Add(<<p, q>>)[b], p[b] + q[b])
  BY <1>5, TwoAdd
<1>7. ASSUME NEW b \in Generator PROVE Same(C[b], ValueBase[b] * (a - 1) + BlindingBase[b] * l)
  <2>1. PICK V \in Int, B \in Int, P \in Int, Q \in Int :
           V = ValueBase[b] /\ B = BlindingBase[b] /\ P = p[b] /\ Q = q[b]
    BY <1>2, <1>3
  <2>2. PICK P0 \in Int, Q0 \in Int : P0 = V * a + B * l /\ Q0 = V * (-1)
    <3>1. V * a + B * l \in Int /\ V * (-1) \in Int
      OBVIOUS
    <3> QED BY <3>1
  <2>3. Same(P, P0) /\ Same(Q, Q0)
    BY <1>2, <1>3, <2>1, <2>2
  <2>4. Same(P + Q, P0 + Q0)
    BY <2>3, SameSum
  <2>5. P0 + Q0 = V * (a - 1) + B * l
    BY <2>2
  <2> QED BY <1>4, <1>6, <2>1, <2>4, <2>5 DEF Same
<1> QED BY <1>2, <1>4, <1>6, <1>7

\* satisfiesPolynomialCommitment, coordinate by coordinate.
LEMMA PolynomialTerms ==
    ASSUME NEW V \in Int, NEW B \in Int, NEW x \in Int, NEW z \in Int,
           NEW t1 \in Int, NEW t2 \in Int, NEW u1 \in Int, NEW u2 \in Int, NEW n \in Int, NEW l \in Int,
           NEW delta \in Int, NEW t \in Int, NEW tau \in Int,
           Same(t1 * x + t2 * (x * x) + n * (z * z) + delta, t),
           Same(tau, z * z * l + u1 * x + u2 * x * x),
           NEW p1 \in Int, NEW p2 \in Int, NEW p3 \in Int,
           Same(p1, V * t1 + B * u1), Same(p2, V * t2 + B * u2), Same(p3, V * n + B * l)
    PROVE  Same(p1 * x + p2 * (x * x) + p3 * (z * z) + V * delta, V * t + B * tau)
<1>1. PICK e1 \in Int, e2 \in Int, e3 \in Int, P \in Int, Q \in Int, c \in Int, d \in Int :
         /\ e1 = V * t1 + B * u1 /\ e2 = V * t2 + B * u2 /\ e3 = V * n + B * l
         /\ P = t1 * x + t2 * (x * x) + n * (z * z) + delta
         /\ Q = z * z * l + u1 * x + u2 * x * x
         /\ c = x * x /\ d = z * z
  <2>1. /\ V * t1 + B * u1 \in Int /\ V * t2 + B * u2 \in Int /\ V * n + B * l \in Int
        /\ t1 * x + t2 * (x * x) + n * (z * z) + delta \in Int
        /\ z * z * l + u1 * x + u2 * x * x \in Int /\ x * x \in Int /\ z * z \in Int
    OBVIOUS
  <2> QED BY <2>1
<1>2. PICK k1 \in Int, k2 \in Int, k3 \in Int :
         p1 = e1 + k1 * Order /\ p2 = e2 + k2 * Order /\ p3 = e3 + k3 * Order
  <2>1. Same(p1, e1) /\ Same(p2, e2) /\ Same(p3, e3)
    BY <1>1
  <2> QED BY <2>1, SameIff
<1>3. PICK k4 \in Int, k5 \in Int : P = t + k4 * Order /\ tau = Q + k5 * Order
  <2>1. Same(P, t) /\ Same(tau, Q)
    BY <1>1
  <2> QED BY <2>1, SameIff
<1>4. e1 * x + e2 * c + e3 * d + V * delta = V * P + B * Q
  <2>1. P = t1 * x + t2 * c + n * d + delta /\ Q = d * l + u1 * x + u2 * c
    BY <1>1
  <2> QED BY <1>1, <2>1
<1>5. p1 * x + p2 * c + p3 * d + V * delta
         = (e1 * x + e2 * c + e3 * d + V * delta) + (k1 * x + k2 * c + k3 * d) * Order
  BY <1>2, OrderIs
<1>6. V * P + B * Q = (V * t + B * tau) + (V * k4 - B * k5) * Order
  BY <1>3, OrderIs
<1>7. PICK m \in Int, X \in Int, Y \in Int :
         /\ m = (k1 * x + k2 * c + k3 * d) + (V * k4 - B * k5)
         /\ X = p1 * x + p2 * c + p3 * d + V * delta /\ Y = V * t + B * tau
  <2>1. /\ (k1 * x + k2 * c + k3 * d) + (V * k4 - B * k5) \in Int
        /\ p1 * x + p2 * c + p3 * d + V * delta \in Int /\ V * t + B * tau \in Int
    OBVIOUS
  <2> QED BY <2>1
<1>8. X = Y + m * Order
  <2>1. PICK m1 \in Int, m2 \in Int : m1 = k1 * x + k2 * c + k3 * d /\ m2 = V * k4 - B * k5
    <3>1. k1 * x + k2 * c + k3 * d \in Int /\ V * k4 - B * k5 \in Int
      OBVIOUS
    <3> QED BY <3>1
  <2>2. X = Y + m2 * Order + m1 * Order
    BY <1>4, <1>5, <1>6, <1>7, <2>1
  <2>3. m = m1 + m2 /\ m * Order = m2 * Order + m1 * Order
    BY <1>7, <2>1, OrderIs
  <2>4. PICK y1 \in Int, y2 \in Int : y1 = m1 * Order /\ y2 = m2 * Order
    BY OrderIs
  <2> QED BY <2>2, <2>3, <2>4
<1>9. Same(X, Y)
  BY <1>8, SameIff
<1> QED BY <1>1, <1>7, <1>9

\* What the polynomial is at x, and what hides it.
SumsTo(t, x, z, t1, t2, a, delta) == Same(t1 * x + t2 * (x * x) + (a - 1) * (z * z) + delta, t)
Hides(tau, x, z, u1, u2, l) == Same(tau, z * z * l + u1 * x + u2 * x * x)
TwoHidden(p, k, l) == p = Multi(<<ValueBase, BlindingBase>>, <<k, l>>)
RangeHidden(C, a, l) == C = RangePoint(Hide([amount |-> a, blinding |-> l]))
PolynomialEqual(T1, T2, C, x, z, delta, t, tau) ==
    Multi(<<T1, T2, C, ValueBase>>, <<x, x * x, z * z, delta>>)
        = Multi(<<ValueBase, BlindingBase>>, <<t, tau>>)

\* The polynomial equation, from what its scalars are.
LEMMA PolynomialSame ==
    ASSUME NEW x \in Int, NEW z \in Int,
           NEW t1 \in Int, NEW t2 \in Int, NEW u1 \in Int, NEW u2 \in Int, NEW a \in Int, NEW l \in Int,
           NEW delta \in Int, NEW t \in Int, NEW tau \in Int,
           SumsTo(t, x, z, t1, t2, a, delta), Hides(tau, x, z, u1, u2, l),
           NEW T1, TwoHidden(T1, t1, u1), NEW T2, TwoHidden(T2, t2, u2), NEW C, RangeHidden(C, a, l)
    PROVE  PolynomialEqual(T1, T2, C, x, z, delta, t, tau)
<1>1. /\ T1 \in Points
      /\ \A b \in Generator : /\ ValueBase[b] \in Int /\ BlindingBase[b] \in Int /\ T1[b] \in Int
                              /\ Same(T1[b], ValueBase[b] * t1 + BlindingBase[b] * u1)
  BY TwoBases DEF TwoHidden
<1>2. /\ T2 \in Points
      /\ \A b \in Generator : /\ T2[b] \in Int
                              /\ Same(T2[b], ValueBase[b] * t2 + BlindingBase[b] * u2)
  BY TwoBases DEF TwoHidden
<1>3. /\ C \in Points
      /\ \A b \in Generator : /\ C[b] \in Int
                              /\ Same(C[b], ValueBase[b] * (a - 1) + BlindingBase[b] * l)
  BY RangePointIs DEF RangeHidden
<1>4. PICK c \in Int, d \in Int, n \in Int : c = x * x /\ d = z * z /\ n = a - 1
  <2>1. x * x \in Int /\ z * z \in Int /\ a - 1 \in Int
    OBVIOUS
  <2> QED BY <2>1
<1>5. PICK p, q : /\ p = Multi(<<T1, T2, C, ValueBase>>, <<x, c, d, delta>>)
                  /\ q = Multi(<<ValueBase, BlindingBase>>, <<t, tau>>)
  OBVIOUS
<1>6. /\ p \in Points
      /\ \A b \in Generator : /\ p[b] \in Int
                              /\ Same(p[b], (T1[b] * x) + (T2[b] * c) + (C[b] * d) + (ValueBase[b] * delta))
  <2>1. /\ T1 \in Combinations /\ T2 \in Combinations /\ C \in Combinations /\ ValueBase \in Combinations
    BY <1>1, <1>2, <1>3, Bases, PointsCombine
  <2> QED BY <1>5, <2>1, FourMulti
<1>7. /\ q \in Points
      /\ \A b \in Generator : q[b] \in Int /\ Same(q[b], ValueBase[b] * t + BlindingBase[b] * tau)
  BY <1>5, TwoBases
<1>8. ASSUME NEW b \in Generator PROVE Same(p[b], q[b])
  <2>1. PICK V \in Int, B \in Int, p1 \in Int, p2 \in Int, p3 \in Int :
           /\ V = ValueBase[b] /\ B = BlindingBase[b]
           /\ p1 = T1[b] /\ p2 = T2[b] /\ p3 = C[b]
    BY <1>1, <1>2, <1>3
  <2>2. Same(p1, V * t1 + B * u1) /\ Same(p2, V * t2 + B * u2) /\ Same(p3, V * n + B * l)
    BY <1>1, <1>2, <1>3, <1>4, <2>1
  <2>3. /\ Same(t1 * x + t2 * (x * x) + n * (z * z) + delta, t)
        /\ Same(tau, z * z * l + u1 * x + u2 * x * x)
    BY <1>4 DEF SumsTo, Hides
  <2>4. Same(p1 * x + p2 * (x * x) + p3 * (z * z) + V * delta, V * t + B * tau)
    BY <2>2, <2>3, PolynomialTerms, Zenon
  <2>5. Same(p[b], p1 * x + p2 * (x * x) + p3 * (z * z) + V * delta) /\ Same(q[b], V * t + B * tau)
    BY <1>4, <1>6, <1>7, <2>1
  <2> QED BY <2>4, <2>5 DEF Same
<1>9. p = q
  BY <1>6, <1>7, <1>8, SamePoints
<1> QED BY <1>4, <1>5, <1>9 DEF PolynomialEqual

-----------------------------------------------------------------------------
\* The weights of the folded generators.
WeightsG(cs) == [i \in Index |-> ScaleOfG(cs, i)]
WeightsH(cs, y) == [i \in Index |-> Inv(Powers(y)[i]) * ScaleOfH(cs, i)]

\* With one element left, verifyInner computes the point the prover is left with.
LEMMA InnerFinal ==
    ASSUME NEW y \in Answer, NEW cs, cs \in [1..Rounds -> Answer],
           NEW g, g \in [1..1 -> Points], NEW h, h \in [1..1 -> Points],
           NEW a, a \in [1..1 -> Int], NEW b, b \in [1..1 -> Int], NEW u, u \in Points,
           Spread(g, "g", WeightsG(cs), 1), Spread(h, "h", WeightsH(cs, y), 1),
           NEW w, w = [i \in Index |-> Weight(cs, i)]
    PROVE  Committed(g, h, a, b, u)
              = Add(<<Times(a[1], Multi(GS, w)), Times(b[1], Multi(Rescaled(y), Reverse(w))),
                      Times(a[1] * b[1], u)>>)
<1>1. Width \in Nat \ {0} /\ Index = 1..Width /\ 1 \in Nat /\ 1 \in Nat \ {0}
  BY WidthIs
<1>2. ASSUME NEW i \in Index
      PROVE  /\ w[i] \in Int /\ ScaleOfG(cs, i) \in Int /\ Same(w[i], ScaleOfG(cs, i))
             /\ Width + 1 - i \in Index /\ w[Width + 1 - i] \in Int
             /\ ScaleOfH(cs, i) \in Int /\ Same(w[Width + 1 - i], ScaleOfH(cs, i))
  <2>1. Weight(cs, i) \in Int /\ ScaleOfG(cs, i) \in Int /\ Same(Weight(cs, i), ScaleOfG(cs, i))
    BY WeightIs
  <2>2. /\ Width + 1 - i \in Index
        /\ Weight(cs, Width + 1 - i) \in Int /\ ScaleOfH(cs, i) \in Int
        /\ Same(Weight(cs, Width + 1 - i), ScaleOfH(cs, i))
    BY ReverseWeightIs
  <2> QED BY <2>1, <2>2
<1>3. w \in [Index -> Int]
  BY <1>2
<1>4. PICK r : r = Reverse(w)
  OBVIOUS
<1>5. r \in [Index -> Int] /\ \A i \in Index : r[i] = w[Width + 1 - i]
  <2>1. w \in [1..Width -> Int] /\ w \in Seq(Int) /\ Len(w) = Width
    BY <1>1, <1>3
  <2>2. r = [i \in 1..Width |-> w[(Width - i) + 1]]
    BY <1>4, <2>1 DEF Reverse
  <2>3. \A i \in 1..Width : (Width - i) + 1 = Width + 1 - i
    BY <1>1
  <2> QED BY <1>1, <1>2, <2>2, <2>3
<1>6. \A i \in Index : Inv(Powers(y)[i]) \in Int
  BY PowersAre
<1>7. Ints(WeightsG(cs), Width)
  BY <1>1, <1>2 DEF WeightsG, Ints
<1>8. Ints(WeightsH(cs, y), Width)
  <2>1. ASSUME NEW i \in Index PROVE Inv(Powers(y)[i]) * ScaleOfH(cs, i) \in Int
    <3>1. PICK I \in Int, S \in Int : I = Inv(Powers(y)[i]) /\ S = ScaleOfH(cs, i)
      BY <1>2, <1>6
    <3>2. I * S \in Int
      OBVIOUS
    <3> QED BY <3>1, <3>2
  <2> QED BY <1>1, <2>1 DEF WeightsH, Ints
<1>9. \A i \in Index : Place(i, 1) = 1
  <2>1. ASSUME NEW i \in Index PROVE Place(i, 1) \in 1..1
    <3>1. i \in Nat \ {0} /\ 1 \in Nat \ {0}
      BY <1>1
    <3> QED BY <3>1, PlaceIs
  <2> QED BY <2>1
<1>10. /\ Committed(g, h, a, b, u) \in Points
       /\ \A e \in Generator :
             /\ Committed(g, h, a, b, u)[e] \in Int /\ u[e] \in Int
             /\ Multi(g, a)[e] \in Int /\ Multi(h, b)[e] \in Int /\ Dot(a, b) \in Int
             /\ Same(Committed(g, h, a, b, u)[e],
                     Multi(g, a)[e] + Multi(h, b)[e] + u[e] * Dot(a, b))
  BY <1>1, CommittedIs
<1>11. PICK k \in Int, l \in Int : k = a[1] /\ l = b[1]
  OBVIOUS
<1>12. Same(Dot(a, b), k * l)
  <2>1. PICK x : x = [i \in 1..1 |-> a[i] * b[i]]
    OBVIOUS
  <2>2. Products(x, a, b, 1) /\ DOMAIN a = 1..1
    BY <2>1 DEF Products
  <2>3. Ints(x, 1)
    <3>1. x[1] = k * l
      BY <1>11, <2>1
    <3> QED BY <3>1 DEF Ints
  <2>4. Same(Dot(a, b), Total(x, 1))
    BY <1>1, <2>2, <2>3, DotIs
  <2>5. Total(x, 1) = x[1]
    BY <2>3, TotalOfFew
  <2> QED BY <1>11, <2>1, <2>4, <2>5
<1>13. PICK p, q, p1, q1, r1, m :
          /\ p = Multi(GS, w) /\ q = Multi(Rescaled(y), r) /\ m = k * l /\ m \in Int
          /\ p1 = Times(k, p) /\ q1 = Times(l, q) /\ r1 = Times(m, u)
  <2>1. k * l \in Int
    OBVIOUS
  <2> QED BY <2>1
<1>14. /\ p \in Points
       /\ \A e \in Generator : /\ p[e] \in Int
                               /\ OnG(e) => w[e[2]] \in Int /\ Same(p[e], w[e[2]])
                               /\ ~ OnG(e) => Same(p[e], 0)
  BY <1>3, <1>13, MultiOfG
<1>15. /\ q \in Points
       /\ \A e \in Generator :
             /\ q[e] \in Int
             /\ OnH(e) => r[e[2]] \in Int /\ Same(q[e], Inv(Powers(y)[e[2]]) * r[e[2]])
             /\ ~ OnH(e) => Same(q[e], 0)
  BY <1>5, <1>13, MultiOfRescaled
<1>16. /\ p1 \in Points /\ \A e \in Generator : p1[e] \in Int /\ Same(p1[e], p[e] * k)
  BY <1>13, <1>14, TimesIs, PointsCombine
<1>17. /\ q1 \in Points /\ \A e \in Generator : q1[e] \in Int /\ Same(q1[e], q[e] * l)
  BY <1>13, <1>15, TimesIs, PointsCombine
<1>18. /\ r1 \in Points /\ \A e \in Generator : r1[e] \in Int /\ Same(r1[e], u[e] * m)
  BY <1>13, TimesIs, PointsCombine
<1>19. PICK s : s = Add(<<p1, q1, r1>>)
  OBVIOUS
<1>20. s \in Points /\ \A e \in Generator : s[e] \in Int /\ Same(s[e], p1[e] + q1[e] + r1[e])
  <2>1. p1 \in Combinations /\ q1 \in Combinations /\ r1 \in Combinations
    BY <1>16, <1>17, <1>18, PointsCombine
  <2> QED BY <1>19, <2>1, ThreeAdd
<1>21. ASSUME NEW e \in Generator PROVE Same(Multi(g, a)[e], p1[e])
  <2>1. /\ e \in {"g"} \X Index => /\ e[2] \in Index /\ WeightsG(cs)[e[2]] \in Int
                                   /\ Same(Multi(g, a)[e], WeightsG(cs)[e[2]] * a[Place(e[2], 1)])
        /\ e \notin {"g"} \X Index => Same(Multi(g, a)[e], 0)
    BY <1>1, <1>7, SpreadMulti
  <2>2. CASE OnG(e)
    <3>1. PICK i \in Index : i = e[2]
      BY <2>1, <2>2 DEF OnG
    <3>2. PICK W \in Int, S \in Int, X \in Int : W = w[i] /\ S = ScaleOfG(cs, i) /\ X = p[e]
      BY <1>2, <1>14
    <3>3. Same(Multi(g, a)[e], S * k)
      BY <1>9, <1>11, <2>1, <2>2, <3>1, <3>2 DEF OnG, WeightsG
    <3>4. Same(X, S)
      BY <1>2, <1>14, <2>2, <3>1, <3>2 DEF Same
    <3>5. Same(X * k, S * k)
      BY <3>4, SameTimes
    <3> QED BY <1>16, <3>2, <3>3, <3>5 DEF Same
  <2>3. CASE ~ OnG(e)
    <3>1. PICK X \in Int : X = p[e]
      BY <1>14
    <3>2. Same(X, 0)
      BY <1>14, <2>3, <3>1
    <3>3. Same(X * k, 0)
      BY <3>2, NoneOf
    <3>4. Same(Multi(g, a)[e], 0)
      BY <2>1, <2>3 DEF OnG
    <3> QED BY <1>16, <3>1, <3>3, <3>4 DEF Same
  <2> QED BY <2>2, <2>3
<1>22. ASSUME NEW e \in Generator PROVE Same(Multi(h, b)[e], q1[e])
  <2>1. /\ e \in {"h"} \X Index => /\ e[2] \in Index /\ WeightsH(cs, y)[e[2]] \in Int
                                   /\ Same(Multi(h, b)[e], WeightsH(cs, y)[e[2]] * b[Place(e[2], 1)])
        /\ e \notin {"h"} \X Index => Same(Multi(h, b)[e], 0)
    BY <1>1, <1>8, SpreadMulti
  <2>2. CASE OnH(e)
    <3>1. PICK i \in Index : i = e[2]
      BY <2>1, <2>2 DEF OnH
    <3>2. PICK W \in Int, S \in Int, X \in Int, I \in Int :
             W = r[i] /\ S = ScaleOfH(cs, i) /\ X = q[e] /\ I = Inv(Powers(y)[i])
      BY <1>2, <1>5, <1>6, <1>15
    <3>3. Same(Multi(h, b)[e], (I * S) * l)
      BY <1>9, <1>11, <2>1, <2>2, <3>1, <3>2 DEF OnH, WeightsH
    <3>4. Same(X, I * W)
      BY <1>15, <2>2, <3>1, <3>2
    <3>5. Same(W, S)
      BY <1>2, <1>5, <3>2
    <3>6. PICK Y \in Int, Z \in Int : Y = I * W /\ Z = I * S
      OBVIOUS
    <3>7. Same(Y, Z)
      <4>1. Same(W * I, S * I)
        BY <3>5, SameTimes
      <4>2. W * I = I * W /\ S * I = I * S
        OBVIOUS
      <4> QED BY <3>6, <4>1, <4>2
    <3>8. Same(X, Z)
      BY <3>4, <3>6, <3>7 DEF Same
    <3>9. Same(X * l, Z * l)
      BY <3>8, SameTimes
    <3> QED BY <1>17, <3>2, <3>3, <3>6, <3>9 DEF Same
  <2>3. CASE ~ OnH(e)
    <3>1. PICK X \in Int : X = q[e]
      BY <1>15
    <3>2. Same(X, 0)
      BY <1>15, <2>3, <3>1
    <3>3. Same(X * l, 0)
      BY <3>2, NoneOf
    <3>4. Same(Multi(h, b)[e], 0)
      BY <2>1, <2>3 DEF OnH
    <3> QED BY <1>17, <3>1, <3>3, <3>4 DEF Same
  <2> QED BY <2>2, <2>3
<1>23. ASSUME NEW e \in Generator PROVE Same(u[e] * Dot(a, b), r1[e])
  <2>1. PICK U \in Int, D \in Int : U = u[e] /\ D = Dot(a, b)
    BY <1>10
  <2>2. Same(D, m)
    BY <1>12, <1>13, <2>1
  <2>3. Same(D * U, m * U)
    BY <1>13, <2>2, SameTimes
  <2>4. D * U = U * D /\ m * U = U * m
    BY <1>13
  <2> QED BY <1>18, <2>1, <2>3, <2>4 DEF Same
<1>24. ASSUME NEW e \in Generator PROVE Same(Committed(g, h, a, b, u)[e], s[e])
  <2>1. PICK x1 \in Int, x2 \in Int, x3 \in Int, y1 \in Int, y2 \in Int, y3 \in Int :
           /\ x1 = Multi(g, a)[e] /\ x2 = Multi(h, b)[e] /\ x3 = u[e] * Dot(a, b)
           /\ y1 = p1[e] /\ y2 = q1[e] /\ y3 = r1[e]
    <3>1. u[e] * Dot(a, b) \in Int
      BY <1>10
    <3> QED BY <1>10, <1>16, <1>17, <1>18, <3>1
  <2>2. Same(x1, y1) /\ Same(x2, y2) /\ Same(x3, y3)
    BY <1>21, <1>22, <1>23, <2>1
  <2>3. PICK x4 \in Int, y4 \in Int : x4 = x1 + x2 /\ y4 = y1 + y2
    OBVIOUS
  <2>4. Same(x4, y4)
    BY <2>2, <2>3, SameSum
  <2>5. Same(x4 + x3, y4 + y3)
    BY <2>2, <2>4, SameSum
  <2> QED BY <1>10, <1>20, <2>1, <2>3, <2>5 DEF Same
<1>25. Committed(g, h, a, b, u) = s
  BY <1>10, <1>20, <1>24, SamePoints
<1> QED BY <1>4, <1>11, <1>13, <1>19, <1>25

-----------------------------------------------------------------------------
\* The verifier's left side: what was published, with the squared challenges.
Squares(cs) == [k \in DOMAIN cs |-> cs[k] * cs[k]]
Inverted(cs) == [k \in DOMAIN cs |-> Inv(cs[k]) * Inv(cs[k])]
Published(ls, rs, cs, p) == Add(<<Multi(ls, Squares(cs)), Multi(rs, Inverted(cs)), p>>)

\* The squares of the challenges and of their inverses are numbers.
LEMMA ChallengesAre ==
    ASSUME NEW n \in Nat, NEW cs, cs \in [1..n -> Answer]
    PROVE  Squares(cs) \in [1..n -> Int] /\ Inverted(cs) \in [1..n -> Int]
<1>1. ASSUME NEW k \in 1..n PROVE cs[k] * cs[k] \in Int /\ Inv(cs[k]) * Inv(cs[k]) \in Int
  <2>1. PICK c \in Answer : c = cs[k]
    OBVIOUS
  <2>2. c \in Int /\ Inv(c) \in Int
    BY AnswerIs
  <2> QED BY <2>1, <2>2
<1>2. DOMAIN cs = 1..n
  OBVIOUS
<1> QED BY <1>1, <1>2 DEF Squares, Inverted

\* The points of the rounds combined, one generator at a time.
LEMMA PublishedIs ==
    ASSUME NEW n \in Nat, NEW cs, cs \in [1..n -> Answer], NEW ls, ls \in [1..n -> Points],
           NEW rs, rs \in [1..n -> Points], NEW p, p \in Points
    PROVE  /\ Published(ls, rs, cs, p) \in Points
           /\ \A b \in Generator :
                 /\ Published(ls, rs, cs, p)[b] \in Int /\ Multi(ls, Squares(cs))[b] \in Int
                 /\ Multi(rs, Inverted(cs))[b] \in Int /\ p[b] \in Int
                 /\ Same(Published(ls, rs, cs, p)[b],
                         Multi(ls, Squares(cs))[b] + Multi(rs, Inverted(cs))[b] + p[b])
<1>1. PICK v, w : v = Squares(cs) /\ w = Inverted(cs) /\ v \in [1..n -> Int] /\ w \in [1..n -> Int]
  BY ChallengesAre
<1>2. ls \in [1..n -> Combinations] /\ rs \in [1..n -> Combinations] /\ p \in Combinations
  BY PointsCombine
<1>3. PICK q, r : q = Multi(ls, v) /\ r = Multi(rs, w)
  OBVIOUS
<1>4. q \in Points
  BY <1>1, <1>2, <1>3, MultiIs
<1>5. r \in Points
  BY <1>1, <1>2, <1>3, MultiIs
<1>6. q \in Combinations /\ r \in Combinations
  BY <1>4, <1>5, PointsCombine
<1>7. /\ Add(<<q, r, p>>) \in Points
      /\ \A b \in Generator : /\ Add(<<q, r, p>>)[b] \in Int
                              /\ Same(Add(<<q, r, p>>)[b], q[b] + r[b] + p[b])
  BY <1>2, <1>6, ThreeAdd
<1>8. \A b \in Generator : q[b] \in Int /\ r[b] \in Int /\ p[b] \in Int
  BY <1>2, <1>6 DEF Combinations
<1> QED BY <1>1, <1>3, <1>7, <1>8 DEF Published

\* Nothing published yet.
LEMMA PublishedNone ==
    ASSUME NEW p, p \in Points
    PROVE  Published(<<>>, <<>>, <<>>, p) = p
<1>1. PICK v : v = <<>>
  OBVIOUS
<1>2. v \in [1..0 -> Answer] /\ v \in [1..0 -> Points] /\ v \in [1..0 -> Combinations]
  BY <1>1
<1>3. Squares(v) \in [1..0 -> Int] /\ Inverted(v) \in [1..0 -> Int] /\ 0 \in Nat
  BY <1>2, ChallengesAre
<1>4. /\ Published(v, v, v, p) \in Points
      /\ \A b \in Generator :
            /\ Published(v, v, v, p)[b] \in Int /\ Multi(v, Squares(v))[b] \in Int
            /\ Multi(v, Inverted(v))[b] \in Int /\ p[b] \in Int
            /\ Same(Published(v, v, v, p)[b], Multi(v, Squares(v))[b] + Multi(v, Inverted(v))[b] + p[b])
  BY <1>2, <1>3, PublishedIs
<1>5. ASSUME NEW s, s \in [1..0 -> Int], NEW b \in Generator
      PROVE  Same(Multi(v, s)[b], 0)
  <2>1. PICK h : h = [i \in 1..0 |-> v[i][b] * s[i]]
    OBVIOUS
  <2>2. \A i \in 1..0 : h[i] = v[i][b] * s[i]
    BY <2>1
  <2>3. Same(Multi(v, s)[b], Total(h, 0))
    BY <1>2, <1>3, <1>5, <2>2, MultiIs
  <2>4. Total(h, 0) = 0
    BY TotalNone
  <2> QED BY <2>3, <2>4
<1>6. ASSUME NEW b \in Generator PROVE Same(Published(v, v, v, p)[b], p[b])
  <2>1. PICK X \in Int, Y \in Int, P \in Int :
           X = Multi(v, Squares(v))[b] /\ Y = Multi(v, Inverted(v))[b] /\ P = p[b]
    BY <1>4
  <2>2. Same(X, 0) /\ Same(Y, 0) /\ Same(P, P)
    BY <1>3, <1>5, <2>1 DEF Same
  <2>3. Same(X + Y, 0 + 0)
    BY <2>2, SameSum
  <2>4. PICK Z \in Int : Z = X + Y
    OBVIOUS
  <2>5. Same(Z, 0)
    BY <2>3, <2>4
  <2>6. Same(Z + P, 0 + P)
    BY <2>2, <2>5, SameSum
  <2>7. 0 + P = P
    OBVIOUS
  <2> QED BY <1>4, <2>1, <2>4, <2>6, <2>7 DEF Same
<1> QED BY <1>1, <1>4, <1>6, SamePoints

\* A point more in a combination.
LEMMA MultiMore ==
    ASSUME NEW n \in Nat, NEW m \in Nat, m = n + 1,
           NEW P, P \in [1..n -> Points], NEW v, v \in [1..n -> Int],
           NEW Q, Q \in [1..m -> Points], NEW w, w \in [1..m -> Int],
           Agree(Q, P, n), Agree(w, v, n), NEW b \in Generator
    PROVE  /\ Multi(P, v)[b] \in Int /\ Multi(Q, w)[b] \in Int /\ Q[m][b] \in Int /\ w[m] \in Int
           /\ Same(Multi(Q, w)[b], Multi(P, v)[b] + w[m] * Q[m][b])
<1>1. PICK q, k : q = Q[m] /\ k = w[m] /\ k \in Int
  <2>1. m \in 1..m
    OBVIOUS
  <2> QED BY <2>1
<1>2. P \in [1..n -> Combinations] /\ Q \in [1..m -> Combinations] /\ w \in [1..m -> Int]
  BY <1>1, PointsCombine
<1>3. PICK f, h : f = [i \in 1..m |-> Q[i][b] * w[i]] /\ h = [i \in 1..n |-> P[i][b] * v[i]]
  OBVIOUS
<1>4. Ints(f, m) /\ Total(f, m) \in Int /\ Multi(Q, w)[b] \in Int /\ Same(Multi(Q, w)[b], Total(f, m))
  <2>1. \A i \in 1..m : f[i] = Q[i][b] * w[i]
    BY <1>3
  <2> QED BY <1>2, <2>1, MultiIs, ZenonT(60)
<1>5. Ints(h, n) /\ Total(h, n) \in Int /\ Multi(P, v)[b] \in Int /\ Same(Multi(P, v)[b], Total(h, n))
  <2>1. \A i \in 1..n : h[i] = P[i][b] * v[i]
    BY <1>3
  <2>2. P \in [1..n -> Combinations] /\ v \in [1..n -> Int]
    BY <1>2
  <2> QED BY <2>1, <2>2, MultiIs
<1>6. Total(f, m) = f[m] + Total(f, n)
  BY <1>4, TotalStep
<1>7. Total(f, n) = Total(h, n)
  <2>1. ASSUME NEW i \in 1..n PROVE f[i] = h[i]
    <3>1. i \in 1..m
      OBVIOUS
    <3>2. f[i] = Q[i][b] * w[i] /\ h[i] = P[i][b] * v[i]
      BY <1>3, <3>1
    <3> QED BY <3>2 DEF Agree
  <2> QED BY <1>5, <2>1, TotalAgrees
<1>8. q[b] \in Int /\ f[m] = k * q[b]
  <2>1. m \in 1..m
    BY <1>1
  <2>2. f[m] = Q[m][b] * w[m] /\ Q[m] \in Combinations
    BY <1>2, <1>3, <2>1
  <2>3. Q[m][b] \in Int
    BY <2>2 DEF Combinations
  <2>4. Q[m][b] * k = k * Q[m][b]
    BY <1>1, <2>3
  <2> QED BY <1>1, <2>2, <2>3, <2>4
<1>9. PICK X \in Int, Y \in Int, H \in Int, K \in Int :
         X = Multi(Q, w)[b] /\ Y = Multi(P, v)[b] /\ H = Total(h, n) /\ K = k * q[b]
  <2>1. k * q[b] \in Int
    BY <1>1, <1>8
  <2> QED BY <1>4, <1>5, <2>1
<1>10. Same(X, K + H) /\ Same(H, Y) /\ Same(K, K)
  BY <1>4, <1>5, <1>6, <1>7, <1>8, <1>9 DEF Same
<1>11. Same(H + K, Y + K)
  BY <1>10, SameSum
<1>12. K + H = H + K
  OBVIOUS
<1> QED BY <1>1, <1>4, <1>5, <1>8, <1>9, <1>10, <1>11, <1>12 DEF Same

-----------------------------------------------------------------------------
\* Publishing one round's points adds them, each with its factor.
LEMMA PublishedMore ==
    ASSUME NEW n \in Nat, NEW cs, cs \in [1..n -> Answer], NEW ls, ls \in [1..n -> Points],
           NEW rs, rs \in [1..n -> Points], NEW p, p \in Points,
           NEW c \in Answer, NEW left, left \in Points, NEW right, right \in Points,
           NEW ds, ds \in [1..(n + 1) -> Answer], NEW ls2, ls2 \in [1..(n + 1) -> Points],
           NEW rs2, rs2 \in [1..(n + 1) -> Points],
           Agree(ds, cs, n), Agree(ls2, ls, n), Agree(rs2, rs, n),
           ds[n + 1] = c, ls2[n + 1] = left, rs2[n + 1] = right, NEW b \in Generator
    PROVE  /\ Published(ls2, rs2, ds, p)[b] \in Int /\ Published(ls, rs, cs, p)[b] \in Int
           /\ left[b] \in Int /\ right[b] \in Int
           /\ Same(Published(ls2, rs2, ds, p)[b],
                   Published(ls, rs, cs, p)[b] + (c * c) * left[b] + (Inv(c) * Inv(c)) * right[b])
<1>1. PICK m \in Nat : m = n + 1
  OBVIOUS
<1>2. c \in Int /\ Inv(c) \in Int
  BY AnswerIs
<1>3. PICK C \in Int, D \in Int : C = c * c /\ D = Inv(c) * Inv(c)
  <2>1. c * c \in Int /\ Inv(c) * Inv(c) \in Int
    BY <1>2
  <2> QED BY <2>1
<1>4. PICK v, w, v2, w2 : v = Squares(cs) /\ w = Inverted(cs) /\ v2 = Squares(ds) /\ w2 = Inverted(ds)
  OBVIOUS
<1>5. v \in [1..n -> Int] /\ w \in [1..n -> Int]
  BY <1>4, ChallengesAre
<1>6. v2 \in [1..(n + 1) -> Int] /\ w2 \in [1..(n + 1) -> Int]
  <2>1. ds \in [1..m -> Answer]
    BY <1>1
  <2>2. Squares(ds) \in [1..m -> Int] /\ Inverted(ds) \in [1..m -> Int]
    BY <2>1, ChallengesAre
  <2> QED BY <1>1, <1>4, <2>2
<1>7. Agree(v2, v, n) /\ Agree(w2, w, n) /\ v2[n + 1] = C /\ w2[n + 1] = D
  <2>1. \A i \in 1..n : i \in 1..(n + 1)
    OBVIOUS
  <2>2. n + 1 \in 1..(n + 1) /\ DOMAIN cs = 1..n /\ DOMAIN ds = 1..(n + 1)
    OBVIOUS
  <2> QED BY <1>3, <1>4, <2>1, <2>2 DEF Squares, Inverted, Agree
<1>8. /\ Multi(ls, v)[b] \in Int /\ Multi(ls2, v2)[b] \in Int /\ left[b] \in Int
      /\ Same(Multi(ls2, v2)[b], Multi(ls, v)[b] + C * left[b])
  <2>1. ls2 \in [1..m -> Points] /\ v2 \in [1..m -> Int]
    BY <1>1, <1>6
  <2>2. Agree(ls2, ls, n) /\ Agree(v2, v, n)
    BY <1>7
  <2>3. /\ Multi(ls, v)[b] \in Int /\ Multi(ls2, v2)[b] \in Int
        /\ ls2[m][b] \in Int /\ v2[m] \in Int
        /\ Same(Multi(ls2, v2)[b], Multi(ls, v)[b] + v2[m] * ls2[m][b])
    BY <1>1, <1>5, <2>1, <2>2, MultiMore
  <2> QED BY <1>1, <1>7, <2>3
<1>9. /\ Multi(rs, w)[b] \in Int /\ Multi(rs2, w2)[b] \in Int /\ right[b] \in Int
      /\ Same(Multi(rs2, w2)[b], Multi(rs, w)[b] + D * right[b])
  <2>1. rs2 \in [1..m -> Points] /\ w2 \in [1..m -> Int]
    BY <1>1, <1>6
  <2>2. Agree(rs2, rs, n) /\ Agree(w2, w, n)
    BY <1>7
  <2>3. /\ Multi(rs, w)[b] \in Int /\ Multi(rs2, w2)[b] \in Int
        /\ rs2[m][b] \in Int /\ w2[m] \in Int
        /\ Same(Multi(rs2, w2)[b], Multi(rs, w)[b] + w2[m] * rs2[m][b])
    BY <1>1, <1>5, <2>1, <2>2, MultiMore
  <2> QED BY <1>1, <1>7, <2>3
<1>10. /\ Published(ls, rs, cs, p)[b] \in Int /\ p[b] \in Int
       /\ Same(Published(ls, rs, cs, p)[b], Multi(ls, v)[b] + Multi(rs, w)[b] + p[b])
  BY <1>4, PublishedIs
<1>11. /\ Published(ls2, rs2, ds, p)[b] \in Int
       /\ Same(Published(ls2, rs2, ds, p)[b], Multi(ls2, v2)[b] + Multi(rs2, w2)[b] + p[b])
  <2>1. ds \in [1..m -> Answer] /\ ls2 \in [1..m -> Points] /\ rs2 \in [1..m -> Points]
    BY <1>1
  <2> QED BY <1>4, <2>1, PublishedIs
<1>12. PICK x \in Int, y \in Int, x2 \in Int, y2 \in Int, P \in Int, q \in Int, q2 \in Int,
            cl \in Int, dr \in Int :
          /\ x = Multi(ls, v)[b] /\ x2 = Multi(ls2, v2)[b] /\ y = Multi(rs, w)[b]
          /\ y2 = Multi(rs2, w2)[b] /\ P = p[b] /\ q = Published(ls, rs, cs, p)[b]
          /\ q2 = Published(ls2, rs2, ds, p)[b] /\ cl = C * left[b] /\ dr = D * right[b]
  <2>1. C * left[b] \in Int /\ D * right[b] \in Int
    BY <1>8, <1>9
  <2> QED BY <1>8, <1>9, <1>10, <1>11, <2>1
<1>13. Same(q2, q + cl + dr)
  <2>1. PICK k \in Int, l \in Int, e \in Int, f \in Int :
           /\ x2 = (x + cl) + k * Order /\ y2 = (y + dr) + l * Order
           /\ q = (x + y + P) + e * Order /\ q2 = (x2 + y2 + P) + f * Order
    <3>1. PICK s \in Int, t \in Int, z \in Int, z2 \in Int :
             s = x + cl /\ t = y + dr /\ z = x + y + P /\ z2 = x2 + y2 + P
      <4>1. x + cl \in Int /\ y + dr \in Int /\ x + y + P \in Int /\ x2 + y2 + P \in Int
        OBVIOUS
      <4> QED BY <4>1
    <3>2. Same(x2, s) /\ Same(y2, t) /\ Same(q, z) /\ Same(q2, z2)
      BY <1>8, <1>9, <1>10, <1>11, <1>12, <3>1
    <3> QED BY <3>1, <3>2, SameIff
  <2>2. PICK j \in Int : j = k + l - e + f
    OBVIOUS
  <2>3. q2 = (q + cl + dr) + j * Order
    BY <2>1, <2>2, OrderIs
  <2>4. q + cl + dr \in Int
    OBVIOUS
  <2> QED BY <2>3, <2>4, SameIff
<1> QED BY <1>3, <1>8, <1>9, <1>10, <1>11, <1>12, <1>13

-----------------------------------------------------------------------------
\* The prover's state after r rounds.
Folded(r, ls, rs, cs, g, h, a, b, u, y, p) ==
    /\ r \in 0..Rounds /\ cs \in [1..r -> Answer] /\ ls \in [1..r -> Points] /\ rs \in [1..r -> Points]
    /\ g \in PointLists(Power(2, Rounds - r)) /\ h \in PointLists(Power(2, Rounds - r))
    /\ a \in Scalars(Power(2, Rounds - r)) /\ b \in Scalars(Power(2, Rounds - r))
    /\ u \in Points /\ p \in Points
    /\ Spread(g, "g", WeightsG(cs), Power(2, Rounds - r))
    /\ Spread(h, "h", WeightsH(cs, y), Power(2, Rounds - r))
    /\ Published(ls, rs, cs, p) = Committed(g, h, a, b, u)

\* Before the first round nothing is folded.
LEMMA FoldedStart ==
    ASSUME NEW y \in Answer, NEW a, a \in [Index -> Int], NEW b, b \in [Index -> Int],
           NEW u, u \in Points, NEW p, p = Committed(GS, Rescaled(y), a, b, u)
    PROVE  Folded(0, <<>>, <<>>, <<>>, GS, Rescaled(y), a, b, u, y, p)
<1>1. /\ Rounds \in Nat \ {0} /\ Width = Power(2, Rounds) /\ Width \in Nat \ {0} /\ Index = 1..Width
      /\ Rounds - 0 = Rounds /\ 0 \in 0..Rounds
  BY WidthIs
<1>2. GS \in [Index -> Points] /\ Rescaled(y) \in [Index -> Points]
  BY VectorBases, RescaledIs
<1>3. PICK n \in Nat : n = Width
  BY <1>1
<1>4. GS \in PointLists(n) /\ Rescaled(y) \in PointLists(n) /\ a \in Scalars(n) /\ b \in Scalars(n)
  <2>1. GS \in [1..n -> Points] /\ Rescaled(y) \in [1..n -> Points]
    BY <1>1, <1>2, <1>3
  <2>2. a \in [1..n -> Int] /\ b \in [1..n -> Int]
    BY <1>1, <1>3
  <2>3. GS \in PointLists(n) /\ Rescaled(y) \in PointLists(n)
    BY <2>1, ListsAre
  <2>4. a \in Scalars(n) /\ b \in Scalars(n)
    BY <2>2, ListsAre
  <2> QED BY <2>3, <2>4
<1>5. p \in Points
  <2>1. GS \in [1..n -> Points] /\ Rescaled(y) \in [1..n -> Points]
    BY <1>1, <1>2, <1>3
  <2>2. a \in [1..n -> Int] /\ b \in [1..n -> Int]
    BY <1>1, <1>3
  <2> QED BY <2>1, <2>2, CommittedIs
<1>6. Published(<<>>, <<>>, <<>>, p) = p
  BY <1>5, PublishedNone
<1>7. PICK v : v = <<>>
  OBVIOUS
<1>10. v \in [1..0 -> Answer] /\ v \in [1..0 -> Points]
  BY <1>7
<1>8. Spread(GS, "g", WeightsG(v), Width)
  <2>1. \A i \in Index : WeightsG(v)[i] = 1
    BY <1>7, ScaleStart DEF WeightsG
  <2>2. \A i \in Index, e \in Generator : Same(GS[i][e], IF e = <<"g", i>> THEN WeightsG(v)[i] ELSE 0)
    BY <2>1, VectorBases DEF Same
  <2> QED BY <1>2, <2>2, SpreadBases
<1>9. Spread(Rescaled(y), "h", WeightsH(v, y), Width)
  <2>1. PICK P, w : P = Rescaled(y) /\ w = [i \in Index |-> Inv(Powers(y)[i])]
    OBVIOUS
  <2>2. /\ P \in [Index -> Points] /\ Ints(w, Width)
        /\ \A i \in Index, e \in Generator : Same(P[i][e], IF e = <<"h", i>> THEN w[i] ELSE 0)
    BY <2>1, RescaledIs
  <2>3. ASSUME NEW i \in Index PROVE WeightsH(v, y)[i] = w[i]
    <3>1. Inv(Powers(y)[i]) \in Int /\ ScaleOfH(v, i) = 1
      BY <1>7, PowersAre, ScaleStart
    <3>2. WeightsH(v, y)[i] = Inv(Powers(y)[i]) * ScaleOfH(v, i)
      BY DEF WeightsH
    <3> QED BY <2>1, <3>1, <3>2
  <2>4. \A i \in Index, e \in Generator : Same(P[i][e], IF e = <<"h", i>> THEN WeightsH(v, y)[i] ELSE 0)
    BY <2>2, <2>3
  <2> QED BY <2>1, <2>2, <2>4, SpreadBases
<1> QED BY <1>1, <1>3, <1>4, <1>5, <1>6, <1>7, <1>8, <1>9, <1>10 DEF Folded

-----------------------------------------------------------------------------
\* What a round makes of a list of generators, and of a vector.
HalvedPoints(P, lo, hi) ==
    [i \in DOMAIN Lower(P) |-> Multi(<<Lower(P)[i], Upper(P)[i]>>, <<lo, hi>>)]
HalvedScalars(v, lo, hi) ==
    [i \in DOMAIN Lower(v) |-> (Lower(v)[i] * lo + Upper(v)[i] * hi) % Order]

\* A list of points folded to half of its length.
LEMMA HalvedPointsAre ==
    ASSUME NEW m \in Nat, NEW P, P \in PointLists(m + m), NEW lo \in Int, NEW hi \in Int,
           NEW Q, Q = HalvedPoints(P, lo, hi)
    PROVE  /\ Q \in [1..m -> Points] /\ P \in [1..(m + m) -> Points]
           /\ \A i \in 1..m, b \in Generator : Same(Q[i][b], P[i][b] * lo + P[m + i][b] * hi)
<1>1. P \in Seq(Points) /\ Len(P) = m + m
  BY DEF PointLists
<1>2. /\ Lower(P) = [i \in 1..m |-> P[i]] /\ Upper(P) = [i \in 1..m |-> P[m + i]]
      /\ Lower(P) \in [1..m -> Points] /\ Upper(P) \in [1..m -> Points]
  BY <1>1, HalvesAre
<1>3. Q = [i \in 1..m |-> Multi(<<P[i], P[m + i]>>, <<lo, hi>>)]
  BY <1>2 DEF HalvedPoints
<1>4. ASSUME NEW i \in 1..m
      PROVE  /\ Multi(<<P[i], P[m + i]>>, <<lo, hi>>) \in Points
             /\ \A b \in Generator : Same(Multi(<<P[i], P[m + i]>>, <<lo, hi>>)[b],
                                          P[i][b] * lo + P[m + i][b] * hi)
  <2>1. PICK p, q : p = P[i] /\ q = P[m + i]
    OBVIOUS
  <2>2. p \in Combinations /\ q \in Combinations
    <3>1. Lower(P)[i] \in Points /\ Upper(P)[i] \in Points
      BY <1>2
    <3>2. Lower(P)[i] = p /\ Upper(P)[i] = q
      BY <1>2, <2>1
    <3> QED BY <3>1, <3>2, PointsCombine
  <2>3. /\ Multi(<<p, q>>, <<lo, hi>>) \in Points
        /\ \A b \in Generator : Same(Multi(<<p, q>>, <<lo, hi>>)[b], (p[b] * lo) + (q[b] * hi))
    BY <2>2, TwoMulti
  <2> QED BY <2>1, <2>3
<1>5. P \in [1..(m + m) -> Points]
  BY <1>1
<1> QED BY <1>3, <1>4, <1>5

\* A list of scalars folded to half of its length.
LEMMA HalvedScalarsAre ==
    ASSUME NEW m \in Nat, NEW v, v \in Scalars(m + m), NEW lo \in Int, NEW hi \in Int,
           NEW w, w = HalvedScalars(v, lo, hi)
    PROVE  w \in [1..m -> Int] /\ Folds(w, v, lo, hi, m)
<1>1. v \in Seq(Int) /\ Len(v) = m + m
  BY DEF Scalars
<1>2. /\ Lower(v) = [i \in 1..m |-> v[i]] /\ Upper(v) = [i \in 1..m |-> v[m + i]]
      /\ Lower(v) \in [1..m -> Int] /\ Upper(v) \in [1..m -> Int]
  BY <1>1, HalvesAre
<1>3. w = [i \in 1..m |-> (v[i] * lo + v[m + i] * hi) % Order]
  BY <1>2 DEF HalvedScalars
<1>4. ASSUME NEW i \in 1..m
      PROVE  /\ (v[i] * lo + v[m + i] * hi) % Order \in Int
             /\ Same((v[i] * lo + v[m + i] * hi) % Order, v[i] * lo + v[m + i] * hi)
  <2>1. PICK x \in Int, y \in Int : x = v[i] /\ y = v[m + i]
    <3>1. Lower(v)[i] \in Int /\ Upper(v)[i] \in Int
      BY <1>2
    <3>2. Lower(v)[i] = v[i] /\ Upper(v)[i] = v[m + i]
      BY <1>2
    <3> QED BY <3>1, <3>2
  <2>2. PICK a \in Int : a = x * lo + y * hi
    <3>1. x * lo + y * hi \in Int
      OBVIOUS
    <3> QED BY <3>1
  <2>3. a % Order \in Int /\ Same(a % Order, a)
    BY SameRest
  <2> QED BY <2>1, <2>2, <2>3
<1> QED BY <1>3, <1>4 DEF Folds

\* A round's two points.
RoundLeft(g, h, a, b, u) ==
    Add(<<Multi(Upper(g), Lower(a)), Multi(Lower(h), Upper(b)), Times(Dot(Lower(a), Upper(b)), u)>>)
RoundRight(g, h, a, b, u) ==
    Add(<<Multi(Lower(g), Upper(a)), Multi(Upper(h), Lower(b)), Times(Dot(Upper(a), Lower(b)), u)>>)

\* A sequence with one element more.
Grown(w, v, x, n, S) == v \in [1..n -> S] /\ x \in S /\ w = Append(v, x)

\* What is appended is last, the rest stays where it was.
LEMMA GrownIs ==
    ASSUME NEW n \in Nat, NEW S, NEW v, NEW x, NEW w, Grown(w, v, x, n, S)
    PROVE  w \in [1..(n + 1) -> S] /\ Agree(w, v, n) /\ w[n + 1] = x
<1>1. v \in [1..n -> S] /\ x \in S /\ w = Append(v, x)
  BY DEF Grown
<1>2. v \in Seq(S) /\ Len(v) = n
  BY <1>1
<1>3. w \in Seq(S) /\ Len(w) = n + 1
  BY <1>1, <1>2
<1>4. w[n + 1] = x /\ \A i \in 1..n : w[i] = v[i]
  BY <1>1, <1>2
<1>5. w \in [1..(n + 1) -> S]
  BY <1>3, LenProperties, Zenon
<1>6. Agree(w, v, n)
  BY <1>4 DEF Agree
<1> QED BY <1>4, <1>5, <1>6

\* A round keeps the prover's state one from which the verifier computes the same.
LEMMA FoldedStep ==
    ASSUME NEW r \in Nat, r < Rounds, NEW y \in Answer, NEW ls, NEW rs, NEW cs, NEW g, NEW h, NEW a, NEW b,
           NEW u, NEW p, Folded(r, ls, rs, cs, g, h, a, b, u, y, p), NEW c \in Answer,
           NEW left, left = RoundLeft(g, h, a, b, u), NEW right, right = RoundRight(g, h, a, b, u)
    PROVE  Folded(r + 1, Append(ls, left), Append(rs, right), Append(cs, c),
                  HalvedPoints(g, Inv(c), c), HalvedPoints(h, c, Inv(c)),
                  HalvedScalars(a, c, Inv(c)), HalvedScalars(b, Inv(c), c), u, y, p)
<1>1. Rounds \in Nat
  BY WidthIs
<1>2. PICK k \in Nat, s \in Nat : k = Rounds - (r + 1) /\ s = r + 1
  <2>1. Rounds - (r + 1) \in Nat
    BY <1>1
  <2> QED BY <2>1
<1>3. PICK m \in Nat \ {0} : m = Power(2, k)
  BY PowersOfTwo
<1>4. Rounds - r = k + 1 /\ Power(2, Rounds - r) = m + m /\ s \in 0..Rounds
  <2>1. Rounds - r = k + 1
    BY <1>1, <1>2
  <2>2. Power(2, k + 1) = 2 * m
    BY <1>3, PowersOfTwo
  <2> QED BY <1>1, <1>2, <2>1, <2>2
<1>5. c \in Int /\ Inv(c) \in Int /\ Same(c * Inv(c), 1)
  BY AnswerIs
<1>6. PICK d \in Int : d = Inv(c)
  BY <1>5
<1>7. PICK g2, h2, a2, b2 : /\ g2 = HalvedPoints(g, d, c) /\ h2 = HalvedPoints(h, c, d)
                            /\ a2 = HalvedScalars(a, c, d) /\ b2 = HalvedScalars(b, d, c)
  OBVIOUS
<1>8. /\ cs \in [1..r -> Answer] /\ ls \in [1..r -> Points] /\ rs \in [1..r -> Points]
      /\ g \in PointLists(m + m) /\ h \in PointLists(m + m)
      /\ a \in Scalars(m + m) /\ b \in Scalars(m + m) /\ u \in Points /\ p \in Points
      /\ Spread(g, "g", WeightsG(cs), m + m) /\ Spread(h, "h", WeightsH(cs, y), m + m)
      /\ Published(ls, rs, cs, p) = Committed(g, h, a, b, u)
  BY <1>4 DEF Folded
<1>9. /\ g2 \in [1..m -> Points] /\ g \in [1..(m + m) -> Points]
      /\ \A i \in 1..m, e \in Generator : Same(g2[i][e], g[i][e] * d + g[m + i][e] * c)
  BY <1>5, <1>7, <1>8, HalvedPointsAre
<1>10. /\ h2 \in [1..m -> Points] /\ h \in [1..(m + m) -> Points]
       /\ \A i \in 1..m, e \in Generator : Same(h2[i][e], h[i][e] * c + h[m + i][e] * d)
  BY <1>5, <1>7, <1>8, HalvedPointsAre
<1>11. a2 \in [1..m -> Int] /\ Folds(a2, a, c, d, m)
  BY <1>5, <1>7, <1>8, HalvedScalarsAre
<1>12. b2 \in [1..m -> Int] /\ Folds(b2, b, d, c, m)
  BY <1>5, <1>7, <1>8, HalvedScalarsAre
<1>13. /\ left \in Points /\ right \in Points
       /\ Committed(g2, h2, a2, b2, u) \in Points /\ Committed(g, h, a, b, u) \in Points
       /\ \A e \in Generator :
             Same(Committed(g2, h2, a2, b2, u)[e],
                  Committed(g, h, a, b, u)[e] + (c * c) * left[e] + (d * d) * right[e])
  <2>1. /\ left = Add(<<Multi(Upper(g), Lower(a)), Multi(Lower(h), Upper(b)),
                        Times(Dot(Lower(a), Upper(b)), u)>>)
        /\ right = Add(<<Multi(Lower(g), Upper(a)), Multi(Upper(h), Lower(b)),
                         Times(Dot(Upper(a), Lower(b)), u)>>)
    BY DEF RoundLeft, RoundRight
  <2>2. Same(c * d, 1) /\ m \in Nat /\ c \in Int
    BY <1>5, <1>6
  <2> QED BY <1>8, <1>9, <1>10, <1>11, <1>12, <2>1, <2>2, FoldCommitted
<1>14. PICK ls2, rs2, ds : ls2 = Append(ls, left) /\ rs2 = Append(rs, right) /\ ds = Append(cs, c)
  OBVIOUS
<1>15. /\ Grown(ds, cs, c, r, Answer) /\ Grown(ls2, ls, left, r, Points)
       /\ Grown(rs2, rs, right, r, Points)
  BY <1>8, <1>13, <1>14 DEF Grown
<1>16. /\ ds \in [1..s -> Answer] /\ Agree(ds, cs, r) /\ ds[s] = c
       /\ ls2 \in [1..s -> Points] /\ Agree(ls2, ls, r) /\ ls2[s] = left
       /\ rs2 \in [1..s -> Points] /\ Agree(rs2, rs, r) /\ rs2[s] = right
  <2>1. ds \in [1..(r + 1) -> Answer] /\ Agree(ds, cs, r) /\ ds[r + 1] = c
    BY <1>15, GrownIs
  <2>2. ls2 \in [1..(r + 1) -> Points] /\ Agree(ls2, ls, r) /\ ls2[r + 1] = left
    BY <1>15, GrownIs
  <2>3. rs2 \in [1..(r + 1) -> Points] /\ Agree(rs2, rs, r) /\ rs2[r + 1] = right
    BY <1>15, GrownIs
  <2> QED BY <1>2, <2>1, <2>2, <2>3
<1>18. Published(ls2, rs2, ds, p) = Committed(g2, h2, a2, b2, u)
  <2>1. Published(ls2, rs2, ds, p) \in Points
    BY <1>8, <1>16, PublishedIs
  <2>2. ASSUME NEW e \in Generator
        PROVE  Same(Published(ls2, rs2, ds, p)[e], Committed(g2, h2, a2, b2, u)[e])
    <3>1. /\ ds \in [1..(r + 1) -> Answer] /\ ls2 \in [1..(r + 1) -> Points]
          /\ rs2 \in [1..(r + 1) -> Points]
          /\ ds[r + 1] = c /\ ls2[r + 1] = left /\ rs2[r + 1] = right
      BY <1>2, <1>16
    <3>2. Same(Published(ls2, rs2, ds, p)[e],
               Published(ls, rs, cs, p)[e] + (c * c) * left[e] + (Inv(c) * Inv(c)) * right[e])
      BY <1>8, <1>13, <1>16, <3>1, PublishedMore
    <3>3. Same(Committed(g2, h2, a2, b2, u)[e],
               Published(ls, rs, cs, p)[e] + (c * c) * left[e] + (Inv(c) * Inv(c)) * right[e])
      BY <1>6, <1>8, <1>13
    <3> QED BY <3>2, <3>3 DEF Same
  <2> QED BY <1>13, <2>1, <2>2, SamePoints
<1>19. ASSUME NEW i \in Index
       PROVE  LET e == Bit(i - 1, k + 1)
              IN  /\ ScaleOfG(cs, i) \in Int /\ ScaleOfH(cs, i) \in Int
                  /\ ScaleOfG(ds, i) = ScaleOfG(cs, i) * (IF e = 1 THEN c ELSE d)
                  /\ ScaleOfH(ds, i) = ScaleOfH(cs, i) * (IF e = 1 THEN d ELSE c)
  <2>1. ds \in [1..(r + 1) -> Answer] /\ ds[r + 1] = c /\ \A j \in 1..r : ds[j] = cs[j]
    BY <1>2, <1>16 DEF Agree
  <2>2. LET e == Bit(i - 1, Rounds - r)
        IN  /\ ScaleOfG(cs, i) \in Int /\ ScaleOfH(cs, i) \in Int
            /\ ScaleOfG(ds, i) = ScaleOfG(cs, i) * (IF e = 1 THEN ds[r + 1] ELSE Inv(ds[r + 1]))
            /\ ScaleOfH(ds, i) = ScaleOfH(cs, i) * (IF e = 1 THEN Inv(ds[r + 1]) ELSE ds[r + 1])
    BY <1>8, <2>1, ScaleStep
  <2> QED BY <1>4, <1>6, <2>1, <2>2
<1>20. Spread(g2, "g", WeightsG(ds), m)
  <2>1. PICK w, x : w = WeightsG(cs) /\ x = WeightsG(ds)
    OBVIOUS
  <2>2. \A i \in Index : x[i] = w[i] * (IF Bit(i - 1, k + 1) = 1 THEN c ELSE d)
    BY <1>19, <2>1 DEF WeightsG
  <2>6. Rescales(x, w, d, c, k) /\ FoldsPoints(g2, g, d, c, m)
    BY <1>9, <2>2 DEF Rescales, FoldsPoints
  <2>3. Ints(w, Width)
    BY <1>19, <2>1, WidthIs DEF WeightsG, Ints
  <2>4. Spread(g, "g", w, m + m) /\ m = Power(2, k) /\ m \in Nat /\ c \in Int
    BY <1>3, <1>5, <1>8, <2>1
  <2>5. Spread(g2, "g", x, m)
    BY <1>9, <2>3, <2>4, <2>6, FoldSpread
  <2> QED BY <2>1, <2>5
<1>21. Spread(h2, "h", WeightsH(ds, y), m)
  <2>1. PICK w, x : w = WeightsH(cs, y) /\ x = WeightsH(ds, y)
    OBVIOUS
  <2>2. ASSUME NEW i \in Index
        PROVE  w[i] \in Int /\ x[i] = w[i] * (IF Bit(i - 1, k + 1) = 1 THEN d ELSE c)
    <3>1. PICK I \in Int, S \in Int, f \in Int :
             /\ I = Inv(Powers(y)[i]) /\ S = ScaleOfH(cs, i)
             /\ f = (IF Bit(i - 1, k + 1) = 1 THEN d ELSE c)
      <4>1. (IF Bit(i - 1, k + 1) = 1 THEN d ELSE c) \in Int
        BY <1>5
      <4> QED BY <1>19, <4>1, PowersAre
    <3>2. w[i] = I * S /\ x[i] = I * (S * f)
      BY <1>19, <2>1, <3>1 DEF WeightsH
    <3>3. I * (S * f) = (I * S) * f /\ I * S \in Int
      OBVIOUS
    <3> QED BY <3>1, <3>2, <3>3
  <2>3. Ints(w, Width)
    BY <2>2, WidthIs DEF Ints
  <2>4. Spread(h, "h", w, m + m) /\ m = Power(2, k) /\ m \in Nat /\ c \in Int
    BY <1>3, <1>5, <1>8, <2>1
  <2>5. Spread(h2, "h", x, m)
    <3>1. Rescales(x, w, c, d, k) /\ FoldsPoints(h2, h, c, d, m)
      BY <1>10, <2>2 DEF Rescales, FoldsPoints
    <3> QED BY <1>10, <2>3, <2>4, <3>1, FoldSpread
  <2> QED BY <2>1, <2>5
<1>22. /\ g2 \in PointLists(m) /\ h2 \in PointLists(m) /\ a2 \in Scalars(m) /\ b2 \in Scalars(m)
  <2>1. g2 \in PointLists(m) /\ h2 \in PointLists(m)
    BY <1>9, <1>10, ListsAre
  <2>2. a2 \in Scalars(m) /\ b2 \in Scalars(m)
    BY <1>11, <1>12, ListsAre
  <2> QED BY <2>1, <2>2
<1>23. Folded(s, ls2, rs2, ds, g2, h2, a2, b2, u, y, p)
  <2>1. Power(2, Rounds - s) = m
    BY <1>2, <1>3
  <2> QED BY <1>4, <1>8, <1>16, <1>18, <1>20, <1>21, <1>22, <2>1 DEF Folded
<1> QED BY <1>2, <1>6, <1>7, <1>14, <1>23

-----------------------------------------------------------------------------
\* With one element left, the verifier's inner equation holds.
LEMMA FoldedEnd ==
    ASSUME NEW r, NEW y \in Answer, NEW ls, NEW rs, NEW cs, NEW g, NEW h, NEW a, NEW b, NEW u, NEW p,
           Folded(r, ls, rs, cs, g, h, a, b, u, y, p), Len(a) = 1,
           NEW w, w = [i \in Index |-> Weight(cs, i)]
    PROVE  Published(ls, rs, cs, p)
              = Add(<<Times(a[1], Multi(GS, w)), Times(b[1], Multi(Rescaled(y), Reverse(w))),
                      Times(a[1] * b[1], u)>>)
<1>1. Rounds \in Nat
  BY WidthIs
<1>2. /\ r \in 0..Rounds /\ cs \in [1..r -> Answer] /\ u \in Points
      /\ g \in PointLists(Power(2, Rounds - r)) /\ h \in PointLists(Power(2, Rounds - r))
      /\ a \in Scalars(Power(2, Rounds - r)) /\ b \in Scalars(Power(2, Rounds - r))
      /\ Spread(g, "g", WeightsG(cs), Power(2, Rounds - r))
      /\ Spread(h, "h", WeightsH(cs, y), Power(2, Rounds - r))
      /\ Published(ls, rs, cs, p) = Committed(g, h, a, b, u)
  BY DEF Folded
<1>3. r = Rounds /\ Power(2, Rounds - r) = 1
  <2>1. Len(a) = Power(2, Rounds - r)
    BY <1>2 DEF Scalars
  <2>2. PICK k \in Nat : k = Rounds - r
    BY <1>1, <1>2
  <2>3. CASE k = 0
    BY <1>1, <1>2, <2>1, <2>2, <2>3
  <2>4. CASE k # 0
    <3>1. PICK j \in Nat : k = j + 1
      <4>1. k - 1 \in Nat /\ k = (k - 1) + 1
        BY <2>4
      <4> QED BY <4>1
    <3>2. Power(2, j + 1) = 2 * Power(2, j) /\ Power(2, j) \in Nat
      BY PowersOfTwo
    <3>3. PICK m \in Nat : m = Power(2, j)
      BY <3>2
    <3>4. Power(2, k) = 2 * m
      BY <3>1, <3>2, <3>3
    <3> QED BY <2>1, <2>2, <3>4
  <2> QED BY <2>3, <2>4
<1>4. PICK n \in Nat : n = 1
  OBVIOUS
<1>5. /\ g \in PointLists(n) /\ h \in PointLists(n) /\ a \in Scalars(n) /\ b \in Scalars(n)
  BY <1>2, <1>3, <1>4
<1>6. g \in [1..n -> Points] /\ h \in [1..n -> Points] /\ a \in [1..n -> Int] /\ b \in [1..n -> Int]
  BY <1>5, ListsAre
<1>7. g \in [1..1 -> Points] /\ h \in [1..1 -> Points] /\ a \in [1..1 -> Int] /\ b \in [1..1 -> Int]
  BY <1>4, <1>6
<1>8. cs \in [1..Rounds -> Answer] /\ Spread(g, "g", WeightsG(cs), 1) /\ Spread(h, "h", WeightsH(cs, y), 1)
  BY <1>2, <1>3
<1>9. Committed(g, h, a, b, u)
              = Add(<<Times(a[1], Multi(GS, w)), Times(b[1], Multi(Rescaled(y), Reverse(w))),
                      Times(a[1] * b[1], u)>>)
  BY <1>2, <1>7, <1>8, InnerFinal
<1> QED BY <1>2, <1>9

-----------------------------------------------------------------------------
\* A record laid over another.
Over(h, g, f) ==
    /\ DOMAIN h = DOMAIN f \cup DOMAIN g
    /\ \A x \in DOMAIN f : h[x] = f[x]
    /\ \A x \in DOMAIN g : x \notin DOMAIN f => h[x] = g[x]

\* A field of the record is the one laid over it, if there is one.
LEMMA LaidOver ==
    ASSUME NEW g, NEW f, NEW h, h = With(g, f)
    PROVE  Over(h, g, f)
<1>1. h = [x \in (DOMAIN g) \cup (DOMAIN f) |-> IF x \in DOMAIN f THEN f[x] ELSE g[x]]
  BY DEF With
<1>2. DOMAIN h = DOMAIN f \cup DOMAIN g
  BY <1>1
<1>3. \A x \in DOMAIN f \cup DOMAIN g : h[x] = IF x \in DOMAIN f THEN f[x] ELSE g[x]
  BY <1>1
<1> QED BY <1>2, <1>3 DEF Over

\* The prover's memory after the polynomial step.
LEMMA ToInner ==
    ASSUME NEW old, NEW T1, NEW T2, NEW le, NEW re, NEW h, NEW tauX, NEW mu, NEW new,
           {"amount", "secret", "y", "z", "commitment", "C", "A", "S"} \subseteq DOMAIN old,
           NEW f,
           f = [stage |-> "inner", T1 |-> T1, T2 |-> T2, le |-> le, re |-> re, h |-> h,
                            tauX |-> tauX, mu |-> mu], Over(new, old, f)
    PROVE  /\ {"amount", "secret", "y", "z", "commitment", "C", "A", "S", "T1", "T2", "le", "re", "h",
               "tauX", "mu"} \subseteq DOMAIN new
           /\ new.stage = "inner" /\ new.T1 = T1 /\ new.T2 = T2 /\ new.le = le /\ new.re = re
           /\ new.h = h /\ new.tauX = tauX /\ new.mu = mu
           /\ new.amount = old.amount /\ new.secret = old.secret /\ new.y = old.y /\ new.z = old.z
           /\ new.commitment = old.commitment /\ new.C = old.C /\ new.A = old.A /\ new.S = old.S
<1>2. DOMAIN f = {"stage", "T1", "T2", "le", "re", "h", "tauX", "mu"}
  OBVIOUS
<1>3. /\ DOMAIN new = DOMAIN f \cup DOMAIN old
      /\ \A x \in DOMAIN f : new[x] = f[x]
      /\ \A x \in DOMAIN old : x \notin DOMAIN f => new[x] = old[x]
  BY DEF Over
<1>4. /\ new["stage"] = f["stage"] /\ new["T1"] = f["T1"] /\ new["T2"] = f["T2"]
      /\ new["le"] = f["le"] /\ new["re"] = f["re"] /\ new["h"] = f["h"]
      /\ new["tauX"] = f["tauX"] /\ new["mu"] = f["mu"]
  BY <1>2, <1>3
<1>5. \A x \in {"amount", "secret", "y", "z", "commitment", "C", "A", "S"} : new[x] = old[x]
  BY <1>2, <1>3
<1>6. {"amount", "secret", "y", "z", "commitment", "C", "A", "S", "T1", "T2", "le", "re", "h",
               "tauX", "mu"} \subseteq DOMAIN new
  BY <1>2, <1>3
<1>7. /\ new.amount = old.amount /\ new.secret = old.secret /\ new.y = old.y /\ new.z = old.z
      /\ new.commitment = old.commitment /\ new.C = old.C /\ new.A = old.A /\ new.S = old.S
  BY <1>5
<1>8. /\ new.stage = "inner" /\ new.T1 = T1 /\ new.T2 = T2 /\ new.le = le /\ new.re = re
      /\ new.h = h /\ new.tauX = tauX /\ new.mu = mu
  BY <1>4
<1> QED BY <1>6, <1>7, <1>8

BecameFold(new, old, t, g, uPoint, ls, rs) ==
    /\ {"ls", "rs", "g", "h", "le", "re"} \subseteq DOMAIN new
    /\ {"stage", "amount", "secret", "y", "z", "commitment", "C", "A", "S", "T1", "T2",
            "tauX", "mu", "t", "uPoint"} \subseteq DOMAIN new
    /\ new.stage = "fold" /\ new.t = t /\ new.g = g /\ new.uPoint = uPoint
    /\ new.ls = ls /\ new.rs = rs
    /\ new.amount = old.amount /\ new.y = old.y /\ new.z = old.z
    /\ new.commitment = old.commitment /\ new.C = old.C /\ new.A = old.A /\ new.S = old.S
    /\ new.T1 = old.T1 /\ new.T2 = old.T2 /\ new.le = old.le /\ new.re = old.re
    /\ new.h = old.h /\ new.tauX = old.tauX /\ new.mu = old.mu

\* The prover's memory after the inner step.
LEMMA ToFold ==
    ASSUME NEW old, NEW t, NEW g, NEW uPoint, NEW ls, NEW rs, NEW new,
           {"amount", "secret", "y", "z", "commitment", "C", "A", "S", "T1", "T2", "le", "re", "h",
               "tauX", "mu"} \subseteq DOMAIN old,
           NEW f,
           f = [stage |-> "fold", t |-> t, g |-> g, uPoint |-> uPoint, ls |-> ls, rs |-> rs],
           Over(new, old, f)
    PROVE  BecameFold(new, old, t, g, uPoint, ls, rs)
<1>2. DOMAIN f = {"stage", "t", "g", "uPoint", "ls", "rs"}
  OBVIOUS
<1>3. /\ DOMAIN new = DOMAIN f \cup DOMAIN old
      /\ \A x \in DOMAIN f : new[x] = f[x]
      /\ \A x \in DOMAIN old : x \notin DOMAIN f => new[x] = old[x]
  BY DEF Over
<1>4. /\ new["stage"] = f["stage"] /\ new["t"] = f["t"] /\ new["g"] = f["g"]
      /\ new["uPoint"] = f["uPoint"] /\ new["ls"] = f["ls"] /\ new["rs"] = f["rs"]
  BY <1>2, <1>3
<1>5. \A x \in {"amount", "y", "z", "commitment", "C", "A", "S", "T1", "T2", "le", "re", "h",
                "tauX", "mu"} : new[x] = old[x]
  BY <1>2, <1>3
<1>6. /\ {"ls", "rs", "g", "h", "le", "re"} \subseteq DOMAIN new
      /\ {"stage", "amount", "secret", "y", "z", "commitment", "C", "A", "S", "T1", "T2",
               "tauX", "mu", "t", "uPoint"} \subseteq DOMAIN new
  BY <1>2, <1>3
<1>7. /\ new.amount = old.amount /\ new.y = old.y /\ new.z = old.z
      /\ new.commitment = old.commitment /\ new.C = old.C /\ new.A = old.A /\ new.S = old.S
      /\ new.T1 = old.T1 /\ new.T2 = old.T2 /\ new.le = old.le /\ new.re = old.re
      /\ new.h = old.h /\ new.tauX = old.tauX /\ new.mu = old.mu
  BY <1>5
<1>8. /\ new.stage = "fold" /\ new.t = t /\ new.g = g /\ new.uPoint = uPoint
      /\ new.ls = ls /\ new.rs = rs
  BY <1>4
<1> QED BY <1>6, <1>7, <1>8 DEF BecameFold

\* The prover's memory with the answer to the balance challenge.
LEMMA ToBalance ==
    ASSUME NEW old, NEW R, NEW s, NEW new, {"stage", "X", "surplus"} \subseteq DOMAIN old,
           NEW f,
           f = [R |-> R, s |-> s], Over(new, old, f)
    PROVE  /\ new.stage = old.stage /\ new.X = old.X /\ new.surplus = old.surplus
           /\ new.R = R /\ new.s = s
<1>2. DOMAIN f = {"R", "s"}
  OBVIOUS
<1>3. /\ DOMAIN new = DOMAIN f \cup DOMAIN old
      /\ \A x \in DOMAIN f : new[x] = f[x]
      /\ \A x \in DOMAIN old : x \notin DOMAIN f => new[x] = old[x]
  BY DEF Over
<1>4. new["R"] = f["R"] /\ new["s"] = f["s"]
  BY <1>2, <1>3
<1>5. \A x \in {"stage", "X", "surplus"} : new[x] = old[x]
  BY <1>2, <1>3
<1>6. new.stage = old.stage /\ new.X = old.X /\ new.surplus = old.surplus
  BY <1>5
<1>7. new.R = R /\ new.s = s
  BY <1>4
<1> QED BY <1>6, <1>7

\* The prover's memory after a round.
LEMMA ToFolded ==
    ASSUME NEW old, NEW ls, NEW rs, NEW g, NEW h, NEW le, NEW re, NEW new,
           {"ls", "rs", "g", "h", "le", "re"} \subseteq DOMAIN old,
           {"stage", "amount", "secret", "y", "z", "commitment", "C", "A", "S", "T1", "T2",
               "tauX", "mu", "t", "uPoint"} \subseteq DOMAIN old,
           new = [old EXCEPT !.ls = ls, !.rs = rs, !.g = g, !.h = h, !.le = le, !.re = re]
    PROVE  /\ DOMAIN new = DOMAIN old
           /\ new.ls = ls /\ new.rs = rs /\ new.g = g /\ new.h = h /\ new.le = le /\ new.re = re
           /\ new.stage = old.stage /\ new.amount = old.amount /\ new.y = old.y /\ new.z = old.z
           /\ new.commitment = old.commitment /\ new.C = old.C /\ new.A = old.A /\ new.S = old.S
           /\ new.T1 = old.T1 /\ new.T2 = old.T2 /\ new.tauX = old.tauX /\ new.mu = old.mu
           /\ new.t = old.t /\ new.uPoint = old.uPoint
<1>1. DOMAIN new = DOMAIN old
  OBVIOUS
<1>2. new.ls = ls /\ new.rs = rs /\ new.g = g /\ new.h = h /\ new.le = le /\ new.re = re
  OBVIOUS
<1>3. ASSUME NEW x \in DOMAIN old, x \notin {"ls", "rs", "g", "h", "le", "re"} PROVE new[x] = old[x]
  BY <1>3
<1>4. \A x \in {"stage", "amount", "secret", "y", "z", "commitment", "C", "A", "S", "T1", "T2",
               "tauX", "mu", "t", "uPoint"} : new[x] = old[x]
  BY <1>3
<1>5. /\ new.stage = old.stage /\ new.amount = old.amount /\ new.y = old.y /\ new.z = old.z
      /\ new.commitment = old.commitment /\ new.C = old.C /\ new.A = old.A /\ new.S = old.S
      /\ new.T1 = old.T1 /\ new.T2 = old.T2 /\ new.tauX = old.tauX /\ new.mu = old.mu
      /\ new.t = old.t /\ new.uPoint = old.uPoint
  BY <1>4
<1> QED BY <1>1, <1>2, <1>5

-----------------------------------------------------------------------------
\* What is hashed.
ThreeHashed(e1, e2, e3) == <<e1, e2, e3>>
TwoHashed(e5, e6) == <<e5, e6>>
SixHashed(e1, e2, e3, e4, e5, e6) == <<e1, e2, e3, e4, e5, e6>>
RoundsHashed(ls, rs, cs) == [k \in DOMAIN cs |-> <<"round", <<k - 1, ls[k], rs[k]>>, cs[k]>>]

\* A list of n elements.
Listed(f, n) == f = [k \in 1..n |-> f[k]]

\* t is q and then f.
Joined(t, q, f, m, n) ==
    /\ \A i \in 1..m : t[i] = q[i]
    /\ \A k \in 1..n : t[m + k] = f[k]

\* What is hashed first and what comes after it.
LEMMA JoinedIs ==
    ASSUME NEW S, NEW m \in Nat, NEW n \in Nat, NEW q, q \in Seq(S) /\ Len(q) = m,
           NEW f, f \in Seq(S) /\ Len(f) = n
    PROVE  q \o f \in Seq(S) /\ Len(q \o f) = m + n /\ Joined(q \o f, q, f, m, n)
<1>1. PICK t : t = q \o f
  OBVIOUS
<1>2. /\ t \in Seq(S) /\ Len(t) = Len(q) + Len(f)
      /\ \A i \in 1..(Len(q) + Len(f)) : t[i] = IF i <= Len(q) THEN q[i] ELSE f[i - Len(q)]
  BY <1>1, ConcatProperties, Zenon
<1>3. \A i \in 1..(m + n) : t[i] = IF i <= m THEN q[i] ELSE f[i - m]
  BY <1>2
<1>4. ASSUME NEW i \in 1..m PROVE t[i] = q[i]
  <2>1. i \in 1..(m + n) /\ i <= m
    OBVIOUS
  <2> QED BY <1>3, <2>1
<1>5. ASSUME NEW k \in 1..n PROVE t[m + k] = f[k]
  <2>1. PICK i \in 1..(m + n) : i = m + k /\ ~(i <= m) /\ i - m = k
    OBVIOUS
  <2> QED BY <1>3, <2>1
<1>6. Joined(t, q, f, m, n)
  BY <1>4, <1>5 DEF Joined
<1> QED BY <1>1, <1>2, <1>6

\* The six entries that come before the rounds.
LEMMA SixEntries ==
    ASSUME NEW e1, NEW e2, NEW e3, NEW e4, NEW e5, NEW e6
    PROVE  Append(ThreeHashed(e1, e2, e3), e4) \o TwoHashed(e5, e6)
               = SixHashed(e1, e2, e3, e4, e5, e6) \o <<>>
<1>1. PICK S : S = {e1, e2, e3, e4, e5, e6}
  OBVIOUS
<1>0. PICK s : s = <<e1, e2, e3>>
  OBVIOUS
<1>2. PICK q, r : q = Append(s, e4) /\ r = <<e5, e6>>
  OBVIOUS
<1>3. s \in Seq(S) /\ Len(s) = 3 /\ e4 \in S /\ s[1] = e1 /\ s[2] = e2 /\ s[3] = e3
  BY <1>0, <1>1
<1>4. /\ q \in Seq(S) /\ r \in Seq(S) /\ Len(q) = 4 /\ Len(r) = 2
      /\ q[1] = e1 /\ q[2] = e2 /\ q[3] = e3 /\ q[4] = e4 /\ r[1] = e5 /\ r[2] = e6
  <2>1. PICK m \in Nat : m = 3
    OBVIOUS
  <2>4. Grown(q, s, e4, m, S)
    BY <1>2, <1>3, <2>1 DEF Grown
  <2>5. q \in [1..(m + 1) -> S] /\ Agree(q, s, m) /\ q[m + 1] = e4
    BY <2>4, GrownIs
  <2>6. q \in [1..4 -> S] /\ q[4] = e4
    BY <2>1, <2>5
  <2>3. q \in Seq(S) /\ Len(q) = 4 /\ q[4] = e4 /\ q[1] = s[1] /\ q[2] = s[2] /\ q[3] = s[3]
    <3>1. q \in Seq(S) /\ Len(q) = 4
      <4>1. PICK k \in Nat : k = m + 1 /\ k = 4
        BY <2>1
      <4>2. q \in [1..k -> S]
        BY <2>5, <4>1
      <4>3. q \in Seq(S) /\ Len(q) = k
        BY <4>2
      <4> QED BY <4>1, <4>3
    <3>2. \A i \in 1..3 : q[i] = s[i]
      BY <2>1, <2>5 DEF Agree
    <3>3. q[1] = s[1] /\ q[2] = s[2] /\ q[3] = s[3]
      BY <3>2
    <3> QED BY <2>6, <3>1, <3>3
  <2>2. r \in Seq(S) /\ Len(r) = 2 /\ r[1] = e5 /\ r[2] = e6
    BY <1>1, <1>2
  <2> QED BY <1>3, <2>2, <2>3
<1>5. q \o r \in Seq(S) /\ Len(q \o r) = 4 + 2 /\ Joined(q \o r, q, r, 4, 2)
  <2>1. 4 \in Nat /\ 2 \in Nat
    OBVIOUS
  <2> QED BY <1>4, <2>1, JoinedIs, Zenon
<1>6. PICK t, v : t = q \o r /\ v = <<e1, e2, e3, e4, e5, e6>>
  OBVIOUS
<1>7. v \in Seq(S) /\ Len(v) = 6
  BY <1>1, <1>6
<1>8. t[1] = q[1] /\ t[2] = q[2] /\ t[3] = q[3] /\ t[4] = q[4] /\ t[5] = r[1] /\ t[6] = r[2]
  <2>1. (\A i \in 1..4 : t[i] = q[i]) /\ (\A k \in 1..2 : t[4 + k] = r[k])
    BY <1>5, <1>6 DEF Joined
  <2>2. t[4 + 1] = r[1] /\ t[4 + 2] = r[2] /\ 4 + 1 = 5 /\ 4 + 2 = 6
    BY <2>1
  <2> QED BY <2>1, <2>2
<1>9. ASSUME NEW i \in 1..6 PROVE t[i] = v[i]
  <2>1. i = 1 \/ i = 2 \/ i = 3 \/ i = 4 \/ i = 5 \/ i = 6
    OBVIOUS
  <2>2. v[1] = e1 /\ v[2] = e2 /\ v[3] = e3 /\ v[4] = e4 /\ v[5] = e5 /\ v[6] = e6
    BY <1>6
  <2> QED BY <1>4, <1>8, <2>1, <2>2
<1>10. t = v
  <2>1. t \in Seq(S) /\ Len(t) = Len(v) /\ Len(t) = 6
    BY <1>5, <1>6, <1>7
  <2>2. \A i \in 1..Len(t) : t[i] = v[i]
    BY <1>9, <2>1
  <2> QED BY <1>7, <2>1, <2>2, SeqEqual, Zenon
<1>11. v \o <<>> = v
  BY <1>7, ConcatEmptySeq
<1> QED BY <1>0, <1>2, <1>6, <1>10, <1>11, Zenon DEF ThreeHashed, TwoHashed, SixHashed

\* The entries, one by one.
Entries(t, e1, e2, e3, e4, e5, e6, f, n) ==
    /\ t[1] = e1 /\ t[2] = e2 /\ t[3] = e3 /\ t[4] = e4 /\ t[5] = e5 /\ t[6] = e6
    /\ \A k \in 1..n : t[6 + k] = f[k]

\* The entries of the transcript at their places.
LEMMA EntriesAre ==
    ASSUME NEW e1, NEW e2, NEW e3, NEW e4, NEW e5, NEW e6, NEW n \in Nat, NEW f, Listed(f, n),
           NEW t, t = SixHashed(e1, e2, e3, e4, e5, e6) \o f
    PROVE  Entries(t, e1, e2, e3, e4, e5, e6, f, n)
<1>1. PICK S : S = {e1, e2, e3, e4, e5, e6} \cup {f[k] : k \in 1..n}
  OBVIOUS
<1>2. PICK q : q = <<e1, e2, e3, e4, e5, e6>>
  OBVIOUS
<1>3. q \in Seq(S) /\ Len(q) = 6
  BY <1>1, <1>2
<1>4. f \in Seq(S) /\ Len(f) = n
  <2>1. f \in [1..n -> S]
    BY <1>1 DEF Listed
  <2> QED BY <2>1
<1>5. Joined(t, q, f, 6, n)
  <2>1. 6 \in Nat
    OBVIOUS
  <2>2. Joined(q \o f, q, f, 6, n)
    BY <1>3, <1>4, <2>1, JoinedIs, Zenon
  <2> QED BY <1>2, <2>2 DEF SixHashed
<1>6. t[1] = q[1] /\ t[2] = q[2] /\ t[3] = q[3] /\ t[4] = q[4] /\ t[5] = q[5] /\ t[6] = q[6]
  <2>1. \A i \in 1..6 : t[i] = q[i]
    BY <1>5 DEF Joined
  <2>2. PICK x : x = t
    OBVIOUS
  <2>3. \A i \in 1..6 : x[i] = q[i]
    BY <2>1, <2>2
  <2>4. x[1] = q[1] /\ x[2] = q[2] /\ x[3] = q[3] /\ x[4] = q[4] /\ x[5] = q[5] /\ x[6] = q[6]
    BY <2>3
  <2> QED BY <2>2, <2>4, Zenon
<1>7. \A k \in 1..n : t[6 + k] = f[k]
  BY <1>5 DEF Joined
<1>8. t[1] = e1 /\ t[2] = e2 /\ t[3] = e3 /\ t[4] = e4 /\ t[5] = e5 /\ t[6] = e6
  BY <1>2, <1>6
<1> QED BY <1>7, <1>8, Zenon DEF Entries

HashedMore(six, f, g, n) == Append(six \o f, g[n + 1]) = six \o g

\* One round more is hashed.
LEMMA RoundHashed ==
    ASSUME NEW e1, NEW e2, NEW e3, NEW e4, NEW e5, NEW e6, NEW n \in Nat,
           NEW f, Listed(f, n), NEW g, Listed(g, n + 1), Agree(g, f, n)
    PROVE  HashedMore(SixHashed(e1, e2, e3, e4, e5, e6), f, g, n)
<1>1. PICK S : S = {e1, e2, e3, e4, e5, e6} \cup {g[k] : k \in 1..(n + 1)}
  OBVIOUS
<1>2. PICK q : q = SixHashed(e1, e2, e3, e4, e5, e6)
  OBVIOUS
<1>3. q \in Seq(S) /\ Len(q) = 6
  BY <1>1, <1>2 DEF SixHashed
<1>4. f \in Seq(S) /\ Len(f) = n
  <2>1. \A k \in 1..n : f[k] \in S
    <3>1. \A k \in 1..n : k \in 1..(n + 1)
      OBVIOUS
    <3> QED BY <1>1, <3>1 DEF Agree
  <2>2. f \in [1..n -> S]
    BY <2>1 DEF Listed
  <2> QED BY <2>2
<1>5. g \in Seq(S) /\ Len(g) = n + 1
  <2>1. g \in [1..(n + 1) -> S]
    BY <1>1 DEF Listed
  <2> QED BY <2>1
<1>6. PICK t, v, e : t = q \o f /\ v = q \o g /\ e = g[n + 1]
  OBVIOUS
<1>7. t \in Seq(S) /\ Len(t) = 6 + n /\ Joined(t, q, f, 6, n)
  <2>1. 6 \in Nat /\ n \in Nat
    OBVIOUS
  <2>2. PICK m, h : m \in Nat /\ m = 6 /\ h = f
    OBVIOUS
  <2>3. n \in Nat /\ m \in Nat /\ q \in Seq(S) /\ Len(q) = m /\ h \in Seq(S) /\ Len(h) = n
    BY <1>3, <1>4, <2>1, <2>2
  <2>4. q \o h \in Seq(S) /\ Len(q \o h) = m + n /\ Joined(q \o h, q, h, m, n)
    BY <2>3, JoinedIs
  <2> QED BY <1>6, <2>2, <2>4
<1>8. v \in Seq(S) /\ Len(v) = 6 + (n + 1) /\ Joined(v, q, g, 6, n + 1)
  <2>1. 6 \in Nat /\ n + 1 \in Nat
    OBVIOUS
  <2>2. q \o g \in Seq(S) /\ Len(q \o g) = 6 + (n + 1) /\ Joined(q \o g, q, g, 6, n + 1)
    BY <1>3, <1>5, <2>1, JoinedIs, Zenon
  <2> QED BY <1>6, <2>2, Zenon
<1>9. e \in S
  BY <1>1, <1>6
<1>10. PICK w : w = Append(t, e)
  OBVIOUS
<1>11. w \in Seq(S) /\ Len(w) = 6 + (n + 1)
  BY <1>7, <1>9, <1>10
<1>12. w[6 + (n + 1)] = e /\ \A i \in 1..(6 + n) : w[i] = t[i]
  BY <1>7, <1>9, <1>10
<1>13. ASSUME NEW i \in 1..(6 + (n + 1)) PROVE w[i] = v[i]
  <2>1. CASE i \in 1..6
    <3>1. t[i] = q[i] /\ v[i] = q[i]
      BY <1>7, <1>8, <2>1 DEF Joined
    <3>2. w[i] = t[i]
      BY <1>12, <2>1
    <3> QED BY <3>1, <3>2
  <2>2. CASE i \in 7..(6 + n)
    <3>1. PICK k \in 1..n : i = 6 + k
      <4>1. i - 6 \in 1..n /\ i = 6 + (i - 6)
        BY <2>2
      <4> QED BY <4>1
    <3>2. t[6 + k] = f[k]
      BY <1>7 DEF Joined
    <3>3. v[6 + k] = g[k]
      <4>1. k \in 1..(n + 1)
        OBVIOUS
      <4> QED BY <1>8, <4>1 DEF Joined
    <3>4. w[i] = t[i]
      BY <1>12, <2>2
    <3> QED BY <3>1, <3>2, <3>3, <3>4 DEF Agree
  <2>3. CASE i = 6 + (n + 1)
    <3>1. n + 1 \in 1..(n + 1)
      OBVIOUS
    <3>2. v[6 + (n + 1)] = g[n + 1]
      BY <1>8, <3>1 DEF Joined
    <3> QED BY <1>6, <1>12, <2>3, <3>2
  <2> QED BY <2>1, <2>2, <2>3
<1>14. w = v
  BY <1>8, <1>11, <1>13, SeqEqual
<1> QED BY <1>2, <1>6, <1>10, <1>14, Zenon DEF HashedMore

-----------------------------------------------------------------------------
\* The verifier's two equations, of what each is about.
PolynomialTrue(T1, T2, C, y, z, x, t, tauX) ==
    PolynomialEqual(T1, T2, C, x, z, DeltaOf(y, z), t, tauX)
InnerTrue(A, S, y, z, x, mu, le, re) ==
    \A T \in Points : InnerEqual(A, S, y, z, x, mu, T, le, re)

\* What the prover computes from x satisfies both.
LEMMA SecretsAre ==
    ASSUME NEW s \in Secret
    PROVE  /\ s.blinding \in Int /\ s.alpha \in Int /\ s.rho \in Int /\ s.tau1 \in Int /\ s.tau2 \in Int
           /\ s.nonce \in Int /\ s.left \in [Index -> Int] /\ s.right \in [Index -> Int]
BY ProofAssumption

Computed(y, z, x, a, s, le, re, T1, T2, tauX, C) ==
    /\ le = At(LeftOf(Digits(a), z), s.left, x)
    /\ re = At(RightOf(Digits(a), y, z), LinearOf(s.right, y), x)
    /\ T1 = Multi(<<ValueBase, BlindingBase>>,
                  <<Dot(s.left, RightOf(Digits(a), y, z)) + Dot(LeftOf(Digits(a), z), LinearOf(s.right, y)),
                    s.tau1>>)
    /\ T2 = Multi(<<ValueBase, BlindingBase>>, <<Dot(s.left, LinearOf(s.right, y)), s.tau2>>)
    /\ tauX = (z * z * s.blinding + s.tau1 * x + s.tau2 * x * x) % Order
    /\ C = RangePoint(Hide([amount |-> a, blinding |-> s.blinding]))

\* What the prover computes satisfies the polynomial equation.
LEMMA PolynomialComputed ==
    ASSUME NEW y \in Answer, NEW z \in Answer, NEW x \in Answer, NEW a \in 1..MaxAmount,
           NEW s \in Secret, NEW le, NEW re, NEW T1, NEW T2, NEW tauX, NEW C,
           Computed(y, z, x, a, s, le, re, T1, T2, tauX, C)
    PROVE  PolynomialTrue(T1, T2, C, y, z, x, Dot(le, re), tauX)
<1>1. PICK l \in Int, u1 \in Int, u2 \in Int : l = s.blinding /\ u1 = s.tau1 /\ u2 = s.tau2
  BY SecretsAre
<1>2. PICK sl, sr : /\ sl = s.left /\ sr = s.right
                    /\ sl \in [Index -> Int] /\ sr \in [Index -> Int]
  BY SecretsAre
<1>3. PICK t, le0, re0, lin : /\ t = Dot(le, re) /\ le0 = LeftOf(Digits(a), z)
                              /\ re0 = RightOf(Digits(a), y, z) /\ lin = LinearOf(sr, y)
  OBVIOUS
<1>4. /\ Dot(sl, re0) \in Int /\ Dot(le0, lin) \in Int /\ Dot(sl, lin) \in Int
      /\ DeltaOf(y, z) \in Int /\ t \in Int
      /\ Same((Dot(sl, re0) + Dot(le0, lin)) * x + Dot(sl, lin) * (x * x)
                 + (a - 1) * (z * z) + DeltaOf(y, z), t)
  <2>1. t = Dot(At(le0, sl, x), At(re0, lin, x))
    BY <1>2, <1>3 DEF Computed
  <2> QED BY <1>2, <1>3, <2>1, PolynomialTotals
<1>5. PICK t1 \in Int, t2 \in Int, delta \in Int :
         t1 = Dot(sl, re0) + Dot(le0, lin) /\ t2 = Dot(sl, lin) /\ delta = DeltaOf(y, z)
  <2>1. Dot(sl, re0) + Dot(le0, lin) \in Int
    BY <1>4
  <2> QED BY <1>4, <2>1
<1>6. x \in Int /\ z \in Int /\ a \in Int
  <2>1. MaxAmount \in Nat
    BY WidthIs
  <2> QED BY <2>1, AnswerIs
<1>7. tauX \in Int /\ Same(tauX, z * z * l + u1 * x + u2 * x * x)
  <2>1. PICK e \in Int : e = z * z * l + u1 * x + u2 * x * x
    <3>1. z * z * l + u1 * x + u2 * x * x \in Int
      BY <1>6
    <3> QED BY <3>1
  <2>2. tauX = e % Order
    BY <1>1, <2>1 DEF Computed
  <2> QED BY <2>1, <2>2, SameRest
<1>8. Same(t1 * x + t2 * (x * x) + (a - 1) * (z * z) + delta, t)
  BY <1>4, <1>5
<1>9. PolynomialEqual(T1, T2, C, x, z, delta, t, tauX)
  <2>1. TwoHidden(T1, t1, u1) /\ TwoHidden(T2, t2, u2) /\ RangeHidden(C, a, l)
    BY <1>1, <1>2, <1>3, <1>5 DEF Computed, TwoHidden, RangeHidden
  <2>2. t \in Int /\ tauX \in Int
    BY <1>4, <1>7
  <2>3. /\ t \in Int /\ tauX \in Int /\ x \in Int /\ z \in Int /\ a \in Int /\ l \in Int
        /\ t1 \in Int /\ t2 \in Int /\ u1 \in Int /\ u2 \in Int /\ delta \in Int
    BY <1>6, <2>2
  <2>4. SumsTo(t, x, z, t1, t2, a, delta) /\ Hides(tauX, x, z, u1, u2, l)
    BY <1>7, <1>8 DEF SumsTo, Hides
  <2> QED BY <2>1, <2>3, <2>4, PolynomialSame
<1> QED BY <1>3, <1>5, <1>9 DEF PolynomialTrue

Masked(A, S, y, z, x, a, s, le, re, mu) ==
    /\ le = At(LeftOf(Digits(a), z), s.left, x)
    /\ re = At(RightOf(Digits(a), y, z), LinearOf(s.right, y), x)
    /\ A = Add(<<Multi(GS, Digits(a)), Multi(HS, [i \in Index |-> Digits(a)[i] - 1]),
                 Times(s.alpha, BlindingBase)>>)
    /\ S = Add(<<Multi(GS, s.left), Multi(HS, s.right), Times(s.rho, BlindingBase)>>)
    /\ mu = (s.alpha + s.rho * x) % Order

\* What the prover computes satisfies the inner equation.
LEMMA InnerComputed ==
    ASSUME NEW y \in Answer, NEW z \in Answer, NEW x \in Answer, NEW a \in 1..MaxAmount,
           NEW s \in Secret, NEW le, NEW re, NEW A, NEW S, NEW mu,
           Masked(A, S, y, z, x, a, s, le, re, mu)
    PROVE  le \in [Index -> Int] /\ re \in [Index -> Int] /\ InnerTrue(A, S, y, z, x, mu, le, re)
<1>1. PICK alpha \in Int, rho \in Int : alpha = s.alpha /\ rho = s.rho
  BY SecretsAre
<1>2. PICK sl, sr : /\ sl = s.left /\ sr = s.right
                    /\ sl \in [Index -> Int] /\ sr \in [Index -> Int]
  BY SecretsAre
<1>0. PICK bits : bits = Digits(a)
  OBVIOUS
<1>3. /\ bits \in [Index -> Int] /\ le \in [Index -> Int] /\ re \in [Index -> Int]
  <2>1. /\ Digits(a) \in [Index -> {0, 1}]
        /\ At(LeftOf(Digits(a), z), sl, x) \in [Index -> Residue]
        /\ At(RightOf(Digits(a), y, z), LinearOf(sr, y), x) \in [Index -> Residue]
    BY <1>2, VectorsAre
  <2>2. Residue \subseteq Int
    BY OrderIs DEF Residue
  <2> QED BY <1>0, <1>2, <2>1, <2>2 DEF Masked
<1>4. x \in Int /\ z \in Int /\ y \in Int /\ Powers(y) \in [Index -> Int]
  BY AnswerIs, PowersAre
<1>5. ASSUME NEW i \in Index PROVE Same(le[i], bits[i] - z + sl[i] * x)
  <2>1. PICK e \in Int : e = bits[i] - z + sl[i] * x
    <3>1. bits[i] - z + sl[i] * x \in Int
      BY <1>2, <1>3, <1>4
    <3> QED BY <3>1
  <2>2. le[i] = e % Order
    BY <1>0, <1>2, <2>1 DEF At, LeftOf, Masked
  <2> QED BY <2>1, <2>2, SameRest
<1>6. ASSUME NEW i \in Index
      PROVE  Same(re[i], Powers(y)[i] * (bits[i] - 1 + z) + z * z * Power(2, i - 1)
                            + Powers(y)[i] * (sr[i] * x))
  <2>1. PICK Y \in Int, B \in Int, R \in Int, P \in Int :
           Y = Powers(y)[i] /\ B = bits[i] /\ R = sr[i] /\ P = Power(2, i - 1)
    <3>1. i - 1 \in Nat
      BY WidthIs
    <3>2. Power(2, i - 1) \in Int
      BY <3>1, PowersOfTwo
    <3> QED BY <1>2, <1>3, <1>4, <3>2
  <2>2. PICK e \in Int : e = Y * (B - 1 + z) + z * z * P + Y * (R * x)
    <3>1. Y * (B - 1 + z) + z * z * P + Y * (R * x) \in Int
      BY <1>4
    <3> QED BY <3>1
  <2>3. re[i] = e % Order
    <3>1. re[i] = (Y * (B - 1 + z) + z * z * P + (Y * R) * x) % Order
      BY <1>0, <1>2, <2>1 DEF At, RightOf, LinearOf, Masked
    <3>2. (Y * R) * x = Y * (R * x)
      BY <1>4
    <3> QED BY <2>2, <3>1, <3>2
  <2> QED BY <2>1, <2>2, <2>3, SameRest
<1>7. mu \in Int /\ Same(mu, alpha + rho * x)
  <2>1. PICK e \in Int : e = alpha + rho * x
    <3>1. alpha + rho * x \in Int
      BY <1>4
    <3> QED BY <3>1
  <2> QED BY <1>1, <2>1, SameRest DEF Masked
<1>8. PICK less : Lessened(less, bits)
  <2>1. Lessened([i \in Index |-> bits[i] - 1], bits)
    BY DEF Lessened
  <2> QED BY <2>1
<1>9. ASSUME NEW T \in Points
      PROVE  InnerEqual(A, S, y, z, x, mu, T, le, re)
  <2>1. VectorHidden(A, bits, less, alpha) /\ VectorHidden(S, sl, sr, rho)
    BY <1>0, <1>1, <1>2, <1>8 DEF Masked, VectorHidden, Lessened
  <2>2. /\ LeftSame(le, bits, sl, z, x) /\ RightSame(re, bits, sr, y, z, x)
        /\ MaskSame(mu, alpha, rho, x)
    BY <1>5, <1>6, <1>7 DEF LeftSame, RightSame, MaskSame
  <2>3. /\ alpha \in Int /\ rho \in Int /\ mu \in Int /\ T \in Points
        /\ y \in Answer /\ z \in Answer /\ x \in Answer
        /\ sl \in [Index -> Int] /\ sr \in [Index -> Int]
    BY <1>2, <1>7
  <2> QED BY <1>3, <1>8, <2>1, <2>2, <2>3, InnerSame
<1>10. InnerTrue(A, S, y, z, x, mu, le, re)
  BY <1>9 DEF InnerTrue
<1> QED BY <1>3, <1>10

-----------------------------------------------------------------------------
\* What the prover holds and what was hashed, stage by stage.
Opened(j) == <<<<"range", j.C>>, <<"y", <<j.A, j.S>>, j.y>>, <<"z", <<>>, j.z>>>>
Answered4(j, x) == <<"x", <<j.T1, j.T2>>, x>>
Answered5(j, u) == <<"u", <<j.tauX, j.mu, j.t>>, u>>
Answered6(j, p) == <<"inner", <<p, j.uPoint>>>>
Hashed(j, x, u, p, cs) ==
    SixHashed(<<"range", j.C>>, <<"y", <<j.A, j.S>>, j.y>>, <<"z", <<>>, j.z>>,
              Answered4(j, x), Answered5(j, u), Answered6(j, p)) \o RoundsHashed(j.ls, j.rs, cs)

Proving(j) ==
    /\ j.amount \in 1..MaxAmount /\ j.y \in Answer /\ j.z \in Answer /\ j.C = RangePoint(j.commitment)
    /\ {"amount", "secret", "y", "z", "commitment", "C", "A", "S"} \subseteq DOMAIN j

AtPolynomial(j, tr) ==
    /\ Proving(j) /\ j.secret \in Secret /\ j.bits = Digits(j.amount)
    /\ j.commitment = Hide([amount |-> j.amount, blinding |-> j.secret.blinding])
    /\ j.A = Add(<<Multi(GS, j.bits), Multi(HS, [i \in Index |-> j.bits[i] - 1]),
                   Times(j.secret.alpha, BlindingBase)>>)
    /\ j.S = Add(<<Multi(GS, j.secret.left), Multi(HS, j.secret.right), Times(j.secret.rho, BlindingBase)>>)
    /\ tr = Opened(j)

AtInner(j, tr) ==
    /\ Proving(j) /\ {"T1", "T2", "le", "re", "h", "tauX", "mu"} \subseteq DOMAIN j
    /\ j.h = Rescaled(j.y) /\ j.le \in [Index -> Int] /\ j.re \in [Index -> Int]
    /\ \E x \in Answer :
          /\ tr = Append(Opened(j), Answered4(j, x))
          /\ PolynomialTrue(j.T1, j.T2, j.C, j.y, j.z, x, Dot(j.le, j.re), j.tauX)
          /\ InnerTrue(j.A, j.S, j.y, j.z, x, j.mu, j.le, j.re)

AtFold(j, tr) ==
    /\ Proving(j) /\ {"ls", "rs", "g", "h", "le", "re"} \subseteq DOMAIN j
    /\ {"stage", "T1", "T2", "tauX", "mu", "t", "uPoint"} \subseteq DOMAIN j
    /\ \E x \in Answer, u \in Answer : \E p, cs :
          /\ tr = Hashed(j, x, u, p, cs) /\ j.uPoint = Times(u, ValueBase)
          /\ PolynomialTrue(j.T1, j.T2, j.C, j.y, j.z, x, j.t, j.tauX)
          /\ p = InnerPoint(j.A, j.S, Rescaled(j.y), j.y, j.z, x, j.mu, Times(j.t, j.uPoint))
          /\ Folded(Len(j.ls), j.ls, j.rs, cs, j.g, j.h, j.le, j.re, j.uPoint, j.y, p)

-----------------------------------------------------------------------------
\* buildRangeBody up to x.
PolynomialAnswered(j, x, T1, T2, le, re, tauX, mu, f) ==
    /\ le = At(LeftOf(j.bits, j.z), j.secret.left, x)
    /\ re = At(RightOf(j.bits, j.y, j.z), LinearOf(j.secret.right, j.y), x)
    /\ T1 = Multi(<<ValueBase, BlindingBase>>,
                  <<Dot(j.secret.left, RightOf(j.bits, j.y, j.z))
                       + Dot(LeftOf(j.bits, j.z), LinearOf(j.secret.right, j.y)),
                    j.secret.tau1>>)
    /\ T2 = Multi(<<ValueBase, BlindingBase>>,
                  <<Dot(j.secret.left, LinearOf(j.secret.right, j.y)), j.secret.tau2>>)
    /\ tauX = (j.z * j.z * j.secret.blinding + j.secret.tau1 * x + j.secret.tau2 * x * x) % Order
    /\ mu = (j.secret.alpha + j.secret.rho * x) % Order
    /\ f = [stage |-> "inner", T1 |-> T1, T2 |-> T2, le |-> le, re |-> re,
            h |-> Rescaled(j.y), tauX |-> tauX, mu |-> mu]

\* What the polynomial step leaves.
LEMMA PolynomialTaken ==
    ASSUME Polynomial
    PROVE  \E x, T1, T2, le, re, tauX, mu, f :
              /\ x \in Answer /\ PolynomialAnswered(job, x, T1, T2, le, re, tauX, mu, f)
              /\ job' = With(job, f) /\ transcript' = Append(transcript, <<"x", <<T1, T2>>, x>>)
              /\ verdict' = verdict
<1>1. /\ LeftOf(job.bits, job.z) = [i \in Index |-> job.bits[i] - job.z]
      /\ RightOf(job.bits, job.y, job.z)
            = [i \in Index |-> Powers(job.y)[i] * (job.bits[i] - 1 + job.z) + job.z * job.z * Power(2, i - 1)]
      /\ LinearOf(job.secret.right, job.y) = [i \in Index |-> Powers(job.y)[i] * job.secret.right[i]]
      /\ Rescaled(job.y) = [i \in Index |-> Times(Inv(Powers(job.y)[i]), HS[i])]
  BY DEF LeftOf, RightOf, LinearOf, Rescaled
<1> DEFINE le0 == LeftOf(job.bits, job.z)
           re0 == RightOf(job.bits, job.y, job.z)
           lin == LinearOf(job.secret.right, job.y)
           T1 == Multi(<<ValueBase, BlindingBase>>,
                       <<Dot(job.secret.left, re0) + Dot(le0, lin), job.secret.tau1>>)
           T2 == Multi(<<ValueBase, BlindingBase>>, <<Dot(job.secret.left, lin), job.secret.tau2>>)
           le(x) == [i \in Index |-> (le0[i] + job.secret.left[i] * x) % Order]
           re(x) == [i \in Index |-> (re0[i] + lin[i] * x) % Order]
           tauX(x) == (job.z * job.z * job.secret.blinding + job.secret.tau1 * x
                          + job.secret.tau2 * x * x) % Order
           mu(x) == (job.secret.alpha + job.secret.rho * x) % Order
           f(x) == [stage |-> "inner", T1 |-> T1, T2 |-> T2, le |-> le(x), re |-> re(x),
                    h |-> Rescaled(job.y), tauX |-> tauX(x), mu |-> mu(x)]
<1>2. PICK x \in Answer : /\ job' = With(job, f(x))
                          /\ transcript' = Append(transcript, <<"x", <<T1, T2>>, x>>)
                          /\ verdict' = verdict
  BY Zenon DEF Polynomial, Ask, LeftOf, RightOf, LinearOf, Rescaled
<1>3. le(x) = At(le0, job.secret.left, x) /\ re(x) = At(re0, lin, x)
  BY Zenon DEF At
<1>4. PolynomialAnswered(job, x, T1, T2, le(x), re(x), tauX(x), mu(x), f(x))
  BY <1>3, Zenon DEF PolynomialAnswered
<1> QED BY <1>2, <1>4, Zenon

-----------------------------------------------------------------------------
\* The polynomial step reaches a memory from which both equations hold.
LEMMA PolynomialReaches ==
    ASSUME AtPolynomial(job, transcript), Polynomial
    PROVE  AtInner(job', transcript') /\ job'.stage = "inner" /\ verdict' = verdict
<1>1. PICK j : j = job
  OBVIOUS
<1>2. /\ Proving(j) /\ j.secret \in Secret /\ j.bits = Digits(j.amount)
      /\ j.commitment = Hide([amount |-> j.amount, blinding |-> j.secret.blinding])
      /\ j.A = Add(<<Multi(GS, j.bits), Multi(HS, [i \in Index |-> j.bits[i] - 1]),
                     Times(j.secret.alpha, BlindingBase)>>)
      /\ j.S = Add(<<Multi(GS, j.secret.left), Multi(HS, j.secret.right),
                     Times(j.secret.rho, BlindingBase)>>)
      /\ transcript = Opened(j)
  BY <1>1, Zenon DEF AtPolynomial
<1>3. PICK x, T1, T2, le, re, tauX, mu, f :
         /\ x \in Answer /\ PolynomialAnswered(j, x, T1, T2, le, re, tauX, mu, f)
         /\ job' = With(j, f) /\ transcript' = Append(transcript, <<"x", <<T1, T2>>, x>>)
         /\ verdict' = verdict
  BY <1>1, PolynomialTaken, Zenon
<1>21. x \in Answer
  BY <1>3
<1>4. PICK y, z, a, s, C : y = j.y /\ z = j.z /\ a = j.amount /\ s = j.secret /\ C = j.C
  OBVIOUS
<1>5. y \in Answer /\ z \in Answer /\ a \in 1..MaxAmount /\ s \in Secret
  BY <1>2, <1>4, Zenon DEF Proving
<1>6. Computed(y, z, x, a, s, le, re, T1, T2, tauX, C)
  BY <1>2, <1>3, <1>4, Zenon DEF PolynomialAnswered, Computed, Proving
<1>7. Masked(j.A, j.S, y, z, x, a, s, le, re, mu)
  BY <1>2, <1>3, <1>4, Zenon DEF PolynomialAnswered, Masked
<1>8. PolynomialTrue(T1, T2, C, y, z, x, Dot(le, re), tauX)
  BY <1>5, <1>6, <1>21, PolynomialComputed
<1>9. le \in [Index -> Int] /\ re \in [Index -> Int] /\ InnerTrue(j.A, j.S, y, z, x, mu, le, re)
  BY <1>5, <1>7, <1>21, InnerComputed
<1>10. PICK new, h : new = job' /\ h = Rescaled(y)
  OBVIOUS
<1>11. Over(new, j, f)
  <2>1. new = With(j, f)
    BY <1>3, <1>10, Zenon
  <2> QED BY <2>1, LaidOver
<1>12. {"amount", "secret", "y", "z", "commitment", "C", "A", "S"} \subseteq DOMAIN j
  BY <1>2, Zenon DEF Proving
<1>13. f = [stage |-> "inner", T1 |-> T1, T2 |-> T2, le |-> le, re |-> re,
            h |-> h, tauX |-> tauX, mu |-> mu]
  BY <1>3, <1>4, <1>10, Zenon DEF PolynomialAnswered
<1>14. /\ {"amount", "secret", "y", "z", "commitment", "C", "A", "S", "T1", "T2", "le", "re", "h",
               "tauX", "mu"} \subseteq DOMAIN new
       /\ new.stage = "inner" /\ new.T1 = T1 /\ new.T2 = T2 /\ new.le = le /\ new.re = re
       /\ new.h = h /\ new.tauX = tauX /\ new.mu = mu
       /\ new.amount = j.amount /\ new.secret = j.secret /\ new.y = j.y /\ new.z = j.z
       /\ new.commitment = j.commitment /\ new.C = j.C /\ new.A = j.A /\ new.S = j.S
  BY <1>11, <1>12, <1>13, ToInner
<1>15. Proving(new) /\ {"T1", "T2", "le", "re", "h", "tauX", "mu"} \subseteq DOMAIN new
  BY <1>2, <1>14 DEF Proving
<1>16. Opened(new) = Opened(j) /\ Answered4(new, x) = <<"x", <<T1, T2>>, x>>
  BY <1>14, Zenon DEF Opened, Answered4
<1>17. transcript' = Append(Opened(new), Answered4(new, x))
  BY <1>2, <1>3, <1>16, Zenon
<1>18. new.h = Rescaled(new.y) /\ new.le \in [Index -> Int] /\ new.re \in [Index -> Int]
  BY <1>4, <1>9, <1>10, <1>14, Zenon
<1>19. /\ PolynomialTrue(new.T1, new.T2, new.C, new.y, new.z, x, Dot(new.le, new.re), new.tauX)
       /\ InnerTrue(new.A, new.S, new.y, new.z, x, new.mu, new.le, new.re)
  BY <1>4, <1>8, <1>9, <1>14, Zenon
<1>20. AtInner(new, transcript')
  BY <1>15, <1>17, <1>18, <1>19, <1>21, Zenon DEF AtInner
<1> QED BY <1>3, <1>10, <1>14, <1>20, Zenon

-----------------------------------------------------------------------------
\* buildRangeBody from u on.
LEMMA InnerTaken ==
    ASSUME Inner
    PROVE  \E u, t, uPoint, p, f :
              /\ u \in Answer /\ t = Dot(job.le, job.re) /\ uPoint = Times(u, ValueBase)
              /\ p = Add(<<Multi(GS, job.le), Multi(job.h, job.re), Times(t, uPoint)>>)
              /\ f = [stage |-> "fold", t |-> t, g |-> GS, uPoint |-> uPoint, ls |-> <<>>, rs |-> <<>>]
              /\ job' = With(job, f)
              /\ transcript' = transcript \o <<<<"u", <<job.tauX, job.mu, t>>, u>>,
                                               <<"inner", <<p, uPoint>>>>>>
              /\ verdict' = verdict
BY Zenon DEF Inner

\* The inner step reaches vectors that nothing is folded of.
LEMMA InnerReaches ==
    ASSUME AtInner(job, transcript), Inner
    PROVE  AtFold(job', transcript') /\ job'.stage = "fold" /\ verdict' = verdict
<1>1. PICK j : j = job
  OBVIOUS
<1>2. /\ Proving(j) /\ {"T1", "T2", "le", "re", "h", "tauX", "mu"} \subseteq DOMAIN j
      /\ j.h = Rescaled(j.y) /\ j.le \in [Index -> Int] /\ j.re \in [Index -> Int]
  BY <1>1, Zenon DEF AtInner
<1>3. PICK x \in Answer :
         /\ transcript = Append(Opened(j), Answered4(j, x))
         /\ PolynomialTrue(j.T1, j.T2, j.C, j.y, j.z, x, Dot(j.le, j.re), j.tauX)
         /\ InnerTrue(j.A, j.S, j.y, j.z, x, j.mu, j.le, j.re)
  BY <1>1, Zenon DEF AtInner
<1>4. PICK u, t, uPoint, p, f :
         /\ u \in Answer /\ t = Dot(j.le, j.re) /\ uPoint = Times(u, ValueBase)
         /\ p = Add(<<Multi(GS, j.le), Multi(j.h, j.re), Times(t, uPoint)>>)
         /\ f = [stage |-> "fold", t |-> t, g |-> GS, uPoint |-> uPoint, ls |-> <<>>, rs |-> <<>>]
         /\ job' = With(j, f)
         /\ transcript' = transcript \o <<<<"u", <<j.tauX, j.mu, t>>, u>>, <<"inner", <<p, uPoint>>>>>>
         /\ verdict' = verdict
  BY <1>1, InnerTaken, Zenon
<1>22. u \in Answer
  BY <1>4
<1>5. PICK y, le, re : y = j.y /\ le = j.le /\ re = j.re
  OBVIOUS
<1>6. y \in Answer /\ le \in [Index -> Int] /\ re \in [Index -> Int]
  BY <1>2, <1>5, Zenon DEF Proving
<1>7. t \in Int
  <2>1. PICK n \in Nat : n = Width /\ Index = 1..n
    BY WidthIs
  <2>2. le \in [1..n -> Int] /\ re \in [1..n -> Int]
    BY <1>6, <2>1
  <2>3. PICK q : q = [i \in 1..n |-> le[i] * re[i]]
    OBVIOUS
  <2>4. DOMAIN le = 1..n /\ Products(q, le, re, n) /\ Ints(q, n)
    BY <2>2, <2>3 DEF Products, Ints
  <2>5. Dot(le, re) \in Int
    BY <2>4, DotIs
  <2> QED BY <1>4, <1>5, <2>5
<1>8. uPoint \in Points /\ Times(t, uPoint) \in Points
  <2>1. u \in Int /\ ValueBase \in Combinations
    BY <1>22, AnswerIs, Bases, PointsCombine
  <2>2. uPoint \in Points
    BY <1>4, <2>1, TimesIs
  <2>3. uPoint \in Combinations
    BY <2>2, PointsCombine
  <2> QED BY <1>7, <2>2, <2>3, TimesIs
<1>9. p = Committed(GS, Rescaled(y), le, re, uPoint)
  BY <1>2, <1>4, <1>5, Zenon DEF Committed
<1>10. Folded(0, <<>>, <<>>, <<>>, GS, Rescaled(y), le, re, uPoint, y, p)
  BY <1>6, <1>8, <1>9, FoldedStart
<1>11. InnerPoint(j.A, j.S, Rescaled(y), y, j.z, x, j.mu, Times(t, uPoint)) = p
  <2>1. InnerEqual(j.A, j.S, y, j.z, x, j.mu, Times(t, uPoint), le, re)
    BY <1>3, <1>5, <1>8, Zenon DEF InnerTrue
  <2>2. InnerPoint(j.A, j.S, Rescaled(y), y, j.z, x, j.mu, Times(t, uPoint))
           = Add(<<Multi(GS, le), Multi(Rescaled(y), re), Times(t, uPoint)>>)
    BY <2>1, Zenon DEF InnerEqual
  <2> QED BY <1>2, <1>4, <1>5, <2>2, Zenon
<1>12. PICK new, g, v : new = job' /\ g = GS /\ v = <<>>
  OBVIOUS
<1>13. Over(new, j, f)
  <2>1. new = With(j, f)
    BY <1>4, <1>12, Zenon
  <2> QED BY <2>1, LaidOver
<1>14. {"amount", "secret", "y", "z", "commitment", "C", "A", "S", "T1", "T2", "le", "re", "h",
        "tauX", "mu"} \subseteq DOMAIN j
  BY <1>2 DEF Proving
<1>15. f = [stage |-> "fold", t |-> t, g |-> g, uPoint |-> uPoint, ls |-> v, rs |-> v]
  BY <1>4, <1>12, Zenon
<1>16. /\ {"ls", "rs", "g", "h", "le", "re"} \subseteq DOMAIN new
       /\ {"stage", "amount", "secret", "y", "z", "commitment", "C", "A", "S", "T1", "T2",
           "tauX", "mu", "t", "uPoint"} \subseteq DOMAIN new
       /\ new.stage = "fold" /\ new.t = t /\ new.g = g /\ new.uPoint = uPoint
       /\ new.ls = v /\ new.rs = v
       /\ new.amount = j.amount /\ new.y = j.y /\ new.z = j.z
       /\ new.commitment = j.commitment /\ new.C = j.C /\ new.A = j.A /\ new.S = j.S
       /\ new.T1 = j.T1 /\ new.T2 = j.T2 /\ new.le = j.le /\ new.re = j.re
       /\ new.h = j.h /\ new.tauX = j.tauX /\ new.mu = j.mu
  <2>1. BecameFold(new, j, t, g, uPoint, v, v)
    BY <1>13, <1>14, <1>15, ToFold
  <2> QED BY <2>1, Zenon DEF BecameFold
<1>17. /\ Proving(new) /\ {"ls", "rs", "g", "h", "le", "re"} \subseteq DOMAIN new
       /\ {"stage", "T1", "T2", "tauX", "mu", "t", "uPoint"} \subseteq DOMAIN new
  BY <1>2, <1>16 DEF Proving
<1>18. transcript' = Hashed(new, x, u, p, v)
  <2>1. RoundsHashed(new.ls, new.rs, v) = <<>>
    BY <1>12 DEF RoundsHashed
  <2>2. PICK e1, e2, e3, e4, e5, e6 :
           /\ e1 = <<"range", j.C>> /\ e2 = <<"y", <<j.A, j.S>>, j.y>> /\ e3 = <<"z", <<>>, j.z>>
           /\ e4 = Answered4(j, x) /\ e5 = <<"u", <<j.tauX, j.mu, t>>, u>>
           /\ e6 = <<"inner", <<p, uPoint>>>>
    OBVIOUS
  <2>3. Append(<<e1, e2, e3>>, e4) \o <<e5, e6>> = SixHashed(e1, e2, e3, e4, e5, e6) \o <<>>
    <3>1. Append(ThreeHashed(e1, e2, e3), e4) \o TwoHashed(e5, e6)
             = SixHashed(e1, e2, e3, e4, e5, e6) \o <<>>
      BY SixEntries
    <3> QED BY <3>1, Zenon DEF ThreeHashed, TwoHashed
  <2>4. transcript' = Append(<<e1, e2, e3>>, e4) \o <<e5, e6>>
    BY <1>3, <1>4, <2>2, Zenon DEF Opened
  <2>5. /\ e1 = <<"range", new.C>> /\ e2 = <<"y", <<new.A, new.S>>, new.y>> /\ e3 = <<"z", <<>>, new.z>>
        /\ e4 = Answered4(new, x) /\ e5 = Answered5(new, u) /\ e6 = Answered6(new, p)
    BY <1>16, <2>2, Zenon DEF Answered4, Answered5, Answered6
  <2> QED BY <2>1, <2>3, <2>4, <2>5, Zenon DEF Hashed
<1>19. /\ PolynomialTrue(new.T1, new.T2, new.C, new.y, new.z, x, new.t, new.tauX)
       /\ p = InnerPoint(new.A, new.S, Rescaled(new.y), new.y, new.z, x, new.mu, Times(new.t, new.uPoint))
       /\ new.uPoint = Times(u, ValueBase)
  BY <1>3, <1>4, <1>5, <1>11, <1>16, Zenon
<1>20. Folded(Len(new.ls), new.ls, new.rs, v, new.g, new.h, new.le, new.re, new.uPoint, new.y, p)
  <2>1. Len(v) = 0
    BY <1>12
  <2>2. Folded(0, v, v, v, g, new.h, new.le, new.re, new.uPoint, new.y, p)
    BY <1>2, <1>5, <1>10, <1>12, <1>16, Zenon
  <2> QED BY <1>16, <2>1, <2>2, Zenon
<1>21. AtFold(new, transcript')
  BY <1>17, <1>18, <1>19, <1>20, <1>22, Zenon DEF AtFold
<1> QED BY <1>4, <1>12, <1>16, <1>21, Zenon

-----------------------------------------------------------------------------
\* finishRangeBody: one round.
FoldAnswered(j, c, left, right, ls, rs, g, h, le, re) ==
    /\ left = RoundLeft(j.g, j.h, j.le, j.re, j.uPoint)
    /\ right = RoundRight(j.g, j.h, j.le, j.re, j.uPoint)
    /\ ls = Append(j.ls, left) /\ rs = Append(j.rs, right)
    /\ g = HalvedPoints(j.g, Inv(c), c) /\ h = HalvedPoints(j.h, c, Inv(c))
    /\ le = HalvedScalars(j.le, c, Inv(c)) /\ re = HalvedScalars(j.re, Inv(c), c)

\* What a round leaves.
LEMMA FoldTaken ==
    ASSUME FoldRound
    PROVE  /\ job.stage = "fold" /\ Len(job.le) > 1 /\ verdict' = verdict
           /\ \E c, left, right, ls, rs, g, h, le, re :
                 /\ c \in Answer /\ FoldAnswered(job, c, left, right, ls, rs, g, h, le, re)
                 /\ job' = [job EXCEPT !.ls = ls, !.rs = rs, !.g = g, !.h = h, !.le = le, !.re = re]
                 /\ transcript' = Append(transcript, <<"round", <<Len(job.ls), left, right>>, c>>)
<1> DEFINE left == RoundLeft(job.g, job.h, job.le, job.re, job.uPoint)
           right == RoundRight(job.g, job.h, job.le, job.re, job.uPoint)
           g(c) == HalvedPoints(job.g, Inv(c), c)
           h(c) == HalvedPoints(job.h, c, Inv(c))
           le(c) == HalvedScalars(job.le, c, Inv(c))
           re(c) == HalvedScalars(job.re, Inv(c), c)
<1>1. PICK c \in Answer :
         /\ job' = [job EXCEPT !.ls = Append(@, left), !.rs = Append(@, right),
                               !.g = g(c), !.h = h(c), !.le = le(c), !.re = re(c)]
         /\ transcript' = Append(transcript, <<"round", <<Len(job.ls), left, right>>, c>>)
  BY Zenon DEF FoldRound, Ask, RoundLeft, RoundRight, HalvedPoints, HalvedScalars
<1>2. PICK L, R, ls, rs, g2, h2, le2, re2 :
         /\ L = left /\ R = right /\ ls = Append(job.ls, L) /\ rs = Append(job.rs, R)
         /\ g2 = g(c) /\ h2 = h(c) /\ le2 = le(c) /\ re2 = re(c)
  OBVIOUS
<1> HIDE DEF left, right, g, h, le, re
<1>3. job' = [job EXCEPT !.ls = ls, !.rs = rs, !.g = g2, !.h = h2, !.le = le2, !.re = re2]
  BY <1>1, <1>2
<1> USE DEF left, right, g, h, le, re
<1>4. FoldAnswered(job, c, L, R, ls, rs, g2, h2, le2, re2)
  BY <1>2, Zenon DEF FoldAnswered
<1>5. transcript' = Append(transcript, <<"round", <<Len(job.ls), L, R>>, c>>)
  BY <1>1, <1>2, Zenon
<1>6. job.stage = "fold" /\ Len(job.le) > 1 /\ verdict' = verdict
  BY Zenon DEF FoldRound
<1> QED BY <1>3, <1>4, <1>5, <1>6, Zenon

\* While more than one element is left, a round is left to take.
LEMMA RoundLeftToTake ==
    ASSUME NEW r, NEW ls, NEW rs, NEW cs, NEW g, NEW h, NEW a, NEW b, NEW u, NEW y, NEW p,
           Folded(r, ls, rs, cs, g, h, a, b, u, y, p), Len(a) > 1
    PROVE  r \in Nat /\ r < Rounds
<1>1. r \in 0..Rounds /\ Len(a) = Power(2, Rounds - r)
  BY DEF Folded, Scalars
<1>2. Rounds \in Nat
  BY WidthIs
<1>3. ASSUME r = Rounds PROVE FALSE
  <2>1. Rounds - r = 0
    BY <1>2, <1>3
  <2>2. Power(2, 0) = 1
    BY PowersOfTwo
  <2> QED BY <1>1, <2>1, <2>2
<1> QED BY <1>1, <1>2, <1>3

\* A list grown by any element.
LEMMA GrownByAny ==
    ASSUME NEW n \in Nat, NEW S, NEW v, v \in [1..n -> S], NEW x, NEW w, w = Append(v, x)
    PROVE  Len(v) = n /\ Len(w) = n + 1 /\ DOMAIN v = 1..n /\ DOMAIN w = 1..(n + 1)
           /\ Agree(w, v, n) /\ w[n + 1] = x
<1>1. PICK T : T = S \cup {x}
  OBVIOUS
<1>2. v \in [1..n -> T] /\ x \in T
  BY <1>1
<1>3. Grown(w, v, x, n, T)
  BY <1>2 DEF Grown
<1>4. w \in [1..(n + 1) -> T] /\ Agree(w, v, n) /\ w[n + 1] = x
  BY <1>3, GrownIs
<1>5. PICK m \in Nat : m = n + 1
  OBVIOUS
<1>6. w \in [1..m -> T] /\ Len(w) = m /\ Len(v) = n
  <2>1. w \in [1..m -> T]
    BY <1>4, <1>5
  <2>2. Len(w) = m
    BY <2>1
  <2>3. Len(v) = n
    BY <1>2
  <2> QED BY <2>1, <2>2, <2>3
<1> QED BY <1>4, <1>5, <1>6

Adds(ls2, rs2, cs2, ls, rs, cs, left, right, c) ==
    ls2 = Append(ls, left) /\ rs2 = Append(rs, right) /\ cs2 = Append(cs, c)

RoundAdded(six, r, ls, rs, cs, left, right, c, ls2, rs2, cs2) ==
    /\ Len(ls) = r /\ Len(ls2) = r + 1
    /\ Append(six \o RoundsHashed(ls, rs, cs), <<"round", <<Len(ls), left, right>>, c>>)
          = six \o RoundsHashed(ls2, rs2, cs2)

\* What a round adds to what is hashed.
LEMMA RoundAdds ==
    ASSUME NEW r \in Nat, NEW y, NEW ls, NEW rs, NEW cs, NEW g, NEW h, NEW a, NEW b, NEW u, NEW p,
           Folded(r, ls, rs, cs, g, h, a, b, u, y, p),
           NEW c, NEW left, NEW right, NEW ls2, NEW rs2, NEW cs2,
           Adds(ls2, rs2, cs2, ls, rs, cs, left, right, c),
           NEW e1, NEW e2, NEW e3, NEW e4, NEW e5, NEW e6
    PROVE  RoundAdded(SixHashed(e1, e2, e3, e4, e5, e6), r, ls, rs, cs, left, right, c, ls2, rs2, cs2)
<1>1. ls \in [1..r -> Points] /\ rs \in [1..r -> Points] /\ cs \in [1..r -> Answer]
  BY Zenon DEF Folded
<1>2. /\ Len(ls) = r /\ Len(ls2) = r + 1
      /\ Agree(ls2, ls, r) /\ ls2[r + 1] = left
  BY <1>1, GrownByAny DEF Adds
<1>3. Agree(rs2, rs, r) /\ rs2[r + 1] = right
  BY <1>1, GrownByAny DEF Adds
<1>4. Agree(cs2, cs, r) /\ cs2[r + 1] = c /\ DOMAIN cs = 1..r /\ DOMAIN cs2 = 1..(r + 1)
  <2>1. cs \in [1..r -> Answer] /\ cs2 = Append(cs, c)
    BY <1>1 DEF Adds
  <2>2. Agree(cs2, cs, r) /\ cs2[r + 1] = c
    BY <2>1, GrownByAny
  <2>3. DOMAIN cs2 = 1..(r + 1)
    BY <2>1, GrownByAny
  <2> QED BY <2>1, <2>2, <2>3
<1>5. PICK f, g2 : f = RoundsHashed(ls, rs, cs) /\ g2 = RoundsHashed(ls2, rs2, cs2)
  OBVIOUS
<1>6. /\ f = [k \in 1..r |-> <<"round", <<k - 1, ls[k], rs[k]>>, cs[k]>>]
      /\ g2 = [k \in 1..(r + 1) |-> <<"round", <<k - 1, ls2[k], rs2[k]>>, cs2[k]>>]
  BY <1>4, <1>5 DEF RoundsHashed
<1>7. Listed(f, r) /\ Listed(g2, r + 1)
  BY <1>6 DEF Listed
<1>8. Agree(g2, f, r)
  <2>1. ASSUME NEW k \in 1..r PROVE g2[k] = f[k]
    <3>1. k \in 1..(r + 1)
      OBVIOUS
    <3>2. ls2[k] = ls[k] /\ rs2[k] = rs[k] /\ cs2[k] = cs[k]
      BY <1>2, <1>3, <1>4 DEF Agree
    <3> QED BY <1>6, <3>1, <3>2
  <2> QED BY <2>1 DEF Agree
<1>9. g2[r + 1] = <<"round", <<r, left, right>>, c>>
  <2>1. r + 1 \in 1..(r + 1) /\ (r + 1) - 1 = r
    OBVIOUS
  <2> QED BY <1>2, <1>3, <1>4, <1>6, <2>1
<1>10. Append(SixHashed(e1, e2, e3, e4, e5, e6) \o f, g2[r + 1])
          = SixHashed(e1, e2, e3, e4, e5, e6) \o g2
  <2>1. HashedMore(SixHashed(e1, e2, e3, e4, e5, e6), f, g2, r)
    BY <1>7, <1>8, RoundHashed
  <2> QED BY <2>1, Zenon DEF HashedMore
<1>11. Append(SixHashed(e1, e2, e3, e4, e5, e6) \o RoundsHashed(ls, rs, cs),
              <<"round", <<Len(ls), left, right>>, c>>)
          = SixHashed(e1, e2, e3, e4, e5, e6) \o RoundsHashed(ls2, rs2, cs2)
  BY <1>2, <1>5, <1>9, <1>10, Zenon
<1> QED BY <1>2, <1>11, Zenon DEF RoundAdded

-----------------------------------------------------------------------------
\* A round keeps what the verifier will check of the folded vectors.
LEMMA FoldReaches ==
    ASSUME AtFold(job, transcript), FoldRound
    PROVE  AtFold(job', transcript') /\ job'.stage = "fold" /\ verdict' = verdict
<1>1. PICK j : j = job
  OBVIOUS
<1>2. /\ Proving(j) /\ {"ls", "rs", "g", "h", "le", "re"} \subseteq DOMAIN j
      /\ {"stage", "T1", "T2", "tauX", "mu", "t", "uPoint"} \subseteq DOMAIN j
  BY <1>1, Zenon DEF AtFold
<1>3. PICK x \in Answer, u \in Answer : \E p, cs :
          /\ transcript = Hashed(j, x, u, p, cs) /\ j.uPoint = Times(u, ValueBase)
          /\ PolynomialTrue(j.T1, j.T2, j.C, j.y, j.z, x, j.t, j.tauX)
          /\ p = InnerPoint(j.A, j.S, Rescaled(j.y), j.y, j.z, x, j.mu, Times(j.t, j.uPoint))
          /\ Folded(Len(j.ls), j.ls, j.rs, cs, j.g, j.h, j.le, j.re, j.uPoint, j.y, p)
  BY <1>1, Zenon DEF AtFold
<1>4. PICK p, cs :
          /\ transcript = Hashed(j, x, u, p, cs) /\ j.uPoint = Times(u, ValueBase)
          /\ PolynomialTrue(j.T1, j.T2, j.C, j.y, j.z, x, j.t, j.tauX)
          /\ p = InnerPoint(j.A, j.S, Rescaled(j.y), j.y, j.z, x, j.mu, Times(j.t, j.uPoint))
          /\ Folded(Len(j.ls), j.ls, j.rs, cs, j.g, j.h, j.le, j.re, j.uPoint, j.y, p)
  BY <1>3, Zenon
<1>5. j.stage = "fold" /\ Len(j.le) > 1 /\ verdict' = verdict
  BY <1>1, FoldTaken, Zenon
<1>23. PICK c, left, right, ls, rs, g, h, le, re :
         /\ c \in Answer /\ FoldAnswered(job, c, left, right, ls, rs, g, h, le, re)
         /\ job' = [job EXCEPT !.ls = ls, !.rs = rs, !.g = g, !.h = h, !.le = le, !.re = re]
         /\ transcript' = Append(transcript, <<"round", <<Len(job.ls), left, right>>, c>>)
  BY FoldTaken, Zenon
<1>6. /\ c \in Answer /\ FoldAnswered(j, c, left, right, ls, rs, g, h, le, re)
      /\ job' = [j EXCEPT !.ls = ls, !.rs = rs, !.g = g, !.h = h, !.le = le, !.re = re]
      /\ transcript' = Append(transcript, <<"round", <<Len(j.ls), left, right>>, c>>)
  BY <1>1, <1>23
<1>22. c \in Answer
  BY <1>6
<1>7. PICK r, cs2, y : r = Len(j.ls) /\ cs2 = Append(cs, c) /\ y = j.y
  OBVIOUS
<1>8. Folded(r, j.ls, j.rs, cs, j.g, j.h, j.le, j.re, j.uPoint, y, p) /\ y \in Answer
  BY <1>2, <1>4, <1>7, Zenon DEF Proving
<1>9. r \in Nat /\ r < Rounds
  BY <1>5, <1>8, RoundLeftToTake
<1>10. Folded(r + 1, Append(j.ls, left), Append(j.rs, right), Append(cs, c),
              HalvedPoints(j.g, Inv(c), c), HalvedPoints(j.h, c, Inv(c)),
              HalvedScalars(j.le, c, Inv(c)), HalvedScalars(j.re, Inv(c), c), j.uPoint, y, p)
  <2>1. /\ left = RoundLeft(j.g, j.h, j.le, j.re, j.uPoint)
        /\ right = RoundRight(j.g, j.h, j.le, j.re, j.uPoint)
    BY <1>6, Zenon DEF FoldAnswered
  <2> QED BY <1>8, <1>9, <1>22, <2>1, FoldedStep, Zenon
<1>11. Folded(r + 1, ls, rs, cs2, g, h, le, re, j.uPoint, y, p)
  BY <1>6, <1>7, <1>10, Zenon DEF FoldAnswered
<1>12. Adds(ls, rs, cs2, j.ls, j.rs, cs, left, right, c)
  BY <1>6, <1>7, Zenon DEF FoldAnswered, Adds
<1>13. PICK e1, e2, e3, e4, e5, e6 :
          /\ e1 = <<"range", j.C>> /\ e2 = <<"y", <<j.A, j.S>>, j.y>> /\ e3 = <<"z", <<>>, j.z>>
          /\ e4 = Answered4(j, x) /\ e5 = Answered5(j, u) /\ e6 = Answered6(j, p)
  OBVIOUS
<1>14. /\ Len(j.ls) = r /\ Len(ls) = r + 1
       /\ Append(SixHashed(e1, e2, e3, e4, e5, e6) \o RoundsHashed(j.ls, j.rs, cs),
                 <<"round", <<Len(j.ls), left, right>>, c>>)
             = SixHashed(e1, e2, e3, e4, e5, e6) \o RoundsHashed(ls, rs, cs2)
  <2>1. RoundAdded(SixHashed(e1, e2, e3, e4, e5, e6), r, j.ls, j.rs, cs, left, right, c, ls, rs, cs2)
    BY <1>8, <1>9, <1>12, RoundAdds
  <2> QED BY <2>1, Zenon DEF RoundAdded
<1>15. PICK new : new = job'
  OBVIOUS
<1>16. /\ DOMAIN new = DOMAIN j
       /\ new.ls = ls /\ new.rs = rs /\ new.g = g /\ new.h = h /\ new.le = le /\ new.re = re
       /\ new.stage = j.stage /\ new.amount = j.amount /\ new.y = j.y /\ new.z = j.z
       /\ new.commitment = j.commitment /\ new.C = j.C /\ new.A = j.A /\ new.S = j.S
       /\ new.T1 = j.T1 /\ new.T2 = j.T2 /\ new.tauX = j.tauX /\ new.mu = j.mu
       /\ new.t = j.t /\ new.uPoint = j.uPoint
  <2>1. {"stage", "amount", "secret", "y", "z", "commitment", "C", "A", "S", "T1", "T2",
               "tauX", "mu", "t", "uPoint"} \subseteq DOMAIN j
    BY <1>2 DEF Proving
  <2>2. new = [j EXCEPT !.ls = ls, !.rs = rs, !.g = g, !.h = h, !.le = le, !.re = re]
    BY <1>6, <1>15, Zenon
  <2> QED BY <1>2, <2>1, <2>2, ToFolded
<1>17. /\ Proving(new) /\ {"ls", "rs", "g", "h", "le", "re"} \subseteq DOMAIN new
       /\ {"stage", "T1", "T2", "tauX", "mu", "t", "uPoint"} \subseteq DOMAIN new
  BY <1>2, <1>16, Zenon DEF Proving
<1>18. transcript' = Hashed(new, x, u, p, cs2)
  <2>1. /\ e1 = <<"range", new.C>> /\ e2 = <<"y", <<new.A, new.S>>, new.y>> /\ e3 = <<"z", <<>>, new.z>>
        /\ e4 = Answered4(new, x) /\ e5 = Answered5(new, u) /\ e6 = Answered6(new, p)
    BY <1>13, <1>16, Zenon DEF Answered4, Answered5, Answered6
  <2>2. transcript = SixHashed(e1, e2, e3, e4, e5, e6) \o RoundsHashed(j.ls, j.rs, cs)
    BY <1>4, <1>13, Zenon DEF Hashed
  <2>3. transcript' = SixHashed(e1, e2, e3, e4, e5, e6) \o RoundsHashed(ls, rs, cs2)
    BY <1>6, <1>14, <2>2, Zenon
  <2> QED BY <1>16, <2>1, <2>3, Zenon DEF Hashed
<1>19. /\ PolynomialTrue(new.T1, new.T2, new.C, new.y, new.z, x, new.t, new.tauX)
       /\ p = InnerPoint(new.A, new.S, Rescaled(new.y), new.y, new.z, x, new.mu, Times(new.t, new.uPoint))
       /\ new.uPoint = Times(u, ValueBase)
  BY <1>4, <1>16, Zenon
<1>20. Folded(Len(new.ls), new.ls, new.rs, cs2, new.g, new.h, new.le, new.re, new.uPoint, new.y, p)
  BY <1>7, <1>11, <1>14, <1>16, Zenon
<1>21. AtFold(new, transcript')
  BY <1>17, <1>18, <1>19, <1>20, Zenon DEF AtFold
<1> QED BY <1>5, <1>15, <1>16, <1>21, Zenon

-----------------------------------------------------------------------------
\* What RangeProofV3 reads of a proof P and of what was hashed.
Read(t, y, z, x, u, cs, ls) ==
    /\ y = t[2][3] /\ z = t[3][3] /\ x = t[4][3] /\ u = t[5][3]
    /\ cs = [k \in DOMAIN ls |-> t[6 + k][3]]
HashedFor(P, C, y, z, x, u, cs, p, b) ==
    transcript = SixHashed(<<"range", C>>, <<"y", <<P.A, P.S>>, y>>, <<"z", <<>>, z>>,
                           <<"x", <<P.T1, P.T2>>, x>>, <<"u", <<P.tauX, P.mu, P.t>>, u>>,
                           <<"inner", <<p, b>>>>) \o RoundsHashed(P.ls, P.rs, cs)
InnerEnd(P, y, b, p, cs, w) ==
    Published(P.ls, P.rs, cs, p)
        = Add(<<Times(P.a, Multi(GS, w)), Times(P.b, Multi(Rescaled(y), Reverse(w))),
                Times(P.a * P.b, b)>>)

\* The contract accepts when it reads these challenges and the equations hold.
LEMMA AcceptedWhen ==
    ASSUME NEW P, NEW C, NEW y, NEW z, NEW x, NEW u, NEW cs, NEW p, NEW b, NEW w,
           Read(transcript, y, z, x, u, cs, P.ls),
           b = Times(u, ValueBase), w = [i \in Index |-> Weight(cs, i)],
           HashedFor(P, C, y, z, x, u, cs, p, b),
           p = InnerPoint(P.A, P.S, Rescaled(y), y, z, x, P.mu, Times(P.t, b)),
           PolynomialTrue(P.T1, P.T2, C, y, z, x, P.t, P.tauX), InnerEnd(P, y, b, p, cs, w)
    PROVE  RangeAccepted(P, C)
<1>1. p = InnerCommitment(P, Rescaled(y), y, z, x, b)
  BY Zenon DEF InnerPoint, InnerCommitment, TermsOf
<1>2. PolynomialHolds(P, C, y, z, x)
  BY Zenon DEF PolynomialHolds, PolynomialTrue, PolynomialEqual, DeltaOf
<1>3. InnerHolds(P, Rescaled(y), b, p, cs)
  BY Zenon DEF InnerHolds, InnerEnd, Published, Squares, Inverted
<1>4. Rescaled(y) = [i \in Index |-> Times(Inv(Powers(y)[i]), HS[i])]
  BY DEF Rescaled
<1>5. transcript = <<<<"range", C>>, <<"y", <<P.A, P.S>>, y>>, <<"z", <<>>, z>>,
                         <<"x", <<P.T1, P.T2>>, x>>, <<"u", <<P.tauX, P.mu, P.t>>, u>>,
                         <<"inner", <<p, b>>>>>>
                       \o [k \in DOMAIN cs |-> <<"round", <<k - 1, P.ls[k], P.rs[k]>>, cs[k]>>]
  BY Zenon DEF HashedFor, SixHashed, RoundsHashed
<1> QED BY <1>1, <1>2, <1>3, <1>4, <1>5, Zenon DEF RangeAccepted, Read

-----------------------------------------------------------------------------
ProofOf(j, P) ==
    P = [A |-> j.A, S |-> j.S, T1 |-> j.T1, T2 |-> j.T2, tauX |-> j.tauX,
         mu |-> j.mu, t |-> j.t, ls |-> j.ls, rs |-> j.rs, a |-> j.le[1], b |-> j.re[1]]

\* What the verification leaves.
LEMMA VerifyTaken ==
    ASSUME VerifyRange
    PROVE  /\ job.stage = "fold" /\ Len(job.le) = 1 /\ job' = job /\ transcript' = transcript
           /\ \E P : /\ ProofOf(job, P)
                     /\ verdict' = IF /\ RangePoint(job.commitment) = job.C
                                      /\ RangeAccepted(P, RangePoint(job.commitment))
                                   THEN "accepted" ELSE "rejected"
BY Zenon DEF VerifyRange, ProofOf

\* The proof that is sent holds what the prover made.
LEMMA ProofFields ==
    ASSUME NEW j, NEW P, ProofOf(j, P)
    PROVE  /\ P.A = j.A /\ P.S = j.S /\ P.T1 = j.T1 /\ P.T2 = j.T2 /\ P.tauX = j.tauX /\ P.mu = j.mu
           /\ P.t = j.t /\ P.ls = j.ls /\ P.rs = j.rs /\ P.a = j.le[1] /\ P.b = j.re[1]
BY DEF ProofOf

\* The answers are the third of what was hashed.
LEMMA AnswersRead ==
    ASSUME NEW C, NEW A, NEW S, NEW y, NEW z, NEW T, NEW x, NEW V, NEW u, NEW e6, NEW ls, NEW rs,
           NEW r \in Nat, NEW cs, cs \in [1..r -> Answer], ls \in [1..r -> Points],
           NEW t, t = SixHashed(<<"range", C>>, <<"y", <<A, S>>, y>>, <<"z", <<>>, z>>,
                                <<"x", T, x>>, <<"u", V, u>>, e6) \o RoundsHashed(ls, rs, cs)
    PROVE  Read(t, y, z, x, u, cs, ls)
<1>1. PICK e1, e2, e3, e4, e5 : /\ e1 = <<"range", C>> /\ e2 = <<"y", <<A, S>>, y>> /\ e3 = <<"z", <<>>, z>>
                                /\ e4 = <<"x", T, x>> /\ e5 = <<"u", V, u>>
  OBVIOUS
<1>2. PICK f : f = RoundsHashed(ls, rs, cs)
  OBVIOUS
<1>3. f = [k \in 1..r |-> <<"round", <<k - 1, ls[k], rs[k]>>, cs[k]>>]
  BY <1>2 DEF RoundsHashed
<1>4. Listed(f, r)
  BY <1>3 DEF Listed
<1>5. t = SixHashed(e1, e2, e3, e4, e5, e6) \o f
  BY <1>1, <1>2, Zenon
<1>6. /\ t[2] = e2 /\ t[3] = e3 /\ t[4] = e4 /\ t[5] = e5
      /\ \A k \in 1..r : t[6 + k] = f[k]
  <2>1. Entries(t, e1, e2, e3, e4, e5, e6, f, r)
    BY <1>4, <1>5, EntriesAre
  <2> QED BY <2>1, Zenon DEF Entries
<1>7. e2[3] = y /\ e3[3] = z /\ e4[3] = x /\ e5[3] = u
  BY <1>1
<1>8. cs = [k \in DOMAIN ls |-> t[6 + k][3]]
  <2>1. ASSUME NEW k \in 1..r PROVE t[6 + k][3] = cs[k]
    <3>1. PICK e : e = t[6 + k]
      OBVIOUS
    <3>2. e = f[k]
      BY <1>6, <3>1, Zenon
    <3>3. f[k] = <<"round", <<k - 1, ls[k], rs[k]>>, cs[k]>>
      BY <1>3
    <3>4. e[3] = cs[k]
      <4>1. PICK d : d = <<k - 1, ls[k], rs[k]>>
        OBVIOUS
      <4>2. e = <<"round", d, cs[k]>>
        BY <3>2, <3>3, <4>1, Zenon
      <4> QED BY <4>2
    <3> QED BY <3>1, <3>4, Zenon
  <2>2. PICK w : w = t
    OBVIOUS
  <2>3. \A k \in 1..r : w[6 + k][3] = cs[k]
    BY <2>1, <2>2
  <2>4. DOMAIN ls = 1..r
    OBVIOUS
  <2>5. cs = [k \in DOMAIN ls |-> w[6 + k][3]]
    BY <2>3, <2>4
  <2> QED BY <2>2, <2>5
<1> QED BY <1>6, <1>7, <1>8, Zenon DEF Read

-----------------------------------------------------------------------------
\* Folded to one element, the proof is accepted.
LEMMA VerifyReaches ==
    ASSUME AtFold(job, transcript), VerifyRange
    PROVE  verdict' = "accepted" /\ job.stage = "fold" /\ job' = job /\ transcript' = transcript
<1>1. PICK j : j = job
  OBVIOUS
<1>2. Proving(j)
  BY <1>1, Zenon DEF AtFold
<1>3. PICK x \in Answer, u \in Answer : \E p, cs :
          /\ transcript = Hashed(j, x, u, p, cs) /\ j.uPoint = Times(u, ValueBase)
          /\ PolynomialTrue(j.T1, j.T2, j.C, j.y, j.z, x, j.t, j.tauX)
          /\ p = InnerPoint(j.A, j.S, Rescaled(j.y), j.y, j.z, x, j.mu, Times(j.t, j.uPoint))
          /\ Folded(Len(j.ls), j.ls, j.rs, cs, j.g, j.h, j.le, j.re, j.uPoint, j.y, p)
  BY <1>1, Zenon DEF AtFold
<1>4. PICK p, cs :
          /\ transcript = Hashed(j, x, u, p, cs) /\ j.uPoint = Times(u, ValueBase)
          /\ PolynomialTrue(j.T1, j.T2, j.C, j.y, j.z, x, j.t, j.tauX)
          /\ p = InnerPoint(j.A, j.S, Rescaled(j.y), j.y, j.z, x, j.mu, Times(j.t, j.uPoint))
          /\ Folded(Len(j.ls), j.ls, j.rs, cs, j.g, j.h, j.le, j.re, j.uPoint, j.y, p)
  BY <1>3, Zenon
<1>5. PICK P : /\ ProofOf(j, P)
               /\ verdict' = IF RangePoint(j.commitment) = j.C /\ RangeAccepted(P, RangePoint(j.commitment))
                             THEN "accepted" ELSE "rejected"
  BY <1>1, VerifyTaken, Zenon
<1>6. /\ P.A = j.A /\ P.S = j.S /\ P.T1 = j.T1 /\ P.T2 = j.T2 /\ P.tauX = j.tauX /\ P.mu = j.mu
      /\ P.t = j.t /\ P.ls = j.ls /\ P.rs = j.rs /\ P.a = j.le[1] /\ P.b = j.re[1]
  BY <1>5, ProofFields
<1>7. PICK y, z, b, w, r : /\ y = j.y /\ z = j.z /\ b = j.uPoint /\ w = [i \in Index |-> Weight(cs, i)]
                           /\ r = Len(j.ls)
  OBVIOUS
<1>8. r \in Nat /\ cs \in [1..r -> Answer] /\ j.ls \in [1..r -> Points]
  <2>1. r \in 0..Rounds /\ cs \in [1..r -> Answer] /\ j.ls \in [1..r -> Points]
    BY <1>4, <1>7, Zenon DEF Folded
  <2> QED BY <2>1
<1>9. HashedFor(P, j.C, y, z, x, u, cs, p, b)
  BY <1>4, <1>6, <1>7, Zenon DEF HashedFor, Hashed, Answered4, Answered5, Answered6
<1>10. Read(transcript, y, z, x, u, cs, P.ls)
  <2>1. transcript = SixHashed(<<"range", j.C>>, <<"y", <<P.A, P.S>>, y>>, <<"z", <<>>, z>>,
                                <<"x", <<P.T1, P.T2>>, x>>, <<"u", <<P.tauX, P.mu, P.t>>, u>>,
                                <<"inner", <<p, b>>>>) \o RoundsHashed(j.ls, P.rs, cs)
    BY <1>6, <1>9, Zenon DEF HashedFor
  <2>2. Read(transcript, y, z, x, u, cs, j.ls)
    BY <1>8, <2>1, AnswersRead
  <2> QED BY <1>6, <2>2, Zenon
<1>11. InnerEnd(P, y, b, p, cs, w)
  <2>1. Len(j.le) = 1 /\ y \in Answer
    BY <1>1, <1>2, <1>7, VerifyTaken, Zenon DEF Proving
  <2>2. Folded(r, j.ls, j.rs, cs, j.g, j.h, j.le, j.re, b, y, p)
    BY <1>4, <1>7, Zenon
  <2>3. Published(j.ls, j.rs, cs, p)
              = Add(<<Times(j.le[1], Multi(GS, w)), Times(j.re[1], Multi(Rescaled(y), Reverse(w))),
                      Times(j.le[1] * j.re[1], b)>>)
    BY <1>7, <2>1, <2>2, FoldedEnd
  <2> QED BY <1>6, <2>3, Zenon DEF InnerEnd
<1>12. /\ b = Times(u, ValueBase)
       /\ p = InnerPoint(P.A, P.S, Rescaled(y), y, z, x, P.mu, Times(P.t, b))
       /\ PolynomialTrue(P.T1, P.T2, j.C, y, z, x, P.t, P.tauX)
  BY <1>4, <1>6, <1>7, Zenon
<1>13. RangeAccepted(P, j.C)
  BY <1>7, <1>9, <1>10, <1>11, <1>12, AcceptedWhen, Zenon
<1>14. RangePoint(j.commitment) = j.C
  BY <1>2, Zenon DEF Proving
<1>15. verdict' = "accepted"
  BY <1>5, <1>13, <1>14
<1>16. job.stage = "fold" /\ job' = job /\ transcript' = transcript
  BY VerifyTaken, Zenon
<1> QED BY <1>15, <1>16

-----------------------------------------------------------------------------
\* A record's fields at the start.
LEMMA ToPolynomial ==
    ASSUME NEW a, NEW s, NEW bits, NEW o, NEW y, NEW z, NEW C, NEW A, NEW S, NEW new,
           new = [stage |-> "polynomial", amount |-> a, secret |-> s, bits |-> bits,
                  commitment |-> o, y |-> y, z |-> z, C |-> C, A |-> A, S |-> S]
    PROVE  /\ new.stage = "polynomial" /\ new.amount = a /\ new.secret = s /\ new.bits = bits
           /\ new.commitment = o /\ new.y = y /\ new.z = z /\ new.C = C /\ new.A = A /\ new.S = S
           /\ {"amount", "secret", "y", "z", "commitment", "C", "A", "S"} \subseteq DOMAIN new
OBVIOUS

Started(a, s, new, tr) ==
    \E y, z, bits, o, C, A, S :
       /\ y \in Answer /\ z \in Answer /\ bits = Digits(a)
       /\ o = Hide([amount |-> a, blinding |-> s.blinding]) /\ C = RangePoint(o)
       /\ A = Add(<<Multi(GS, bits), Multi(HS, [i \in Index |-> bits[i] - 1]),
                    Times(s.alpha, BlindingBase)>>)
       /\ S = Add(<<Multi(GS, s.left), Multi(HS, s.right), Times(s.rho, BlindingBase)>>)
       /\ new = [stage |-> "polynomial", amount |-> a, secret |-> s, bits |-> bits,
                 commitment |-> o, y |-> y, z |-> z, C |-> C, A |-> A, S |-> S]
       /\ tr = <<<<"range", C>>, <<"y", <<A, S>>, y>>, <<"z", <<>>, z>>>>

\* What the start of a range proof leaves: a refusal, or the commitments to the bits.
LEMMA StartTaken ==
    ASSUME NEW a, NEW s, StartRange(a, s)
    PROVE  \/ /\ a \notin 1..MaxAmount /\ verdict' = "refused"
              /\ job' = [stage |-> "range", amount |-> a] /\ transcript' = transcript
           \/ /\ a \in 1..MaxAmount /\ verdict' = verdict /\ Started(a, s, job', transcript')
<1>1. CASE a \notin 1..MaxAmount
  BY <1>1, Zenon DEF StartRange
<1>2. CASE a \in 1..MaxAmount
  <2> DEFINE bits == Digits(a)
             o == Hide([amount |-> a, blinding |-> s.blinding])
             C == RangePoint(o)
             A == Add(<<Multi(GS, bits), Multi(HS, [i \in Index |-> bits[i] - 1]),
                        Times(s.alpha, BlindingBase)>>)
             S == Add(<<Multi(GS, s.left), Multi(HS, s.right), Times(s.rho, BlindingBase)>>)
  <2>1. PICK y, z : /\ y \in Answer /\ z \in Answer
                    /\ job' = [stage |-> "polynomial", amount |-> a, secret |-> s, bits |-> bits,
                               commitment |-> o, y |-> y, z |-> z, C |-> C, A |-> A, S |-> S]
                    /\ transcript' = <<<<"range", C>>, <<"y", <<A, S>>, y>>, <<"z", <<>>, z>>>>
                    /\ verdict' = verdict
    BY <1>2, Zenon DEF StartRange, Digits
  <2>2. Started(a, s, job', transcript')
    BY <2>1, Zenon DEF Started
  <2> QED BY <1>2, <2>1, <2>2, Zenon
<1> QED BY <1>1, <1>2

\* A range proof starts from a memory that commits to the bits of the amount.
LEMMA StartReaches ==
    ASSUME NEW a \in 1..MaxAmount, NEW s \in Secret, Started(a, s, job', transcript')
    PROVE  AtPolynomial(job', transcript') /\ job'.stage = "polynomial"
<1>1. PICK y, z, bits, o, C, A, S :
       /\ y \in Answer /\ z \in Answer /\ bits = Digits(a)
       /\ o = Hide([amount |-> a, blinding |-> s.blinding]) /\ C = RangePoint(o)
       /\ A = Add(<<Multi(GS, bits), Multi(HS, [i \in Index |-> bits[i] - 1]),
                    Times(s.alpha, BlindingBase)>>)
       /\ S = Add(<<Multi(GS, s.left), Multi(HS, s.right), Times(s.rho, BlindingBase)>>)
       /\ job' = [stage |-> "polynomial", amount |-> a, secret |-> s, bits |-> bits,
                 commitment |-> o, y |-> y, z |-> z, C |-> C, A |-> A, S |-> S]
       /\ transcript' = <<<<"range", C>>, <<"y", <<A, S>>, y>>, <<"z", <<>>, z>>>>
  BY Zenon DEF Started
<1>2. PICK new : new = job'
  OBVIOUS
<1>3. /\ new.stage = "polynomial" /\ new.amount = a /\ new.secret = s /\ new.bits = bits
      /\ new.commitment = o /\ new.y = y /\ new.z = z /\ new.C = C /\ new.A = A /\ new.S = S
      /\ {"amount", "secret", "y", "z", "commitment", "C", "A", "S"} \subseteq DOMAIN new
  <2>1. new = [stage |-> "polynomial", amount |-> a, secret |-> s, bits |-> bits,
                 commitment |-> o, y |-> y, z |-> z, C |-> C, A |-> A, S |-> S]
    BY <1>1, <1>2, Zenon
  <2> QED BY <2>1, ToPolynomial
<1>4. Proving(new) /\ new.secret \in Secret
  <2>1. a \in 1..MaxAmount /\ s \in Secret
    OBVIOUS
  <2> QED BY <1>1, <1>3, <2>1, Zenon DEF Proving
<1>5. transcript' = Opened(new)
  BY <1>1, <1>3, Zenon DEF Opened
<1>6. /\ new.bits = Digits(new.amount)
      /\ new.commitment = Hide([amount |-> new.amount, blinding |-> new.secret.blinding])
      /\ new.A = Add(<<Multi(GS, new.bits), Multi(HS, [i \in Index |-> new.bits[i] - 1]),
                     Times(new.secret.alpha, BlindingBase)>>)
      /\ new.S = Add(<<Multi(GS, new.secret.left), Multi(HS, new.secret.right),
                       Times(new.secret.rho, BlindingBase)>>)
  BY <1>1, <1>3, Zenon
<1>7. AtPolynomial(new, transcript')
  BY <1>4, <1>5, <1>6, Zenon DEF AtPolynomial
<1> QED BY <1>2, <1>3, <1>7, Zenon

-----------------------------------------------------------------------------
\* The openings of a balance: what they hide, and their commitments' sum.
Amounts(v) == Sum([i \in DOMAIN v |-> v[i].amount])
Blindings(v) == Sum([i \in DOMAIN v |-> v[i].blinding])
HiddenIn(v) == Add([i \in DOMAIN v |-> Hide(v[i])])

\* The sum of a sequence.
LEMMA SumIs ==
    ASSUME NEW n \in Nat, NEW f, DOMAIN f = 1..n
    PROVE  Sum(f) = Total(f, n)
<1>1. Sum(f) = SumOver(f, DOMAIN f)
  BY DEF Sum, FoldFunction, FoldFunctionOnSet, MapThenFoldSet, SumOver, MapThenSumSet
<1> QED BY <1>1 DEF Total

\* The commitment to an opening, one generator at a time.
LEMMA OpeningHidden ==
    ASSUME NEW o \in Opening
    PROVE  /\ o.amount \in Int /\ o.blinding \in Int /\ Hide(o) \in Points
           /\ \A b \in Generator :
                 /\ ValueBase[b] \in Int /\ BlindingBase[b] \in Int /\ Hide(o)[b] \in Int
                 /\ Same(Hide(o)[b], ValueBase[b] * o.amount + BlindingBase[b] * o.blinding)
<1>1. PICK a \in Int, l \in Int : a = o.amount /\ l = o.blinding
  BY ProofAssumption
<1>2. PICK p : p = Hide(o)
  OBVIOUS
<1>3. p = Multi(<<ValueBase, BlindingBase>>, <<a, l>>)
  BY <1>1, <1>2 DEF Hide
<1>4. /\ p \in Points
      /\ \A b \in Generator : /\ ValueBase[b] \in Int /\ BlindingBase[b] \in Int /\ p[b] \in Int
                              /\ Same(p[b], ValueBase[b] * a + BlindingBase[b] * l)
  BY <1>3, TwoBases
<1> QED BY <1>1, <1>2, <1>4

\* Commitments add up to one to the sums of their openings.
LEMMA HiddenSum ==
    ASSUME NEW n \in Nat, NEW v, v \in [1..n -> Opening]
    PROVE  /\ Amounts(v) \in Int /\ Blindings(v) \in Int /\ HiddenIn(v) \in Points
           /\ \A b \in Generator :
                 /\ HiddenIn(v)[b] \in Int
                 /\ Same(HiddenIn(v)[b], ValueBase[b] * Amounts(v) + BlindingBase[b] * Blindings(v))
<1>1. PICK f, g, P : /\ f = [i \in 1..n |-> v[i].amount] /\ g = [i \in 1..n |-> v[i].blinding]
                     /\ P = [i \in 1..n |-> Hide(v[i])]
  OBVIOUS
<1>2. ASSUME NEW i \in 1..n
      PROVE  /\ f[i] \in Int /\ g[i] \in Int /\ P[i] \in Points
             /\ \A b \in Generator :
                   /\ ValueBase[b] \in Int /\ BlindingBase[b] \in Int /\ P[i][b] \in Int
                   /\ Same(P[i][b], ValueBase[b] * f[i] + BlindingBase[b] * g[i])
  <2>1. PICK o \in Opening : o = v[i]
    OBVIOUS
  <2>2. f[i] = o.amount /\ g[i] = o.blinding /\ P[i] = Hide(o)
    BY <1>1, <2>1
  <2> QED BY <2>2, OpeningHidden
<1>3. Ints(f, n) /\ Ints(g, n) /\ P \in [1..n -> Combinations]
  <2>1. \A i \in 1..n : P[i] \in Combinations
    BY <1>2, PointsCombine
  <2>2. P = [i \in 1..n |-> P[i]]
    BY <1>1
  <2> QED BY <1>2, <2>1, <2>2 DEF Ints
<1>4. Amounts(v) = Total(f, n) /\ Blindings(v) = Total(g, n) /\ HiddenIn(v) = Add(P)
  <2>1. DOMAIN v = 1..n /\ DOMAIN f = 1..n /\ DOMAIN g = 1..n
    BY <1>1
  <2>2. Sum(f) = Total(f, n) /\ Sum(g) = Total(g, n)
    BY <2>1, SumIs
  <2> QED BY <1>1, <2>1, <2>2 DEF Amounts, Blindings, HiddenIn
<1>5. Total(f, n) \in Int /\ Total(g, n) \in Int
  BY <1>3, TotalType
<1>6. /\ Add(P) \in Points
      /\ \A b \in Generator : \A h :
            (\A i \in 1..n : h[i] = P[i][b]) =>
                /\ Ints(h, n) /\ Total(h, n) \in Int /\ Add(P)[b] \in Int /\ Same(Add(P)[b], Total(h, n))
  BY <1>3, AddIs
<1>7. ASSUME NEW b \in Generator
      PROVE  /\ Add(P)[b] \in Int
             /\ Same(Add(P)[b], ValueBase[b] * Total(f, n) + BlindingBase[b] * Total(g, n))
  <2>1. PICK V \in Int, B \in Int : V = ValueBase[b] /\ B = BlindingBase[b]
    <3>1. ValueBase \in Combinations /\ BlindingBase \in Combinations
      BY Bases, PointsCombine
    <3> QED BY <3>1 DEF Combinations
  <2>2. PICK h, vf, bg, e : /\ h = [i \in 1..n |-> P[i][b]] /\ vf = [i \in 1..n |-> V * f[i]]
                            /\ bg = [i \in 1..n |-> B * g[i]] /\ e = [i \in 1..n |-> vf[i] + bg[i]]
    OBVIOUS
  <2>3. Ints(vf, n) /\ Total(vf, n) = V * Total(f, n)
    <3>1. \A i \in 1..n : vf[i] = V * f[i]
      BY <2>2
    <3> QED BY <1>3, <3>1, TotalScaled, SMTT(40)
  <2>4. Ints(bg, n) /\ Total(bg, n) = B * Total(g, n)
    <3>1. \A i \in 1..n : bg[i] = B * g[i]
      BY <2>2
    <3> QED BY <1>3, <3>1, TotalScaled
  <2>5. Ints(e, n) /\ Total(e, n) = Total(vf, n) + Total(bg, n)
    <3>1. \A i \in 1..n : e[i] = vf[i] + bg[i]
      BY <2>2
    <3>2. Ints(vf, n) /\ Ints(bg, n)
      BY <2>3, <2>4
    <3> QED BY <3>1, <3>2, TotalPlus
  <2>6. /\ Ints(h, n) /\ Total(h, n) \in Int /\ Add(P)[b] \in Int /\ Same(Add(P)[b], Total(h, n))
    <3>1. \A i \in 1..n : h[i] = P[i][b]
      BY <2>2
    <3> QED BY <1>6, <3>1
  <2>7. Same(Total(h, n), Total(e, n))
    <3>1. ASSUME NEW i \in 1..n PROVE Same(h[i], e[i])
      <4>1. h[i] = P[i][b] /\ e[i] = V * f[i] + B * g[i]
        BY <2>2
      <4> QED BY <1>2, <2>1, <4>1
    <3> QED BY <2>5, <2>6, <3>1, TotalSame
  <2> QED BY <2>1, <2>3, <2>4, <2>5, <2>6, <2>7 DEF Same
<1> QED BY <1>4, <1>5, <1>6, <1>7

\* The openings of a transaction are a sequence.
LEMMA FewOpenings ==
    ASSUME NEW v \in UpToTwoOpenings
    PROVE  \E n \in Nat : v \in [1..n -> Opening]
<1>1. CASE v = <<>>
  <2>1. v \in [1..0 -> Opening]
    BY <1>1
  <2> QED BY <2>1
<1>2. CASE \E o \in Opening : v = <<o>>
  <2>1. v \in [1..1 -> Opening]
    BY <1>2
  <2> QED BY <2>1
<1>3. CASE v \in Opening \X Opening
  <2>1. PICK o \in Opening, q \in Opening : v = <<o, q>>
    BY <1>3
  <2>2. v \in [1..2 -> Opening]
    BY <2>1
  <2> QED BY <2>2
<1> QED BY <1>1, <1>2, <1>3 DEF UpToTwoOpenings

-----------------------------------------------------------------------------
\* A balance's point hides its surplus, under the difference of the blindings.
Surplus(ins, outs, d, w) == Amounts(ins) + d - Amounts(outs) - w
Difference(ins, outs) == Blindings(ins) - Blindings(outs)

\* The sum of a balance's points, coordinate by coordinate.
LEMMA BalanceTerms ==
    ASSUME NEW V \in Int, NEW B \in Int, NEW a1 \in Int, NEW a2 \in Int, NEW l1 \in Int, NEW l2 \in Int,
           NEW d \in Int, NEW w \in Int, NEW p \in Int, NEW q \in Int, NEW r \in Int, NEW s \in Int,
           NEW o \in Int,
           Same(p, V * a1 + B * l1), Same(q, V * d), Same(o, V * a2 + B * l2), Same(r, o * (-1)),
           Same(s, V * (-w))
    PROVE  Same(p + q + r + s, V * (a1 + d - a2 - w) + B * (l1 - l2))
<1>1. PICK e1 \in Int, e2 \in Int, e3 \in Int, e4 \in Int, e5 \in Int :
         /\ e1 = V * a1 + B * l1 /\ e2 = V * d /\ e3 = V * a2 + B * l2 /\ e4 = o * (-1) /\ e5 = V * (-w)
  <2>1. /\ V * a1 + B * l1 \in Int /\ V * d \in Int /\ V * a2 + B * l2 \in Int
        /\ o * (-1) \in Int /\ V * (-w) \in Int
    OBVIOUS
  <2> QED BY <2>1
<1>2. PICK k1 \in Int, k2 \in Int, k3 \in Int, k4 \in Int, k5 \in Int :
         /\ p = e1 + k1 * Order /\ q = e2 + k2 * Order /\ o = e3 + k3 * Order
         /\ r = e4 + k4 * Order /\ s = e5 + k5 * Order
  <2>1. Same(p, e1) /\ Same(q, e2) /\ Same(o, e3) /\ Same(r, e4) /\ Same(s, e5)
    BY <1>1
  <2>2. /\ \E k \in Int : p = e1 + k * Order
        /\ \E k \in Int : q = e2 + k * Order
        /\ \E k \in Int : o = e3 + k * Order
    BY <2>1, SameIff
  <2>3. /\ \E k \in Int : r = e4 + k * Order
        /\ \E k \in Int : s = e5 + k * Order
    BY <2>1, SameIff
  <2> QED BY <2>2, <2>3, Zenon
<1>3. PICK X \in Int, Y \in Int, m \in Int :
         /\ X = p + q + r + s /\ Y = V * (a1 + d - a2 - w) + B * (l1 - l2)
         /\ m = k1 + k2 - k3 + k4 + k5
  <2>1. /\ p + q + r + s \in Int /\ V * (a1 + d - a2 - w) + B * (l1 - l2) \in Int
        /\ k1 + k2 - k3 + k4 + k5 \in Int
    OBVIOUS
  <2> QED BY <2>1
<1>4. Y = e1 + e2 - e3 + e5
  <2>1. V * (a1 + d - a2 - w) = V * a1 + V * d - V * a2 - V * w
    OBVIOUS
  <2>2. B * (l1 - l2) = B * l1 - B * l2 /\ V * (-w) = -(V * w)
    OBVIOUS
  <2>3. PICK va \in Int, vd \in Int, vb \in Int, vw \in Int, bl \in Int, bm \in Int :
           /\ va = V * a1 /\ vd = V * d /\ vb = V * a2 /\ vw = V * w /\ bl = B * l1 /\ bm = B * l2
    <3>1. /\ V * a1 \in Int /\ V * d \in Int /\ V * a2 \in Int /\ V * w \in Int
          /\ B * l1 \in Int /\ B * l2 \in Int
      OBVIOUS
    <3> QED BY <3>1
  <2> QED BY <1>1, <1>3, <2>1, <2>2, <2>3
<1>5. X = Y + m * Order
  <2>1. PICK n1 \in Int, n2 \in Int, n3 \in Int, n4 \in Int, n5 \in Int :
           n1 = k1 * Order /\ n2 = k2 * Order /\ n3 = k3 * Order /\ n4 = k4 * Order /\ n5 = k5 * Order
    <3>1. /\ k1 * Order \in Int /\ k2 * Order \in Int /\ k3 * Order \in Int
          /\ k4 * Order \in Int /\ k5 * Order \in Int
      BY OrderIs
    <3> QED BY <3>1
  <2>2. m * Order = n1 + n2 - n3 + n4 + n5
    BY <1>3, <2>1, OrderIs
  <2>3. r = -o + n4
    BY <1>1, <1>2, <2>1
  <2> QED BY <1>2, <1>3, <1>4, <2>1, <2>2, <2>3
<1>6. Same(X, Y)
  BY <1>5, SameIff
<1> QED BY <1>3, <1>6

\* The point of the balance proof commits to the surplus, under the difference of the blindings.
LEMMA BalanceIs ==
    ASSUME NEW ins \in UpToTwoOpenings, NEW outs \in UpToTwoOpenings, NEW d \in Int, NEW w \in Int,
           NEW X, X = BalancePoint(ins, outs, d, w)
    PROVE  /\ Surplus(ins, outs, d, w) \in Int /\ Difference(ins, outs) \in Int /\ X \in Points
           /\ \A b \in Generator :
                 /\ ValueBase[b] \in Int /\ BlindingBase[b] \in Int /\ X[b] \in Int
                 /\ Same(X[b], ValueBase[b] * Surplus(ins, outs, d, w)
                                  + BlindingBase[b] * Difference(ins, outs))
<1>1. PICK n \in Nat : ins \in [1..n -> Opening]
  BY FewOpenings
<1>2. PICK m \in Nat : outs \in [1..m -> Opening]
  BY FewOpenings
<1>3. PICK a1, l1, P, a2, l2, O : /\ a1 = Amounts(ins) /\ l1 = Blindings(ins) /\ P = HiddenIn(ins)
                                  /\ a2 = Amounts(outs) /\ l2 = Blindings(outs) /\ O = HiddenIn(outs)
  OBVIOUS
<1>4. /\ a1 \in Int /\ l1 \in Int /\ P \in Points
      /\ \A b \in Generator : P[b] \in Int /\ Same(P[b], ValueBase[b] * a1 + BlindingBase[b] * l1)
  BY <1>1, <1>3, HiddenSum
<1>5. /\ a2 \in Int /\ l2 \in Int /\ O \in Points
      /\ \A b \in Generator : O[b] \in Int /\ Same(O[b], ValueBase[b] * a2 + BlindingBase[b] * l2)
  BY <1>2, <1>3, HiddenSum
<1>6. PICK k \in Int, e \in Int : k = -1 /\ e = -w
  <2>1. -w \in Int /\ -1 \in Int
    OBVIOUS
  <2> QED BY <2>1
<1>7. ValueBase \in Combinations /\ BlindingBase \in Combinations /\ P \in Combinations /\ O \in Combinations
  BY <1>4, <1>5, Bases, PointsCombine
<1>8. PICK Q, R, S : Q = Times(d, ValueBase) /\ R = Times(k, O) /\ S = Times(e, ValueBase)
  OBVIOUS
<1>9. /\ Q \in Points /\ R \in Points /\ S \in Points
      /\ \A b \in Generator : /\ Q[b] \in Int /\ R[b] \in Int /\ S[b] \in Int
                              /\ Same(Q[b], ValueBase[b] * d) /\ Same(R[b], O[b] * k)
                              /\ Same(S[b], ValueBase[b] * e)
  BY <1>6, <1>7, <1>8, TimesIs
<1>10. X = Add(<<P, Q, R, S>>)
  BY <1>3, <1>6, <1>8, Zenon DEF BalancePoint, HiddenIn
<1>11. /\ X \in Points
       /\ \A b \in Generator : X[b] \in Int /\ Same(X[b], P[b] + Q[b] + R[b] + S[b])
  <2>1. Q \in Combinations /\ R \in Combinations /\ S \in Combinations
    BY <1>9, PointsCombine
  <2> QED BY <1>7, <1>10, <2>1, FourAdd
<1>12. Surplus(ins, outs, d, w) = a1 + d - a2 - w /\ Difference(ins, outs) = l1 - l2
  BY <1>3 DEF Surplus, Difference
<1>13. ASSUME NEW b \in Generator
       PROVE  /\ ValueBase[b] \in Int /\ BlindingBase[b] \in Int
              /\ Same(X[b], ValueBase[b] * (a1 + d - a2 - w) + BlindingBase[b] * (l1 - l2))
  <2>1. PICK V \in Int, B \in Int : V = ValueBase[b] /\ B = BlindingBase[b]
    BY <1>7 DEF Combinations
  <2>2. PICK p \in Int, q \in Int, r \in Int, s \in Int, o \in Int :
           p = P[b] /\ q = Q[b] /\ r = R[b] /\ s = S[b] /\ o = O[b]
    BY <1>4, <1>5, <1>9
  <2>3. /\ Same(p, V * a1 + B * l1) /\ Same(q, V * d) /\ Same(o, V * a2 + B * l2) /\ Same(r, o * (-1))
        /\ Same(s, V * (-w))
    BY <1>4, <1>5, <1>6, <1>9, <2>1, <2>2
  <2>4. Same(p + q + r + s, V * (a1 + d - a2 - w) + B * (l1 - l2))
    BY <1>4, <1>5, <2>3, BalanceTerms, ZenonT(60)
  <2> QED BY <1>11, <2>1, <2>2, <2>4 DEF Same
<1> QED BY <1>4, <1>5, <1>11, <1>12, <1>13

-----------------------------------------------------------------------------
\* The prover goes on just when the balance has no surplus.
LEMMA BalanceEqual ==
    ASSUME NEW ins \in UpToTwoOpenings, NEW outs \in UpToTwoOpenings, NEW d \in Int, NEW w \in Int,
           NEW X, X = BalancePoint(ins, outs, d, w),
           NEW e, e = Difference(ins, outs) % Order
    PROVE  /\ X \in Points /\ e \in Int
           /\ (X = Times(e, BlindingBase)) <=> (Surplus(ins, outs, d, w) % Order) = 0
<1>1. PICK k, l : k = Surplus(ins, outs, d, w) /\ l = Difference(ins, outs)
  OBVIOUS
<1>2. /\ k \in Int /\ l \in Int /\ X \in Points
      /\ \A b \in Generator :
            /\ ValueBase[b] \in Int /\ BlindingBase[b] \in Int /\ X[b] \in Int
            /\ Same(X[b], ValueBase[b] * k + BlindingBase[b] * l)
  BY <1>1, BalanceIs
<1>3. e \in Int /\ Same(e, l)
  BY <1>1, <1>2, SameRest
<1>4. PICK Y : Y = Times(e, BlindingBase)
  OBVIOUS
<1>5. Y \in Points /\ \A b \in Generator : Y[b] \in Int /\ Same(Y[b], BlindingBase[b] * e)
  <2>1. BlindingBase \in Combinations
    BY Bases, PointsCombine
  <2> QED BY <1>3, <1>4, <2>1, TimesIs
<1>6. ASSUME X = Y PROVE (k % Order) = 0
  <2>1. PICK b \in Generator : ValueBase[b] = 1 /\ BlindingBase[b] = 0
    <3>1. <<"H", 0>> \in Generator /\ <<"H", 0>> # <<"G", 0>>
      BY Bases
    <3> QED BY <3>1, Bases
  <2>2. ValueBase[b] * k + BlindingBase[b] * l = k /\ BlindingBase[b] * e = 0
    BY <1>2, <1>3, <2>1
  <2>3. Same(X[b], k) /\ Same(Y[b], 0)
    <3>1. Same(X[b], ValueBase[b] * k + BlindingBase[b] * l) /\ Same(Y[b], BlindingBase[b] * e)
      BY <1>2, <1>5
    <3> QED BY <2>2, <3>1
  <2>4. Same(k, 0)
    BY <1>6, <2>3 DEF Same
  <2> QED BY <1>2, <2>4, SameRests
<1>7. ASSUME (k % Order) = 0 PROVE X = Y
  <2>1. ASSUME NEW b \in Generator PROVE Same(X[b], Y[b])
    <3>1. PICK V \in Int, B \in Int : V = ValueBase[b] /\ B = BlindingBase[b]
      BY <1>2
    <3>2. Same(k, 0)
      BY <1>2, <1>7, SameRests
    <3>9. PICK o \in Int : o = 0
      OBVIOUS
    <3>10. Same(k * V, o * V)
      <4>1. Same(k, o) /\ k \in Int
        BY <1>2, <3>2, <3>9
      <4> QED BY <4>1, SameTimes
    <3>3. Same(e * B, l * B)
      BY <1>2, <1>3, SameTimes
    <3>4. PICK kv \in Int, eb \in Int, lb \in Int : kv = V * k /\ eb = B * e /\ lb = B * l
      <4>1. V * k \in Int /\ B * e \in Int /\ B * l \in Int
        BY <1>2, <1>3
      <4> QED BY <4>1
    <3>5. Same(kv, 0) /\ Same(eb, lb)
      <4>1. k * V = kv /\ o * V = 0 /\ e * B = eb /\ l * B = lb
        BY <1>2, <1>3, <3>4, <3>9
      <4> QED BY <3>3, <3>10, <4>1
    <3>6. Same(kv + lb, 0 + lb)
      <4>1. Same(lb, lb) /\ 0 \in Int
        BY DEF Same
      <4> QED BY <3>5, <4>1, SameSum
    <3>7. 0 + lb = lb
      OBVIOUS
    <3>8. Same(X[b], kv + lb) /\ Same(Y[b], eb)
      BY <1>2, <1>5, <3>1, <3>4
    <3> QED BY <3>5, <3>6, <3>7, <3>8 DEF Same
  <2> QED BY <1>2, <1>5, <2>1, SamePoints
<1> QED BY <1>1, <1>2, <1>3, <1>4, <1>6, <1>7

\* BalanceProofV3's equation holds of what the prover answers.
BalanceAnswered(X, R, t, c, e, n) ==
    /\ X = Times(e, BlindingBase) /\ R = Times(n, BlindingBase) /\ t = (n + c * e) % Order

\* The answer to the balance challenge satisfies the contract's equation.
LEMMA BalanceHolds ==
    ASSUME NEW X, NEW R, NEW t, NEW c \in Int, NEW e \in Int, NEW n \in Int,
           BalanceAnswered(X, R, t, c, e, n)
    PROVE  Times(t, BlindingBase) = Multi(<<R, X>>, <<1, c>>)
<1>1. X = Times(e, BlindingBase) /\ R = Times(n, BlindingBase) /\ t = (n + c * e) % Order
  BY DEF BalanceAnswered
<1>2. PICK f \in Int : f = n + c * e
  <2>1. n + c * e \in Int
    OBVIOUS
  <2> QED BY <2>1
<1>3. t \in Int /\ Same(t, f)
  BY <1>1, <1>2, SameRest
<1>4. BlindingBase \in Combinations
  BY Bases, PointsCombine
<1>5. /\ X \in Points /\ R \in Points
      /\ \A b \in Generator : /\ X[b] \in Int /\ R[b] \in Int
                              /\ Same(X[b], BlindingBase[b] * e) /\ Same(R[b], BlindingBase[b] * n)
  BY <1>1, <1>4, TimesIs
<1>6. PICK P, Q : P = Times(t, BlindingBase) /\ Q = Multi(<<R, X>>, <<1, c>>)
  OBVIOUS
<1>7. P \in Points /\ \A b \in Generator : P[b] \in Int /\ Same(P[b], BlindingBase[b] * t)
  BY <1>3, <1>4, <1>6, TimesIs
<1>8. /\ Q \in Points
      /\ \A b \in Generator : Q[b] \in Int /\ Same(Q[b], (R[b] * 1) + (X[b] * c))
  <2>1. PICK k \in Int : k = 1
    OBVIOUS
  <2>2. R \in Combinations /\ X \in Combinations
    BY <1>5, PointsCombine
  <2>3. /\ Multi(<<R, X>>, <<k, c>>) \in Points
        /\ \A b \in Generator : /\ Multi(<<R, X>>, <<k, c>>)[b] \in Int
                                /\ Same(Multi(<<R, X>>, <<k, c>>)[b], (R[b] * k) + (X[b] * c))
    BY <2>2, TwoMulti
  <2> QED BY <1>6, <2>1, <2>3
<1>9. ASSUME NEW b \in Generator PROVE Same(P[b], Q[b])
  <2>1. PICK B \in Int, x \in Int, r \in Int : B = BlindingBase[b] /\ x = X[b] /\ r = R[b]
    BY <1>4, <1>5 DEF Combinations
  <2>2. PICK be \in Int, bn \in Int, bf \in Int, bt \in Int :
           be = B * e /\ bn = B * n /\ bf = B * f /\ bt = B * t
    <3>1. B * e \in Int /\ B * n \in Int /\ B * f \in Int /\ B * t \in Int
      BY <1>3
    <3> QED BY <3>1
  <2>3. Same(x, be) /\ Same(r, bn) /\ Same(P[b], bt)
    BY <1>5, <1>7, <2>1, <2>2
  <2>4. Same(bt, bf)
    <3>1. Same(t * B, f * B)
      BY <1>3, SameTimes
    <3>2. t * B = bt /\ f * B = bf
      BY <1>3, <2>2
    <3> QED BY <3>1, <3>2
  <2>5. PICK xc \in Int, bc \in Int : xc = x * c /\ bc = be * c
    <3>1. x * c \in Int /\ be * c \in Int
      OBVIOUS
    <3> QED BY <3>1
  <2>6. Same(xc, bc)
    BY <2>3, <2>5, SameTimes
  <2>7. Same(r + xc, bn + bc)
    BY <2>3, <2>6, SameSum
  <2>8. bn + bc = bf
    <3>1. bc = B * (c * e)
      BY <2>2, <2>5
    <3>2. B * (n + c * e) = B * n + B * (c * e)
      OBVIOUS
    <3> QED BY <1>2, <2>2, <3>1, <3>2
  <2>9. Same(Q[b], r + xc)
    <3>1. r * 1 = r
      OBVIOUS
    <3> QED BY <1>8, <2>1, <2>5, <3>1
  <2> QED BY <2>3, <2>4, <2>7, <2>8, <2>9 DEF Same
<1> QED BY <1>6, <1>7, <1>8, <1>9, SamePoints

-----------------------------------------------------------------------------
\* The prover of a balance either refuses or answers.
BalanceStarted(new, X, k) == new = [stage |-> "balance", X |-> X, surplus |-> k]

Begun(ins, outs, d, w, s, new, tr, was, is) ==
    \E X, e, R, old :
       /\ X = BalancePoint(ins, outs, d, w) /\ e = Difference(ins, outs) % Order
       /\ R = Times(s.nonce, BlindingBase) /\ BalanceStarted(old, X, Surplus(ins, outs, d, w))
       /\ \/ /\ X # Times(e, BlindingBase) /\ is = "refused" /\ new = old
          \/ /\ X = Times(e, BlindingBase) /\ is = was
             /\ \E c, t : /\ c \in Answer /\ t = (s.nonce + c * e) % Order
                          /\ new = With(old, [R |-> R, s |-> t])
                          /\ tr = <<<<"balance", <<X, R>>, c>>>>

\* What the start of a balance proof leaves: a refusal, or the answer.
LEMMA BalanceTaken ==
    ASSUME NEW ins, NEW outs, NEW d, NEW w, NEW s, StartBalance(ins, outs, d, w, s)
    PROVE  Begun(ins, outs, d, w, s, job', transcript', verdict, verdict')
<1> DEFINE X == BalancePoint(ins, outs, d, w)
           e == Difference(ins, outs) % Order
           R == Times(s.nonce, BlindingBase)
           old == [stage |-> "balance", X |-> X, surplus |-> Surplus(ins, outs, d, w)]
<1>1. BalanceStarted(old, X, Surplus(ins, outs, d, w))
  BY DEF BalanceStarted
<1>2. \/ /\ X # Times(e, BlindingBase) /\ verdict' = "refused" /\ job' = old
      \/ /\ X = Times(e, BlindingBase) /\ verdict' = verdict
         /\ \E c, t : /\ c \in Answer /\ t = (s.nonce + c * e) % Order
                      /\ job' = With(old, [R |-> R, s |-> t])
                      /\ transcript' = <<<<"balance", <<X, R>>, c>>>>
  <2>1. CASE X # Times(e, BlindingBase)
    BY <2>1, Zenon DEF StartBalance, Surplus, Difference, Amounts, Blindings
  <2>2. CASE X = Times(e, BlindingBase)
    BY <2>2, Zenon DEF StartBalance, Surplus, Difference, Amounts, Blindings
  <2> QED BY <2>1, <2>2
<1> QED BY <1>1, <1>2, Zenon DEF Begun

BalanceRefused(j) == j.stage = "balance" /\ (j.surplus % Order) # 0
BalanceOpen(j, tr) ==
    /\ j.stage = "balance" /\ (j.surplus % Order) = 0
    /\ Times(j.s, BlindingBase) = Multi(<<j.R, j.X>>, <<1, tr[1][3]>>)

\* An unbalanced transaction is refused, for another the equation holds.
LEMMA BalanceReaches ==
    ASSUME NEW ins \in UpToTwoOpenings, NEW outs \in UpToTwoOpenings, NEW d \in Public, NEW w \in Public,
           NEW s \in Secret, StartBalance(ins, outs, d, w, s)
    PROVE  \/ verdict' = "refused" /\ BalanceRefused(job')
           \/ verdict' = verdict /\ BalanceOpen(job', transcript')
<1>8. Begun(ins, outs, d, w, s, job', transcript', verdict, verdict')
  BY BalanceTaken
<1>1. PICK X, e, R, old :
         /\ X = BalancePoint(ins, outs, d, w) /\ e = Difference(ins, outs) % Order
         /\ R = Times(s.nonce, BlindingBase) /\ BalanceStarted(old, X, Surplus(ins, outs, d, w))
         /\ \/ /\ X # Times(e, BlindingBase) /\ verdict' = "refused" /\ job' = old
            \/ /\ X = Times(e, BlindingBase) /\ verdict' = verdict
               /\ \E c, t : /\ c \in Answer /\ t = (s.nonce + c * e) % Order
                            /\ job' = With(old, [R |-> R, s |-> t])
                            /\ transcript' = <<<<"balance", <<X, R>>, c>>>>
  BY <1>8, Zenon DEF Begun
<1>2. d \in Int /\ w \in Int
  BY ProofAssumption
<1>3. /\ X \in Points /\ e \in Int
      /\ (X = Times(e, BlindingBase)) <=> (Surplus(ins, outs, d, w) % Order) = 0
  BY <1>1, <1>2, BalanceEqual
<1>4. PICK k : k = Surplus(ins, outs, d, w)
  OBVIOUS
<1>5. /\ old.stage = "balance" /\ old.X = X /\ old.surplus = k
      /\ {"stage", "X", "surplus"} \subseteq DOMAIN old
  <2>1. old = [stage |-> "balance", X |-> X, surplus |-> k]
    BY <1>1, <1>4, Zenon DEF BalanceStarted
  <2> QED BY <2>1
<1>6. CASE X # Times(e, BlindingBase)
  <2>1. verdict' = "refused" /\ job' = old /\ (k % Order) # 0
    BY <1>1, <1>3, <1>4, <1>6, Zenon
  <2>2. BalanceRefused(job')
    BY <1>5, <2>1, Zenon DEF BalanceRefused
  <2> QED BY <2>1, <2>2
<1>7. CASE X = Times(e, BlindingBase)
  <2>1. verdict' = verdict /\ (k % Order) = 0
    BY <1>1, <1>3, <1>4, <1>7, Zenon
  <2>2. PICK c, t : /\ c \in Answer /\ t = (s.nonce + c * e) % Order
                    /\ job' = With(old, [R |-> R, s |-> t])
                    /\ transcript' = <<<<"balance", <<X, R>>, c>>>>
    BY <1>1, <1>7, Zenon
  <2>3. PICK new, f : new = job' /\ f = [R |-> R, s |-> t]
    OBVIOUS
  <2>4. new.stage = "balance" /\ new.X = X /\ new.surplus = k /\ new.R = R /\ new.s = t
    <3>1. new = With(old, f)
      BY <2>2, <2>3, Zenon
    <3>2. Over(new, old, f)
      BY <3>1, LaidOver
    <3>3. new.stage = old.stage /\ new.X = old.X /\ new.surplus = old.surplus /\ new.R = R /\ new.s = t
      BY <1>5, <2>3, <3>2, ToBalance
    <3> QED BY <1>5, <3>3
  <2>5. PICK n \in Int : n = s.nonce
    BY SecretsAre
  <2>6. Times(t, BlindingBase) = Multi(<<R, X>>, <<1, c>>)
    <3>1. BalanceAnswered(X, R, t, c, e, n)
      BY <1>1, <1>7, <2>2, <2>5, Zenon DEF BalanceAnswered
    <3>2. c \in Int
      BY <2>2, AnswerIs
    <3> QED BY <1>3, <3>1, <3>2, BalanceHolds
  <2>7. transcript'[1][3] = c
    <3>1. PICK tr, x : tr = transcript' /\ x = <<X, R>>
      OBVIOUS
    <3>2. tr = <<<<"balance", x, c>>>>
      BY <2>2, <3>1, Zenon
    <3>3. tr[1][3] = c
      BY <3>2
    <3> QED BY <3>1, <3>3, Zenon
  <2>8. BalanceOpen(job', transcript')
    <3>1. Times(new.s, BlindingBase) = Multi(<<new.R, new.X>>, <<1, transcript'[1][3]>>)
      BY <2>4, <2>6, <2>7, Zenon
    <3> QED BY <2>1, <2>3, <2>4, <3>1, Zenon DEF BalanceOpen
  <2> QED BY <2>1, <2>8
<1> QED BY <1>6, <1>7

-----------------------------------------------------------------------------
\* What is true between two steps: while a proof is made, the prover's memory
\* is one from which the verifier computes the same (AtPolynomial, AtInner,
\* AtFold, BalanceOpen); what was refused was false.
AtRest == job = NoJob /\ verdict = "none"
RangeRefused == job.stage = "range" /\ verdict = "refused" /\ job.amount \notin 1..MaxAmount
BeforePolynomial == job.stage = "polynomial" /\ verdict = "none" /\ AtPolynomial(job, transcript)
BeforeInner == job.stage = "inner" /\ verdict = "none" /\ AtInner(job, transcript)
BeforeVerify == job.stage = "fold" /\ verdict \in {"none", "accepted"} /\ AtFold(job, transcript)
Unbalanced == verdict = "refused" /\ BalanceRefused(job)
Balanced == verdict \in {"none", "accepted"} /\ BalanceOpen(job, transcript)

ProofInv ==
    \/ AtRest \/ RangeRefused \/ BeforePolynomial \/ BeforeInner \/ BeforeVerify \/ Unbalanced \/ Balanced

\* The stage that each part of the invariant is about.
LEMMA StageOf ==
    /\ AtRest => job.stage = "none" /\ verdict = "none"
    /\ RangeRefused => job.stage = "range"
    /\ BeforePolynomial => job.stage = "polynomial"
    /\ BeforeInner => job.stage = "inner"
    /\ BeforeVerify => job.stage = "fold"
    /\ Unbalanced => job.stage = "balance" /\ verdict # "none"
    /\ Balanced => job.stage = "balance"
BY DEF AtRest, NoJob, RangeRefused, BeforePolynomial, BeforeInner, BeforeVerify, Unbalanced, Balanced,
       BalanceRefused, BalanceOpen

\* The invariant at each stage.
LEMMA StageTells ==
    ASSUME ProofInv
    PROVE  /\ job.stage = "none" => AtRest
           /\ job.stage = "polynomial" => BeforePolynomial
           /\ job.stage = "inner" => BeforeInner
           /\ job.stage = "fold" => BeforeVerify
           /\ job.stage = "balance" /\ verdict = "none" => Balanced
BY StageOf DEF ProofInv

\* The invariant is enough.
LEMMA ProofInvSays ==
    ASSUME ProofInv
    PROVE  ProvedIffTrue
<1>1. CASE AtRest
  BY <1>1 DEF AtRest, ProvedIffTrue
<1>2. CASE RangeRefused
  BY <1>2 DEF RangeRefused, ProvedIffTrue
<1>3. CASE BeforePolynomial
  BY <1>3 DEF BeforePolynomial, ProvedIffTrue
<1>4. CASE BeforeInner
  BY <1>4 DEF BeforeInner, ProvedIffTrue
<1>5. CASE BeforeVerify
  <2>1. job.amount \in 1..MaxAmount
    BY <1>5, Zenon DEF BeforeVerify, AtFold, Proving
  <2> QED BY <1>5, <2>1 DEF BeforeVerify, ProvedIffTrue
<1>6. CASE Unbalanced
  BY <1>6 DEF Unbalanced, BalanceRefused, ProvedIffTrue
<1>7. CASE Balanced
  BY <1>7 DEF Balanced, BalanceOpen, ProvedIffTrue
<1> QED BY <1>1, <1>2, <1>3, <1>4, <1>5, <1>6, <1>7 DEF ProofInv

\* Every step keeps the invariant.
LEMMA ProofInvKept ==
    ASSUME ProofInv, [NextProof]_varsProof
    PROVE  ProofInv'
<1>1. ASSUME NEW a \in Amount, NEW s \in Secret, StartRange(a, s) PROVE ProofInv'
  <2>1. verdict = "none"
    BY <1>1 DEF StartRange
  <2>2. CASE a \notin 1..MaxAmount
    <3>1. verdict' = "refused" /\ job' = [stage |-> "range", amount |-> a]
      BY <1>1, <2>2, StartTaken
    <3>2. RangeRefused'
      BY <2>2, <3>1 DEF RangeRefused
    <3> QED BY <3>2 DEF ProofInv
  <2>3. CASE a \in 1..MaxAmount
    <3>1. verdict' = verdict /\ Started(a, s, job', transcript')
      BY <1>1, <2>3, StartTaken
    <3>2. AtPolynomial(job', transcript') /\ job'.stage = "polynomial"
      BY <2>3, <3>1, StartReaches
    <3>3. BeforePolynomial'
      BY <2>1, <3>1, <3>2 DEF BeforePolynomial
    <3> QED BY <3>3 DEF ProofInv
  <2> QED BY <2>2, <2>3
<1>2. ASSUME Polynomial PROVE ProofInv'
  <2>1. BeforePolynomial
    BY <1>2, StageTells DEF Polynomial
  <2>2. AtInner(job', transcript') /\ job'.stage = "inner" /\ verdict' = verdict
    BY <1>2, <2>1, PolynomialReaches DEF BeforePolynomial
  <2>3. BeforeInner'
    BY <2>1, <2>2 DEF BeforePolynomial, BeforeInner
  <2> QED BY <2>3 DEF ProofInv
<1>3. ASSUME Inner PROVE ProofInv'
  <2>1. BeforeInner
    BY <1>3, StageTells DEF Inner
  <2>2. AtFold(job', transcript') /\ job'.stage = "fold" /\ verdict' = verdict
    BY <1>3, <2>1, InnerReaches DEF BeforeInner
  <2>3. BeforeVerify'
    BY <2>1, <2>2 DEF BeforeInner, BeforeVerify
  <2> QED BY <2>3 DEF ProofInv
<1>4. ASSUME FoldRound PROVE ProofInv'
  <2>1. BeforeVerify
    BY <1>4, StageTells DEF FoldRound
  <2>2. AtFold(job', transcript') /\ job'.stage = "fold" /\ verdict' = verdict
    BY <1>4, <2>1, FoldReaches DEF BeforeVerify
  <2>3. BeforeVerify'
    BY <2>1, <2>2 DEF BeforeVerify
  <2> QED BY <2>3 DEF ProofInv
<1>5. ASSUME VerifyRange PROVE ProofInv'
  <2>1. BeforeVerify
    BY <1>5, StageTells DEF VerifyRange
  <2>2. verdict' = "accepted" /\ job' = job /\ transcript' = transcript
    BY <1>5, <2>1, VerifyReaches DEF BeforeVerify
  <2>3. BeforeVerify'
    BY <2>1, <2>2 DEF BeforeVerify
  <2> QED BY <2>3 DEF ProofInv
<1>6. ASSUME NEW ins \in UpToTwoOpenings, NEW outs \in UpToTwoOpenings, NEW d \in Public, NEW w \in Public,
             NEW s \in Secret, StartBalance(ins, outs, d, w, s)
      PROVE  ProofInv'
  <2>1. verdict = "none"
    BY <1>6 DEF StartBalance
  <2>2. \/ verdict' = "refused" /\ BalanceRefused(job')
        \/ verdict' = verdict /\ BalanceOpen(job', transcript')
    BY <1>6, BalanceReaches
  <2>3. Unbalanced' \/ Balanced'
    BY <2>1, <2>2 DEF Unbalanced, Balanced
  <2> QED BY <2>3 DEF ProofInv
<1>7. ASSUME VerifyBalance PROVE ProofInv'
  <2>1. Balanced
    BY <1>7, StageTells DEF VerifyBalance
  <2>2. verdict' = "accepted" /\ job' = job /\ transcript' = transcript
    BY <1>7, <2>1, Zenon DEF VerifyBalance, Balanced, BalanceOpen
  <2>3. Balanced'
    BY <2>1, <2>2 DEF Balanced
  <2> QED BY <2>3 DEF ProofInv
<1>8. CASE UNCHANGED varsProof
  <2>1. job' = job /\ transcript' = transcript /\ verdict' = verdict
    BY <1>8 DEF varsProof
  <2> QED BY <2>1 DEF ProofInv, AtRest, RangeRefused, BeforePolynomial, BeforeInner, BeforeVerify,
                      Unbalanced, Balanced
<1> QED BY <1>1, <1>2, <1>3, <1>4, <1>5, <1>6, <1>7, <1>8 DEF NextProof

\* What the client proves the contracts accept, and it proves exactly what is true,
\* for every order, width, amount, secret and answer.
THEOREM ProvedExactlyWhatIsTrue == SpecProof => []ProvedIffTrue
<1>1. InitProof => ProofInv
  BY DEF InitProof, ProofInv, AtRest
<1>2. ProofInv /\ [NextProof]_varsProof => ProofInv'
  BY ProofInvKept
<1>3. ProofInv => ProvedIffTrue
  BY ProofInvSays
<1> QED BY <1>1, <1>2, <1>3, PTL DEF SpecProof

==============================================================================
