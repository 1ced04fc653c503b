--------------------------- MODULE BalancesProofs ---------------------------
(***************************************************************************)
(* Facts about the sums of module Balances, for every N.  Induction over   *)
(* the addresses is done with sets: the set of the numbers a statement     *)
(* holds for contains 0 and is closed under successor.                     *)
(***************************************************************************)
EXTENDS Balances, TLAPS, WellFoundedInduction

\* A set of numbers that contains 0 and, below n, every successor of a member
\* contains all of 0..n.
LEMMA UpToInduction ==
    ASSUME NEW n \in Nat, NEW T, 0 \in T,
           \A i \in 0..(n - 1) : i \in T => i + 1 \in T
    PROVE  0..n \subseteq T
<1> DEFINE Bad == {i \in 0..n : i \notin T}
           Less == OpToRel(<, Nat)
<1>1. SUFFICES ASSUME Bad # {} PROVE FALSE
  OBVIOUS
<1>2. IsWellFoundedOn(Less, Nat)
  BY NatLessThanWellFounded
<1>3. Bad \subseteq Nat
  OBVIOUS
<1> HIDE DEF Less, Bad
<1>4. PICK x \in Bad : \A y \in Bad : ~(<<y, x>> \in Less)
  BY <1>1, <1>2, <1>3, WFMin
<1> USE DEF Bad
<1>5. x # 0 /\ x - 1 \in 0..(n - 1) /\ x - 1 \in Nat /\ x \in Nat
  OBVIOUS
<1>6. x - 1 \notin T
  BY <1>5
<1>7. x - 1 \in Bad
  BY <1>5, <1>6
<1>8. <<x - 1, x>> \in Less
  BY <1>5 DEF Less, OpToRel
<1>9. QED
  BY <1>4, <1>7, <1>8

\* The recursive definition of PartialSums has a solution: the running sum
\* starts at 0 and each address adds its own value.
LEMMA PartialSumsDef ==
    ASSUME NEW f \in [Address -> Int]
    PROVE  /\ PartialSums(f) \in [0..N -> Int]
           /\ PartialSums(f)[0] = 0
           /\ \A n \in Address : PartialSums(f)[n] = PartialSums(f)[n - 1] + f[n]
<1> USE NAssumption DEF Address
<1> DEFINE IsSum(s, m) ==
             \A n \in 0..m : s[n] = IF n = 0 THEN 0 ELSE s[n - 1] + f[n]
           T == {m \in 0..N : \E s \in [0..m -> Int] : IsSum(s, m)}
<1>1. 0 \in T
  <2> DEFINE s == [n \in 0..0 |-> 0]
  <2>1. s \in [0..0 -> Int] /\ IsSum(s, 0)
    OBVIOUS
  <2> HIDE DEF s, IsSum
  <2>2. \E z \in [0..0 -> Int] : IsSum(z, 0)
    BY <2>1
  <2>3. QED
    BY <2>2
<1>2. ASSUME NEW m \in 0..(N - 1), m \in T PROVE m + 1 \in T
  <2>1. PICK s \in [0..m -> Int] : IsSum(s, m)
    BY <1>2
  <2> DEFINE t == [n \in 0..(m + 1) |-> IF n = m + 1 THEN s[m] + f[m + 1] ELSE s[n]]
  <2>2. t \in [0..(m + 1) -> Int]
    OBVIOUS
  <2>3. IsSum(t, m + 1)
    <3> SUFFICES ASSUME NEW n \in 0..(m + 1)
                 PROVE  t[n] = IF n = 0 THEN 0 ELSE t[n - 1] + f[n]
      OBVIOUS
    <3>1. CASE n = m + 1
      BY <3>1
    <3>2. CASE n \in 0..m
      <4>1. s[n] = IF n = 0 THEN 0 ELSE s[n - 1] + f[n]
        BY <2>1, <3>2
      <4>2. QED
        BY <3>2, <4>1
    <3>3. QED
      BY <3>1, <3>2
  <2> HIDE DEF t, IsSum
  <2>4. \E z \in [0..(m + 1) -> Int] : IsSum(z, m + 1)
    BY <2>2, <2>3
  <2>5. QED
    BY <2>4
<1>3. N \in T
  <2> HIDE DEF T
  <2>1. 0..N \subseteq T
    BY <1>1, <1>2, UpToInduction
  <2>2. QED
    BY <2>1
<1>4. PICK s \in [0..N -> Int] : IsSum(s, N)
  BY <1>3
<1>5. s = [n \in 0..N |-> IF n = 0 THEN 0 ELSE s[n - 1] + f[n]]
  BY <1>4
<1> DEFINE g == PartialSums(f)
       step == [n \in 0..N |-> IF n = 0 THEN 0 ELSE g[n - 1] + f[n]]
<1>6. g = step
  BY <1>5 DEF PartialSums
<1> HIDE DEF g
<1>7. g[0] = 0 /\ \A n \in 1..N : g[n] = g[n - 1] + f[n]
  <2>1. step[0] = 0
    OBVIOUS
  <2>2. ASSUME NEW n \in 1..N PROVE step[n] = g[n - 1] + f[n]
    <3>1. n \in 0..N /\ n # 0
      OBVIOUS
    <3>2. QED
      BY ONLY <3>1
  <2> HIDE DEF step
  <2>3. QED
    BY <1>6, <2>1, <2>2
<1> DEFINE U == {m \in 0..N : g[m] \in Int}
<1>8. 0 \in U
  BY <1>7
<1>9. \A m \in 0..(N - 1) : m \in U => m + 1 \in U
  <2> SUFFICES ASSUME NEW m \in 0..(N - 1), m \in U PROVE m + 1 \in U
    OBVIOUS
  <2>1. m + 1 \in 1..N /\ (m + 1) - 1 = m /\ m + 1 \in 0..N
    OBVIOUS
  <2>2. g[m + 1] = g[m] + f[m + 1]
    BY <1>7, <2>1
  <2>3. f[m + 1] \in Int /\ g[m] \in Int
    BY <2>1
  <2>4. QED
    BY <2>1, <2>2, <2>3
<1>10. 0..N \subseteq U
  <2> HIDE DEF U
  <2> QED BY <1>8, <1>9, UpToInduction
<1>11. g \in [0..N -> Int]
  <2>1. step \in [0..N -> Int]
    <3> SUFFICES ASSUME NEW n \in 0..N, n # 0 PROVE g[n - 1] + f[n] \in Int
      OBVIOUS
    <3>1. n - 1 \in 0..N /\ n \in 1..N
      OBVIOUS
    <3>2. g[n - 1] \in Int /\ f[n] \in Int
      BY <1>10, <3>1
    <3>3. QED
      BY <3>2
  <2> HIDE DEF step
  <2>2. QED
    BY <1>6, <2>1
<1>12. QED
  BY <1>7, <1>11 DEF g

\* The running sums of a pointwise sum are the sums of the running sums.
LEMMA PartialSumsAdd ==
    ASSUME NEW f \in [Address -> Int], NEW g \in [Address -> Int],
           NEW h \in [Address -> Int], \A a \in Address : h[a] = f[a] + g[a],
           NEW m \in 0..N
    PROVE  PartialSums(h)[m] = PartialSums(f)[m] + PartialSums(g)[m]
<1> USE NAssumption DEF Address
<1> DEFINE F == PartialSums(f)
           G == PartialSums(g)
           H == PartialSums(h)
           T == {n \in 0..N : H[n] = F[n] + G[n]}
<1>1. /\ F \in [0..N -> Int] /\ F[0] = 0 /\ \A n \in Address : F[n] = F[n - 1] + f[n]
      /\ G \in [0..N -> Int] /\ G[0] = 0 /\ \A n \in Address : G[n] = G[n - 1] + g[n]
      /\ H \in [0..N -> Int] /\ H[0] = 0 /\ \A n \in Address : H[n] = H[n - 1] + h[n]
  BY PartialSumsDef
<1> HIDE DEF F, G, H
<1>2. 0 \in T
  BY <1>1
<1>3. \A n \in 0..(N - 1) : n \in T => n + 1 \in T
  <2> SUFFICES ASSUME NEW n \in 0..(N - 1), n \in T PROVE n + 1 \in T
    OBVIOUS
  <2>0. n + 1 \in Address /\ (n + 1) - 1 = n /\ n \in 0..N
    OBVIOUS
  <2>1. F[n] \in Int /\ G[n] \in Int /\ f[n + 1] \in Int /\ g[n + 1] \in Int
    BY <1>1, <2>0
  <2>2. /\ F[n + 1] = F[n] + f[n + 1]
        /\ G[n + 1] = G[n] + g[n + 1]
        /\ H[n + 1] = H[n] + h[n + 1]
    BY <1>1, <2>0
  <2>3. H[n + 1] = F[n + 1] + G[n + 1]
    BY <2>1, <2>2
  <2>4. QED
    BY <2>3
<1>4. m \in T
  <2> HIDE DEF T
  <2>1. 0..N \subseteq T
    BY <1>2, <1>3, UpToInduction
  <2>2. QED
    BY <2>1
<1>5. QED
  BY <1>4 DEF F, G, H

\* The total of a pointwise sum is the sum of the totals.
LEMMA TotalAdds ==
    ASSUME NEW f \in [Address -> Int], NEW g \in [Address -> Int],
           NEW h \in [Address -> Int], \A a \in Address : h[a] = f[a] + g[a]
    PROVE  Total(h) = Total(f) + Total(g)
<1>1. N \in 0..N
  BY NAssumption
<1>2. QED
  BY <1>1, PartialSumsAdd DEF Total

\* A function that is zero but at one address has that address's value as total.
LEMMA TotalOfOne ==
    ASSUME NEW a \in Address, NEW v \in Int, NEW f \in [Address -> Int],
           \A b \in Address : f[b] = IF b = a THEN v ELSE 0
    PROVE  Total(f) = v
<1> USE NAssumption DEF Address
<1> DEFINE F == PartialSums(f)
           T == {n \in 0..N : F[n] = IF n < a THEN 0 ELSE v}
<1>1. F \in [0..N -> Int] /\ F[0] = 0 /\ \A n \in Address : F[n] = F[n - 1] + f[n]
  BY PartialSumsDef
<1> HIDE DEF F
<1>2. 0 \in T
  BY <1>1
<1>3. \A n \in 0..(N - 1) : n \in T => n + 1 \in T
  <2> SUFFICES ASSUME NEW n \in 0..(N - 1), n \in T PROVE n + 1 \in T
    OBVIOUS
  <2>1. F[n + 1] = F[n] + f[n + 1]
    BY <1>1
  <2>2. f[n + 1] = IF n + 1 = a THEN v ELSE 0
    OBVIOUS
  <2>3. F[n] = IF n < a THEN 0 ELSE v
    OBVIOUS
  <2>4. F[n + 1] = IF n + 1 < a THEN 0 ELSE v
    BY <2>1, <2>2, <2>3
  <2>5. QED
    BY <2>4
<1>4. N \in T
  <2> HIDE DEF T
  <2>1. 0..N \subseteq T
    BY <1>2, <1>3, UpToInduction
  <2>2. QED
    BY <2>1
<1>5. QED
  BY <1>4 DEF Total, F

\* The total of integers is an integer.
LEMMA TotalType ==
    ASSUME NEW f \in [Address -> Int] PROVE Total(f) \in Int
<1> QED BY PartialSumsDef, NAssumption DEF Total

\* Within range, wrapping changes nothing.
LEMMA WrapInRange ==
    ASSUME NEW x \in Int, InI128(x) PROVE Wrap(x) = x
<1> QED BY DEF Wrap

\* Wrapping an integer gives an integer.
LEMMA WrapType ==
    ASSUME NEW x \in Int PROVE Wrap(x) \in Int
<1> QED BY WidthAssumption DEF Wrap

\* Zero-extending a map of integers gives an integer for every address.
LEMMA OrZeroType ==
    ASSUME NEW S \in SUBSET Address, NEW f \in [S -> Int]
    PROVE  OrZero(f) \in [Address -> Int]
<1> QED BY DEF OrZero

\* Wrapping leaves a value of the i128 range.
LEMMA WrapIsInRange ==
    ASSUME NEW x \in Int PROVE InI128(Wrap(x))
<1>1. MaxI128 \in Nat
  BY WidthAssumption
<1> DEFINE m == 2 * (MaxI128 + 1)
           r == (x + MaxI128 + 1) % m
<1>2. m \in Nat /\ m > 0
  BY <1>1
<1>3. r \in 0..(m - 1)
  <2> HIDE DEF m
  <2> QED BY <1>1, <1>2
<1>4. ~InI128(x) => Wrap(x) = r - (MaxI128 + 1)
  BY DEF Wrap
<1> HIDE DEF r
<1>5. QED
  BY <1>1, <1>3, <1>4 DEF Wrap, InI128

\* Wrapping moves a value by whole turns of the i128 range.
LEMMA WrapTurns ==
    ASSUME NEW x \in Int, NEW m, m = 2 * (MaxI128 + 1)
    PROVE  \E k \in Int : Wrap(x) = x - k * m
<1>1. MaxI128 \in Nat /\ m \in Nat /\ m > 0
  BY WidthAssumption
<1> DEFINE e == x + MaxI128 + 1
<1>2. e \in Int
  BY <1>1
<1>3. PICK k \in Int : e = m * k + (e % m)
  <2> HIDE DEF e
  <2>1. e \div m \in Int /\ e = m * (e \div m) + (e % m)
    BY <1>1, <1>2
  <2>2. QED
    BY <2>1
<1>4. CASE InI128(x)
  <2>1. Wrap(x) = x - 0 * m
    BY <1>1, <1>4 DEF Wrap
  <2>2. QED
    BY <2>1
<1>5. CASE ~InI128(x)
  <2> DEFINE r == e % m
  <2>1. Wrap(x) = r - (MaxI128 + 1)
    BY <1>5 DEF Wrap
  <2>2. r \in Int /\ k * m \in Int /\ e = k * m + r
    BY <1>1, <1>2, <1>3
  <2> HIDE DEF r
  <2>3. Wrap(x) = x - k * m
    BY <1>1, <2>1, <2>2
  <2>4. QED
    BY <2>3
<1>6. QED
  BY <1>4, <1>5

\* Two values of the i128 range that are whole turns apart are the same.
LEMMA TurnsInRange ==
    ASSUME NEW x \in Int, NEW y \in Int, InI128(x), InI128(y),
           NEW m, m = 2 * (MaxI128 + 1), NEW k \in Int, y = x + k * m
    PROVE  x = y
<1>1. MaxI128 \in Nat /\ m \in Nat /\ m > 0
  BY WidthAssumption
<1>2. y - x < m /\ x - y < m
  BY <1>1 DEF InI128
<1>3. k > 0 => k * m >= m
  BY <1>1
<1>4. k < 0 => k * m <= -m
  BY <1>1
<1>5. k * m \in Int /\ y = x + k * m
  BY <1>1
<1>6. k = 0
  BY <1>1, <1>2, <1>3, <1>4, <1>5
<1>7. QED
  BY <1>1, <1>5, <1>6

\* An operand of an addition may be wrapped before it or not.
LEMMA WrapAdds ==
    ASSUME NEW x \in Int, NEW y \in Int
    PROVE  Wrap(Wrap(x) + y) = Wrap(x + y)
<1> DEFINE m == 2 * (MaxI128 + 1)
           w == Wrap(x)
           a == Wrap(w + y)
           b == Wrap(x + y)
<1>1. m \in Int
  BY WidthAssumption
<1>2. w \in Int
  BY WrapType
<1>3. w + y \in Int /\ x + y \in Int
  BY <1>2
<1>4. a \in Int /\ b \in Int /\ InI128(a) /\ InI128(b)
  BY <1>3, WrapType, WrapIsInRange
<1>5. PICK k1 \in Int : w = x - k1 * m
  BY WrapTurns
<1>6. PICK k2 \in Int : a = (w + y) - k2 * m
  BY <1>3, WrapTurns
<1>7. PICK k3 \in Int : b = (x + y) - k3 * m
  BY <1>3, WrapTurns
<1>8. b = a + (k1 + k2 - k3) * m
  <2> HIDE DEF m, w, a, b
  <2>1. (k1 + k2 - k3) * m = k1 * m + k2 * m - k3 * m
    BY <1>1
  <2>2. QED
    BY <1>1, <1>2, <1>5, <1>6, <1>7, <2>1
<1> HIDE DEF w, a, b
<1>9. a = b
  <2> DEFINE k == k1 + k2 - k3
  <2>1. k \in Int /\ b = a + k * m
    BY <1>8
  <2> HIDE DEF k
  <2>2. QED
    BY <1>4, <2>1, TurnsInRange
<1>10. QED
  BY <1>9 DEF a, b, w

\* Running sums of values that are not negative only grow.
LEMMA PartialSumsGrow ==
    ASSUME NEW f \in [Address -> Int], \A a \in Address : f[a] >= 0, NEW n \in 0..N
    PROVE  0 <= PartialSums(f)[n] /\ PartialSums(f)[n] <= Total(f)
<1> USE NAssumption DEF Address
<1> DEFINE F == PartialSums(f)
           T == {m \in 0..N : F[m] >= 0 /\ (n <= m => F[n] <= F[m])}
<1>1. F \in [0..N -> Int] /\ F[0] = 0 /\ \A m \in Address : F[m] = F[m - 1] + f[m]
  BY PartialSumsDef
<1>2. Total(f) = F[N]
  BY DEF Total
<1> HIDE DEF F
<1>3. 0 \in T
  BY <1>1
<1>4. \A m \in 0..(N - 1) : m \in T => m + 1 \in T
  <2> SUFFICES ASSUME NEW m \in 0..(N - 1), m \in T PROVE m + 1 \in T
    OBVIOUS
  <2>1. F[m + 1] = F[m] + f[m + 1] /\ f[m + 1] >= 0 /\ f[m + 1] \in Int
    BY <1>1
  <2>2. F[m] \in Int /\ F[m + 1] \in Int /\ F[m] <= F[m + 1] /\ F[n] \in Int
    BY <1>1, <2>1
  <2>3. n <= m + 1 => F[n] <= F[m + 1]
    <3>1. CASE n = m + 1
      BY <2>2, <3>1
    <3>2. CASE n # m + 1
      BY <2>2, <3>2
    <3>3. QED
      BY <3>1, <3>2
  <2>4. QED
    BY <2>2, <2>3
<1>5. 0..N \subseteq T
  <2> HIDE DEF T
  <2>1. QED
    BY <1>3, <1>4, UpToInduction
<1>6. F[n] >= 0 /\ F[n] <= F[N]
  BY <1>5
<1>7. F[n] \in Int
  BY <1>1
<1>8. QED
  BY <1>2, <1>6, <1>7 DEF F

\* A sum of integers of at most b is at most N times b.
LEMMA TotalIsBounded ==
    ASSUME NEW b \in Nat, NEW f \in [Address -> Int],
           \A a \in Address : -b <= f[a] /\ f[a] <= b
    PROVE  -(N * b) <= Total(f) /\ Total(f) <= N * b
<1> DEFINE F == PartialSums(f)
           T == {m \in 0..N : -(m * b) <= F[m] /\ F[m] <= m * b}
<1>1. N \in Nat
  BY NAssumption
<1>2. F \in [0..N -> Int] /\ F[0] = 0 /\ \A m \in Address : F[m] = F[m - 1] + f[m]
  BY PartialSumsDef
<1>3. Total(f) = F[N]
  BY DEF Total
<1> HIDE DEF F
<1>4. 0 \in T
  <2>1. 0 * b = 0 /\ 0 \in 0..N
    BY <1>1
  <2>2. QED
    BY <1>2, <2>1
<1>5. ASSUME NEW m \in 0..(N - 1), m \in T PROVE m + 1 \in T
  <2>1. m + 1 \in Address /\ (m + 1) - 1 = m /\ m \in Nat /\ m + 1 \in 0..N /\ m \in 0..N
    BY <1>1 DEF Address
  <2>2. F[m + 1] = F[m] + f[m + 1] /\ F[m] \in Int /\ f[m + 1] \in Int /\ F[m + 1] \in Int
    BY <1>2, <2>1
  <2>3. -b <= f[m + 1] /\ f[m + 1] <= b
    BY <2>1
  <2>4. (m + 1) * b = m * b + b /\ m * b \in Int
    BY <2>1
  <2>5. -(m * b) <= F[m] /\ F[m] <= m * b
    BY <1>5
  <2> DEFINE u == F[m]
             v == F[m + 1]
             w == f[m + 1]
             c == m * b
             e == (m + 1) * b
  <2>6. /\ u \in Int /\ v \in Int /\ w \in Int /\ c \in Int /\ v = u + w /\ e = c + b
        /\ -b <= w /\ w <= b /\ -c <= u /\ u <= c
    BY <2>2, <2>3, <2>4, <2>5
  <2> HIDE DEF u, v, w, c, e
  <2>7. -e <= v /\ v <= e
    BY <2>6
  <2>8. QED
    BY <2>1, <2>7 DEF v, e
<1>6. 0..N \subseteq T
  <2> HIDE DEF T
  <2>1. QED
    BY <1>1, <1>4, <1>5, UpToInduction
<1>7. N \in T
  BY <1>1, <1>6
<1>8. QED
  BY <1>3, <1>7
=============================================================================
