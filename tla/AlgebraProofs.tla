--------------------------- MODULE AlgebraProofs ---------------------------
(***************************************************************************)
(* The committed constraints say what they are meant to, and the algorithms *)
(* on polynomials compute what they are meant to, over every prime field:  *)
(* the field is a commutative ring, a sum, a multiple, a product and a     *)
(* division mean what they say at every point, the tree of products        *)
(* vanishes at its points, evaluation on that tree is evaluation, and      *)
(* interpolation at distinct points has the values it is given.            *)
(*                                                                         *)
(* A recursive function is proved to satisfy its equation first (a solution *)
(* exists on every initial segment of its domain); what it computes follows *)
(* by induction along the segment.                                         *)
(***************************************************************************)
EXTENDS Poly, LogicRelation, BalancesProofs, SequenceTheorems

-----------------------------------------------------------------------------
(* The committed relation *)

\* A flag that squares to itself is 0 or 1.
LEMMA FlagIsBit ==
    ASSUME NEW u \in Field, (u * u - u) % P = 0
    PROVE  u = 0 \/ u = 1
<1>1. CASE u = 0
  BY <1>1
<1>2. CASE u # 0
  <2>1. u - 1 \in Field /\ P \in Nat /\ u \in Int
    BY <1>2, OrderAssumption DEF Field
  <2>2. u * (u - 1) = u * u - u
    BY <2>1
  <2>3. (u * (u - 1)) % P = 0
    BY <2>2
  <2>4. u - 1 = 0
    BY <2>1, <2>3, <1>2, NoZeroDivisors
  <2>5. QED
    BY <2>1, <2>4
<1>3. QED
  BY <1>1, <1>2

\* Only a field element divisible by P is zero.
LEMMA ZeroInField ==
    ASSUME NEW x \in Field, x % P = 0 PROVE x = 0
<1> QED BY OrderAssumption DEF Field

\* A field element that differs from t by a multiple of P is the residue of t.
LEMMA ResidueOfDifference ==
    ASSUME NEW x \in Field, NEW t \in Int, (x - t) % P = 0
    PROVE  x = t % P
<1>1. P \in Nat /\ P > 1 /\ x \in Int /\ 0 <= x /\ x < P
  BY OrderAssumption DEF Field
<1> DEFINE k == (x - t) \div P
<1>2. k \in Int /\ x - t = P * k + ((x - t) % P)
  <2> DEFINE e == x - t
  <2>1. e \in Int
    BY <1>1
  <2> HIDE DEF e
  <2>2. e \div P \in Int /\ e = P * (e \div P) + (e % P)
    BY <1>1, <2>1
  <2>3. QED
    BY <2>2 DEF e
<1>3. x - t = P * k
  BY <1>1, <1>2
<1> DEFINE q == t \div P
           r == t % P
<1>4. q \in Int /\ r \in 0..(P - 1) /\ t = P * q + r
  BY <1>1
<1> HIDE DEF k, q, r
<1>5. x - r = P * (k + q)
  <2>1. P * (k + q) = P * k + P * q
    BY <1>1, <1>2, <1>4
  <2>2. QED
    BY <1>1, <1>2, <1>3, <1>4, <2>1
<1>6. k + q = 0
  <2> DEFINE n == k + q
  <2>1. n \in Int /\ P * n < P /\ P * n > -P
    BY <1>1, <1>2, <1>4, <1>5
  <2> HIDE DEF n
  <2>2. ~(n >= 1)
    BY <2>1, <1>1
  <2>3. ~(n <= -1)
    BY <2>1, <1>1
  <2>4. n = 0
    BY <2>1, <2>2, <2>3
  <2>5. QED
    BY <2>4 DEF n
<1>7. x = r
  BY <1>1, <1>4, <1>5, <1>6
<1>8. QED
  BY <1>7 DEF r

\* The converse: an integer and its residue differ by a multiple of P.
LEMMA DifferenceOfResidue ==
    ASSUME NEW e \in Int
    PROVE  (e - (e % P)) % P = 0 /\ ((e % P) - e) % P = 0
<1>1. P \in Nat /\ P > 1
  BY OrderAssumption
<1> DEFINE q == e \div P
           r == e % P
<1>2. q \in Int /\ r \in Int /\ e = P * q + r
  BY <1>1
<1> HIDE DEF q, r
<1>3. e - r = q * P /\ r - e = (-q) * P
  BY <1>1, <1>2
<1>4. (q * P) % P = 0 /\ ((-q) * P) % P = 0
  BY <1>1, <1>2
<1>5. (e - r) % P = 0 /\ (r - e) % P = 0
  BY <1>3, <1>4
<1>6. QED
  BY <1>5 DEF r

\* -1 is not a multiple of P.
LEMMA MinusOneNotZero == (-1) % P # 0
<1>1. P \in Nat /\ P > 1
  BY OrderAssumption
<1>2. (-1) % P = P - 1
  BY <1>1
<1>3. QED
  BY <1>1, <1>2

\* The four constraints of one address force its flag to be membership.
LEMMA FlagIsMembership ==
    ASSUME NEW u \in Field, NEW y \in Field, NEW z \in Field, NEW w \in Field,
           (u * u - u) % P = 0, (u * y) % P = 0, (y * z - w) % P = 0,
           MemberConstraint(u, w)
    PROVE  u = IF y = 0 THEN 1 ELSE 0
<1>0. u = 0 \/ u = 1
  BY FlagIsBit
<1>t. u \in Int /\ y \in Int /\ z \in Int /\ w \in Int /\ P \in Nat /\ P > 1
  BY OrderAssumption DEF Field
<1>1. CASE y = 0
  <2>1. SUFFICES ASSUME u = 0 PROVE FALSE
    BY <1>0, <1>1
  <2>2. y * z - w = -w
    BY <1>1, <1>t
  <2>3. (-w) % P = 0
    BY <2>2
  <2>4. w = 0
    <3>1. SUFFICES ASSUME w # 0 PROVE FALSE
      OBVIOUS
    <3>2. w \in 1..(P - 1)
      BY <3>1, <1>t DEF Field
    <3>3. (-w) % P = P - w
      BY <3>2, <1>t
    <3>4. QED
      BY <2>3, <3>2, <3>3, <1>t
  <2>5. (1 - u) * (w - 1) = -1
    BY <2>1, <2>4
  <2>6. (-1) % P = 0
    BY <2>5 DEF MemberConstraint
  <2>7. QED
    BY <2>6, MinusOneNotZero
<1>2. CASE y # 0
  <2>1. SUFFICES ASSUME u = 1 PROVE FALSE
    BY <1>0, <1>2
  <2>2. u * y = y
    BY <2>1, <1>t
  <2>3. y % P = 0
    BY <2>2
  <2>4. QED
    BY <1>2, <2>3, ZeroInField
<1>3. QED
  BY <1>1, <1>2

\* Where the flags mark the roots, the flagged sum is the sum over the roots.
LEMMA FlaggedSumIsRootSum ==
    ASSUME NEW As \in SUBSET Address, NEW delta \in [As -> Int], NEW v \in Assignments(As),
           \A a \in As : v.u[a] = IF v.y[a] = 0 THEN 1 ELSE 0
    PROVE  /\ FlaggedSum(v, delta) = Total(OrZero(RootDeltas(v.y, delta)))
           /\ FlaggedSum(v, delta) \in Int
<1>1. DOMAIN delta = As
  OBVIOUS
<1> DEFINE flagged == OrZero([a \in As |-> delta[a] * v.u[a]])
           roots == OrZero(RootDeltas(v.y, delta))
<1>4. ASSUME NEW a \in Address PROVE flagged[a] = roots[a]
  <2>1. CASE a \in As /\ v.y[a] = 0
    BY <2>1, <1>1 DEF OrZero, RootDeltas
  <2>2. CASE a \in As /\ v.y[a] # 0
    BY <2>2, <1>1 DEF OrZero, RootDeltas
  <2>3. CASE a \notin As
    BY <2>3, <1>1 DEF OrZero, RootDeltas
  <2>4. QED
    BY <2>1, <2>2, <2>3
<1>5. flagged = roots
  BY <1>4 DEF OrZero
<1>6. roots \in [Address -> Int]
  BY <1>1 DEF OrZero, RootDeltas
<1>7. QED
  BY <1>1, <1>5, <1>6, TotalType DEF FlaggedSum

\* Soundness: an assignment that satisfies update_relation flags exactly the
\* roots of the reserve polynomial and carries the sum of their deltas.
THEOREM RelationSound ==
    ASSUME NEW As \in SUBSET Address, NEW delta \in [As -> Int], NEW v \in Assignments(As),
           UpdateRelation(v, delta)
    PROVE  MembershipRelation(v, delta)
<1>1. DOMAIN delta = As
  OBVIOUS
<1>2. /\ v.u \in [As -> Field] /\ v.y \in [As -> Field]
      /\ v.z \in [As -> Field] /\ v.w \in [As -> Field] /\ v.d \in Field
  BY DEF Assignments
<1>3. ASSUME NEW a \in As PROVE v.u[a] = IF v.y[a] = 0 THEN 1 ELSE 0
  <2>1. v.u[a] \in Field /\ v.y[a] \in Field /\ v.z[a] \in Field /\ v.w[a] \in Field
    BY <1>2
  <2>2. /\ (v.u[a] * v.u[a] - v.u[a]) % P = 0
        /\ (v.u[a] * v.y[a]) % P = 0
        /\ (v.y[a] * v.z[a] - v.w[a]) % P = 0
        /\ MemberConstraint(v.u[a], v.w[a])
    BY <1>1 DEF UpdateRelation
  <2>3. QED
    BY <2>1, <2>2, FlagIsMembership
<1>4. FlaggedSum(v, delta) = Total(OrZero(RootDeltas(v.y, delta)))
      /\ FlaggedSum(v, delta) \in Int
  BY <1>3, FlaggedSumIsRootSum
<1>5. (v.d - FlaggedSum(v, delta)) % P = 0
  BY DEF UpdateRelation
<1>6. v.d = FlaggedSum(v, delta) % P
  BY <1>2, <1>4, <1>5, ResidueOfDifference
<1>7. QED
  BY <1>1, <1>3, <1>4, <1>6 DEF MembershipRelation

\* Completeness: whatever the window, the prover's advice for the true flags
\* satisfies update_relation, so an honest update can always be proved.
THEOREM RelationComplete ==
    ASSUME NEW As \in SUBSET Address, NEW delta \in [As -> Int], NEW v \in Assignments(As),
           MembershipRelation(v, delta), HonestAdvice(v, delta)
    PROVE  UpdateRelation(v, delta)
<1>1. DOMAIN delta = As
  OBVIOUS
<1>2. /\ v.u \in [As -> Field] /\ v.y \in [As -> Field]
      /\ v.z \in [As -> Field] /\ v.w \in [As -> Field] /\ v.d \in Field
  BY DEF Assignments
<1>3. \A a \in As : v.u[a] = IF v.y[a] = 0 THEN 1 ELSE 0
  BY <1>1 DEF MembershipRelation
<1>p. P \in Nat /\ P > 1 /\ 0 % P = 0 /\ 1 % P = 1
  BY OrderAssumption
<1>4. ASSUME NEW a \in As
      PROVE  /\ (v.u[a] * v.u[a] - v.u[a]) % P = 0
             /\ (v.u[a] * v.y[a]) % P = 0
             /\ (v.y[a] * v.z[a] - v.w[a]) % P = 0
             /\ MemberConstraint(v.u[a], v.w[a])
  <2>1. v.y[a] \in Field /\ v.z[a] \in Field /\ v.w[a] \in Field
    BY <1>2
  <2>2. v.y[a] \in Int /\ v.z[a] \in Int /\ v.w[a] \in Int
    BY <2>1, <1>p DEF Field
  <2>3. /\ v.z[a] = IF v.y[a] = 0 THEN 0 ELSE InvOf(v.y[a])
        /\ v.w[a] = (v.y[a] * v.z[a]) % P
    BY <1>1 DEF HonestAdvice
  <2>4. (v.y[a] * v.z[a] - v.w[a]) % P = 0
    <3>1. v.y[a] * v.z[a] \in Int
      BY <2>2
    <3>2. QED
      BY <2>3, <3>1, DifferenceOfResidue
  <2>5. CASE v.y[a] = 0
    <3>1. v.u[a] = 1
      BY <1>3, <2>5
    <3>2. v.u[a] * v.u[a] - v.u[a] = 0 /\ v.u[a] * v.y[a] = 0
      BY <2>5, <3>1
    <3>3. (1 - v.u[a]) * (v.w[a] - 1) = 0
      BY <2>2, <3>1
    <3>4. QED
      BY <1>p, <2>4, <3>2, <3>3 DEF MemberConstraint
  <2>6. CASE v.y[a] # 0
    <3>1. v.u[a] = 0
      BY <1>3, <2>6
    <3>2. (v.y[a] * InvOf(v.y[a])) % P = 1
      BY <2>1, <2>6, Invertible DEF InvOf
    <3>3. v.w[a] = 1
      BY <2>3, <2>6, <3>2
    <3>4. v.u[a] * v.u[a] - v.u[a] = 0 /\ v.u[a] * v.y[a] = 0
      BY <2>2, <3>1
    <3>5. (1 - v.u[a]) * (v.w[a] - 1) = 0
      BY <3>1, <3>3
    <3>6. QED
      BY <1>p, <2>4, <3>4, <3>5 DEF MemberConstraint
  <2>7. QED
    BY <2>5, <2>6
<1>5. FlaggedSum(v, delta) = Total(OrZero(RootDeltas(v.y, delta)))
      /\ FlaggedSum(v, delta) \in Int
  BY <1>3, FlaggedSumIsRootSum
<1>6. (v.d - FlaggedSum(v, delta)) % P = 0
  BY <1>5, DifferenceOfResidue DEF MembershipRelation
<1>7. QED
  BY <1>1, <1>4, <1>6 DEF UpdateRelation

-----------------------------------------------------------------------------
(* The field *)

\* Sums and products of field elements.
FAdd(a, b) == (a + b) % P
FMul(a, b) == (a * b) % P

\* Residues are field elements.
LEMMA ResidueInField == ASSUME NEW x \in Int PROVE x % P \in Field
<1>1. P \in Nat /\ P > 1
  BY OrderAssumption
<1>2. QED
  BY <1>1 DEF Field

\* A field element is an integer that is its own residue.
LEMMA FieldIsInt == ASSUME NEW x \in Field PROVE x \in Int /\ x % P = x
<1>1. P \in Nat /\ P > 1
  BY OrderAssumption
<1>2. QED
  BY <1>1 DEF Field

\* An integer is its residue and a multiple of P.
LEMMA ResidueSplit ==
    ASSUME NEW a \in Int
    PROVE  \E q \in Int : a = q * P + (a % P) /\ a % P \in Int
<1>1. P \in Nat /\ P > 1
  BY OrderAssumption
<1>2. a \div P \in Int /\ a % P \in Int /\ a = P * (a \div P) + (a % P)
  BY <1>1
<1>3. (a \div P) * P = P * (a \div P)
  BY <1>1, <1>2
<1>4. QED
  BY <1>2, <1>3

\* Integers that differ by a multiple of P have the same residue.
LEMMA SameResidue ==
    ASSUME NEW a \in Int, NEW b \in Int, NEW k \in Int, a = b + k * P
    PROVE  a % P = b % P
<1>1. P \in Nat /\ P > 1
  BY OrderAssumption
<1>2. PICK q \in Int : a = q * P + (a % P) /\ a % P \in Int
  BY ResidueSplit
<1> DEFINE x == a % P
           m == k - q
<1>3. x \in Field
  BY ResidueInField
<1>4. m \in Int /\ x - b = m * P
  <2>1. m * P = k * P - q * P
    BY <1>1
  <2>2. QED
    BY <1>1, <1>2, <2>1
<1> HIDE DEF x, m
<1>5. (m * P) % P = 0
  BY <1>1, <1>4
<1>6. (x - b) % P = 0
  BY <1>4, <1>5
<1>7. x = b % P
  BY <1>3, <1>6, ResidueOfDifference
<1>8. QED
  BY <1>7 DEF x

\* An operand may be reduced before a sum or a product, or not.
LEMMA ReduceFirst ==
    ASSUME NEW a \in Int, NEW b \in Int
    PROVE  /\ ((a % P) + b) % P = (a + b) % P
           /\ ((a % P) * b) % P = (a * b) % P
<1>1. PICK q \in Int : a = q * P + (a % P) /\ a % P \in Int
  BY ResidueSplit
<1>2. P \in Int
  BY OrderAssumption
<1> DEFINE r == a % P
<1>3. r \in Int /\ a = q * P + r
  BY <1>1
<1> HIDE DEF r
<1>4. a + b = (r + b) + q * P
  BY <1>2, <1>3
<1>5. (a + b) % P = (r + b) % P
  BY <1>3, <1>4, SameResidue
<1>6. a * b = (r * b) + (q * b) * P
  <2>1. a * b = (q * P + r) * b
    BY <1>3
  <2>2. (q * P + r) * b = (r * b) + (q * b) * P
    BY <1>2, <1>3
  <2>3. QED
    BY <2>1, <2>2
<1>7. (a * b) % P = (r * b) % P
  <2>1. a * b \in Int /\ r * b \in Int /\ q * b \in Int
    BY <1>3
  <2>2. QED
    BY <1>6, <2>1, SameResidue
<1>8. QED
  BY <1>5, <1>7 DEF r

\* The field is a commutative ring.
LEMMA FieldRing ==
    /\ 0 \in Field /\ 1 \in Field
    /\ \A a, b \in Field : /\ FAdd(a, b) \in Field /\ FMul(a, b) \in Field
                           /\ FAdd(a, b) = FAdd(b, a) /\ FMul(a, b) = FMul(b, a)
    /\ \A a \in Field : FAdd(a, 0) = a /\ FMul(a, 1) = a /\ FMul(a, 0) = 0
    /\ \A a, b, c \in Field : /\ FAdd(FAdd(a, b), c) = FAdd(a, FAdd(b, c))
                              /\ FMul(FMul(a, b), c) = FMul(a, FMul(b, c))
                              /\ FMul(FAdd(a, b), c) = FAdd(FMul(a, c), FMul(b, c))
<1>1. P \in Nat /\ P > 1
  BY OrderAssumption
<1>2. 0 \in Field /\ 1 \in Field
  BY <1>1 DEF Field
<1>3. ASSUME NEW a \in Field, NEW b \in Field
      PROVE  /\ FAdd(a, b) \in Field /\ FMul(a, b) \in Field
             /\ FAdd(a, b) = FAdd(b, a) /\ FMul(a, b) = FMul(b, a)
  <2>1. a \in Int /\ b \in Int
    BY FieldIsInt
  <2>2. a + b \in Int /\ a * b \in Int /\ a + b = b + a /\ a * b = b * a
    BY <2>1
  <2>3. QED
    BY <2>2, ResidueInField DEF FAdd, FMul
<1>4. ASSUME NEW a \in Field PROVE FAdd(a, 0) = a /\ FMul(a, 1) = a /\ FMul(a, 0) = 0
  <2>1. a \in Int /\ a % P = a
    BY FieldIsInt
  <2>2. a + 0 = a /\ a * 1 = a /\ a * 0 = 0 /\ 0 % P = 0
    BY <1>1, <2>1
  <2>3. QED
    BY <2>1, <2>2 DEF FAdd, FMul
<1>5. ASSUME NEW a \in Field, NEW b \in Field, NEW c \in Field
      PROVE  /\ FAdd(FAdd(a, b), c) = FAdd(a, FAdd(b, c))
             /\ FMul(FMul(a, b), c) = FMul(a, FMul(b, c))
             /\ FMul(FAdd(a, b), c) = FAdd(FMul(a, c), FMul(b, c))
  <2>1. a \in Int /\ b \in Int /\ c \in Int
    BY FieldIsInt
  <2>2. /\ a + b \in Int /\ b + c \in Int /\ a * b \in Int /\ b * c \in Int
        /\ a * c \in Int /\ (a + b) % P \in Int /\ (b + c) % P \in Int /\ (b * c) % P \in Int
    BY <1>1, <2>1
  <2>3. (((a + b) % P) + c) % P = (a + b + c) % P
    BY <2>1, <2>2, ReduceFirst
  <2>4. (a + ((b + c) % P)) % P = (a + b + c) % P
    <3>1. (((b + c) % P) + a) % P = ((b + c) + a) % P
      BY <2>1, <2>2, ReduceFirst
    <3>2. ((b + c) % P) + a = a + ((b + c) % P) /\ (b + c) + a = a + b + c
      BY <2>1, <2>2
    <3>3. QED
      BY <3>1, <3>2
  <2>5. (((a * b) % P) * c) % P = ((a * b) * c) % P
    BY <2>1, <2>2, ReduceFirst
  <2>6. (a * ((b * c) % P)) % P = ((b * c) * a) % P
    <3>1. (((b * c) % P) * a) % P = ((b * c) * a) % P
      BY <2>1, <2>2, ReduceFirst
    <3>2. ((b * c) % P) * a = a * ((b * c) % P)
      BY <2>1, <2>2
    <3>3. QED
      BY <3>1, <3>2
  <2>7. (a * b) * c = (b * c) * a
    BY <2>1
  <2>8. (((a + b) % P) * c) % P = ((a + b) * c) % P
    BY <2>1, <2>2, ReduceFirst
  <2>9. (((a * c) % P) + ((b * c) % P)) % P = (a * c + b * c) % P
    <3>1. (((a * c) % P) + ((b * c) % P)) % P = (a * c + ((b * c) % P)) % P
      BY <2>1, <2>2, ReduceFirst
    <3>2. (((b * c) % P) + a * c) % P = (b * c + a * c) % P
      BY <2>1, <2>2, ReduceFirst
    <3>3. a * c + ((b * c) % P) = ((b * c) % P) + a * c /\ b * c + a * c = a * c + b * c
      BY <2>1, <2>2
    <3>4. QED
      BY <3>1, <3>2, <3>3
  <2>10. (a + b) * c = a * c + b * c
    BY <2>1
  <2>11. QED
    BY <2>3, <2>4, <2>5, <2>6, <2>7, <2>8, <2>9, <2>10 DEF FAdd, FMul
<1>6. QED
  BY <1>2, <1>3, <1>4, <1>5

\* 0 on the left.
LEMMA FieldZero == \A a \in Field : FAdd(0, a) = a /\ FMul(0, a) = 0
<1>1. ASSUME NEW a \in Field PROVE FAdd(0, a) = a /\ FMul(0, a) = 0
  <2>1. 0 \in Field
    BY FieldRing
  <2>2. FAdd(0, a) = FAdd(a, 0) /\ FMul(0, a) = FMul(a, 0)
    BY <2>1, FieldRing
  <2>3. QED
    BY <2>2, FieldRing
<1>2. QED
  BY <1>1

\* Rearranging sums.
LEMMA SumOfSums ==
    ASSUME NEW a \in Field, NEW b \in Field, NEW c \in Field, NEW d \in Field
    PROVE  FAdd(FAdd(a, c), FAdd(b, d)) = FAdd(FAdd(a, b), FAdd(c, d))
<1>1. FAdd(c, d) \in Field /\ FAdd(b, d) \in Field
  BY FieldRing
<1>2. FAdd(FAdd(a, c), FAdd(b, d)) = FAdd(a, FAdd(c, FAdd(b, d)))
  BY <1>1, FieldRing
<1>3. FAdd(c, FAdd(b, d)) = FAdd(b, FAdd(c, d))
  <2>1. FAdd(c, FAdd(b, d)) = FAdd(FAdd(c, b), d)
    BY FieldRing
  <2>2. FAdd(c, b) = FAdd(b, c)
    BY FieldRing
  <2>3. FAdd(FAdd(b, c), d) = FAdd(b, FAdd(c, d))
    BY FieldRing
  <2>4. QED
    BY <2>1, <2>2, <2>3
<1>4. FAdd(a, FAdd(b, FAdd(c, d))) = FAdd(FAdd(a, b), FAdd(c, d))
  BY <1>1, FieldRing
<1>5. QED
  BY <1>2, <1>3, <1>4

\* A factor on the left of a sum.
LEMMA MulOfSum ==
    ASSUME NEW a \in Field, NEW b \in Field, NEW c \in Field
    PROVE  FMul(c, FAdd(a, b)) = FAdd(FMul(c, a), FMul(c, b))
<1>1. FAdd(a, b) \in Field
  BY FieldRing
<1>2. FMul(c, FAdd(a, b)) = FMul(FAdd(a, b), c)
  BY <1>1, FieldRing
<1>3. FMul(FAdd(a, b), c) = FAdd(FMul(a, c), FMul(b, c))
  BY FieldRing
<1>4. FMul(a, c) = FMul(c, a) /\ FMul(b, c) = FMul(c, b)
  BY FieldRing
<1>5. QED
  BY <1>2, <1>3, <1>4

\* P - 1 is -1.
LEMMA MinusOne ==
    /\ P - 1 \in Field
    /\ \A a \in Field : FAdd(a, FMul(P - 1, a)) = 0
<1>1. P \in Nat /\ P > 1
  BY OrderAssumption
<1>2. P - 1 \in Field
  BY <1>1 DEF Field
<1>3. ASSUME NEW a \in Field PROVE FAdd(a, FMul(P - 1, a)) = 0
  <2> DEFINE b == (P - 1) * a
  <2>1. a \in Int /\ b \in Int /\ b + a = 0 + a * P
    BY <1>1, FieldIsInt
  <2> HIDE DEF b
  <2>2. ((b % P) + a) % P = (b + a) % P
    BY <2>1, ReduceFirst
  <2>3. (b + a) % P = 0 % P
    BY <2>1, SameResidue
  <2>4. (b % P) + a = a + (b % P)
    BY <1>1, <2>1
  <2>5. 0 % P = 0
    BY <1>1
  <2>6. QED
    BY <2>2, <2>3, <2>4, <2>5 DEF FAdd, FMul, b
<1>4. QED
  BY <1>2, <1>3

-----------------------------------------------------------------------------
(* Values of polynomials *)

\* Sequences of coefficients, and those without leading zeros.
Coeffs == Seq(Field)
Polys == {f \in Coeffs : f = <<>> \/ f[Len(f)] # 0}

\* A coefficient is a field element, beyond the leading one it is 0.
LEMMA CoeffInField == ASSUME NEW f \in Coeffs, NEW i \in Int PROVE CoeffOf(f, i) \in Field
<1> QED BY FieldRing DEF CoeffOf, Coeffs

\* Horner's rule over the n lowest coefficients of f.
IsHorner(h, f, n, x) ==
    /\ h[0] = 0
    /\ \A i \in 1..n : h[i] = FAdd(FMul(h[i - 1], x), CoeffOf(f, n - i + 1))

\* The recursive definition of a value has a solution.
LEMMA HornerExists ==
    ASSUME NEW f \in Coeffs, NEW n \in Nat, NEW x
    PROVE  \E h : IsHorner(h, f, n, x)
<1> DEFINE Step(v, i) == FAdd(FMul(v, x), CoeffOf(f, n - i + 1))
           Solves(h, m) == h[0] = 0 /\ \A i \in 1..m : h[i] = Step(h[i - 1], i)
           T == {m \in 0..n : \E h : Solves(h, m)}
<1> HIDE DEF Step
<1>1. 0 \in T
  <2> DEFINE h == [i \in 0..0 |-> 0]
  <2>1. Solves(h, 0)
    OBVIOUS
  <2> HIDE DEF h, Solves
  <2>2. \E z : Solves(z, 0)
    BY <2>1
  <2>3. QED
    BY <2>2
<1>2. ASSUME NEW m \in 0..(n - 1), m \in T PROVE m + 1 \in T
  <2>1. PICK h : Solves(h, m)
    BY <1>2
  <2> DEFINE t == [i \in 0..(m + 1) |-> IF i = m + 1 THEN Step(h[m], m + 1) ELSE h[i]]
  <2>2. Solves(t, m + 1)
    <3>1. t[0] = 0
      BY <2>1
    <3>2. ASSUME NEW i \in 1..(m + 1) PROVE t[i] = Step(t[i - 1], i)
      <4>1. t[i - 1] = h[i - 1]
        OBVIOUS
      <4>2. CASE i = m + 1
        BY <4>1, <4>2
      <4>3. CASE i \in 1..m
        BY <2>1, <4>1, <4>3
      <4>4. QED
        BY <4>2, <4>3
    <3>3. QED
      BY <3>1, <3>2
  <2> HIDE DEF t, Solves
  <2>3. \E z : Solves(z, m + 1)
    BY <2>2
  <2>4. QED
    BY <2>3
<1>3. 0..n \subseteq T
  <2> HIDE DEF T
  <2>1. QED
    BY <1>1, <1>2, UpToInduction
<1>4. PICK h : Solves(h, n)
  BY <1>3
<1>5. IsHorner(h, f, n, x)
  BY <1>4 DEF Step, IsHorner
<1>6. QED
  BY <1>5

\* Its values are field elements, and there is one solution only.
LEMMA HornerUnique ==
    ASSUME NEW f \in Coeffs, NEW n \in Nat, NEW x \in Field,
           NEW h, IsHorner(h, f, n, x), NEW g, IsHorner(g, f, n, x), NEW i \in 0..n
    PROVE  h[i] \in Field /\ g[i] = h[i]
<1> DEFINE T == {m \in 0..n : h[m] \in Field /\ g[m] = h[m]}
<1>1. 0 \in T
  <2>1. 0 \in Field
    BY FieldRing
  <2>2. h[0] = 0 /\ g[0] = 0
    BY DEF IsHorner
  <2>3. QED
    BY <2>1, <2>2
<1>2. ASSUME NEW m \in 0..(n - 1), m \in T PROVE m + 1 \in T
  <2>1. m + 1 \in 1..n /\ (m + 1) - 1 = m /\ n - (m + 1) + 1 \in Int
    OBVIOUS
  <2>2. /\ h[m + 1] = FAdd(FMul(h[m], x), CoeffOf(f, n - (m + 1) + 1))
        /\ g[m + 1] = FAdd(FMul(g[m], x), CoeffOf(f, n - (m + 1) + 1))
    BY <2>1 DEF IsHorner
  <2>3. CoeffOf(f, n - (m + 1) + 1) \in Field
    BY <2>1, CoeffInField
  <2>4. FMul(h[m], x) \in Field
    BY <1>2, FieldRing
  <2>5. FAdd(FMul(h[m], x), CoeffOf(f, n - (m + 1) + 1)) \in Field
    BY <2>3, <2>4, FieldRing
  <2>6. g[m] = h[m]
    BY <1>2
  <2>7. QED
    BY <2>1, <2>2, <2>5, <2>6
<1>3. 0..n \subseteq T
  <2> HIDE DEF T
  <2>1. QED
    BY <1>1, <1>2, UpToInduction
<1>4. QED
  BY <1>3

\* PolyEval is Horner's rule.
LEMMA PolyEvalDef ==
    ASSUME NEW f \in Coeffs, NEW x \in Field
    PROVE  \E h : IsHorner(h, f, Len(f), x) /\ PolyEval(f, x) = h[Len(f)]
<1> DEFINE n == Len(f)
           Value(h, i) == IF i = 0 THEN 0 ELSE (h[i - 1] * x + f[n - i + 1]) % P
<1>1. n \in Nat
  BY DEF Coeffs
<1>2. PICK g : IsHorner(g, f, n, x)
  BY <1>1, HornerExists
<1> DEFINE r == [i \in 0..n |-> g[i]]
<1>3. ASSUME NEW h, IsHorner(h, f, n, x), NEW i \in 1..n
      PROVE  h[i] = (h[i - 1] * x + f[n - i + 1]) % P
  <2>1. i - 1 \in 0..n /\ n - i + 1 \in 1..n
    BY <1>1
  <2>2. h[i - 1] \in Field
    BY <1>1, <1>3, <2>1, HornerUnique
  <2>3. CoeffOf(f, n - i + 1) = f[n - i + 1] /\ f[n - i + 1] \in Field
    BY <1>1, <2>1 DEF CoeffOf, Coeffs
  <2>4. h[i - 1] \in Int /\ x \in Int /\ f[n - i + 1] \in Int
    BY <2>2, <2>3, FieldIsInt
  <2>5. h[i - 1] * x \in Int
    BY <2>4
  <2>6. (((h[i - 1] * x) % P) + f[n - i + 1]) % P = (h[i - 1] * x + f[n - i + 1]) % P
    BY <2>4, <2>5, ReduceFirst
  <2>7. h[i] = FAdd(FMul(h[i - 1], x), f[n - i + 1])
    BY <1>3, <2>3 DEF IsHorner
  <2>8. QED
    BY <2>6, <2>7 DEF FAdd, FMul
<1>4. r = [i \in 0..n |-> Value(r, i)]
  <2>1. ASSUME NEW i \in 0..n PROVE r[i] = Value(r, i)
    <3>1. CASE i = 0
      BY <1>2, <3>1 DEF IsHorner
    <3>2. CASE i \in 1..n
      <4>1. r[i] = g[i] /\ r[i - 1] = g[i - 1]
        BY <1>1, <3>2
      <4>2. g[i] = (g[i - 1] * x + f[n - i + 1]) % P
        BY <1>2, <1>3, <3>2
      <4>3. i # 0
        BY <3>2
      <4>4. QED
        BY <4>1, <4>2, <4>3
    <3>3. QED
      BY <1>1, <3>1, <3>2
  <2> HIDE DEF Value
  <2>2. r = [i \in 0..n |-> r[i]]
    OBVIOUS
  <2> HIDE DEF r
  <2>3. QED
    BY <2>1, <2>2
<1> HIDE DEF r
<1> DEFINE h == CHOOSE s : s = [i \in 0..n |-> Value(s, i)]
           step == [i \in 0..n |-> Value(h, i)]
<1>5. h = step
  BY <1>4
<1>6. PolyEval(f, x) = h[n]
  BY DEF PolyEval
<1> HIDE DEF h
<1>7. step[0] = 0
  BY <1>1
<1>8. ASSUME NEW i \in 1..n PROVE step[i] = (h[i - 1] * x + f[n - i + 1]) % P
  <2>1. i \in 0..n /\ i # 0
    BY <1>1
  <2>2. QED
    BY ONLY <2>1
<1> HIDE DEF step
<1>9. h[0] = 0 /\ \A i \in 1..n : h[i] = (h[i - 1] * x + f[n - i + 1]) % P
  BY <1>5, <1>7, <1>8
<1> DEFINE T == {m \in 0..n : h[m] = g[m]}
<1>10. 0 \in T
  BY <1>1, <1>2, <1>9 DEF IsHorner
<1>11. ASSUME NEW m \in 0..(n - 1), m \in T PROVE m + 1 \in T
  <2>1. m + 1 \in 1..n /\ (m + 1) - 1 = m
    BY <1>1
  <2>2. g[m + 1] = (g[(m + 1) - 1] * x + f[n - (m + 1) + 1]) % P
    BY <1>2, <1>3, <2>1
  <2>3. h[m + 1] = (h[(m + 1) - 1] * x + f[n - (m + 1) + 1]) % P
    BY <1>9, <2>1
  <2>4. h[(m + 1) - 1] = g[(m + 1) - 1]
    BY <1>11, <2>1
  <2>5. QED
    BY <2>1, <2>2, <2>3, <2>4
<1>12. 0..n \subseteq T
  <2> HIDE DEF T
  <2>1. QED
    BY <1>1, <1>10, <1>11, UpToInduction
<1>13. h[n] = g[n]
  BY <1>1, <1>12
<1>14. QED
  BY <1>2, <1>6, <1>13

\* Horner's rule may start above the leading coefficient.
LEMMA PolyEvalPadded ==
    ASSUME NEW f \in Coeffs, NEW x \in Field, NEW n \in Nat, Len(f) <= n,
           NEW h, IsHorner(h, f, n, x)
    PROVE  PolyEval(f, x) = h[n] /\ h[n] \in Field
<1> DEFINE m == Len(f)
           k == n - m
<1>1. m \in Nat /\ k \in Nat /\ k <= n
  BY DEF Coeffs
<1> DEFINE T == {i \in 0..k : h[i] = 0}
<1>2. 0 \in T
  BY <1>1 DEF IsHorner
<1>3. ASSUME NEW i \in 0..(k - 1), i \in T PROVE i + 1 \in T
  <2>1. i + 1 \in 1..n /\ (i + 1) - 1 = i /\ n - (i + 1) + 1 > m
    BY <1>1
  <2>2. h[i + 1] = FAdd(FMul(h[i], x), CoeffOf(f, n - (i + 1) + 1))
    BY <2>1 DEF IsHorner
  <2>3. CoeffOf(f, n - (i + 1) + 1) = 0
    BY <1>1, <2>1 DEF CoeffOf
  <2>4. FMul(h[i], x) = 0
    BY <1>3, FieldZero
  <2>5. FAdd(0, 0) = 0
    BY FieldRing, FieldZero
  <2>6. QED
    BY <1>1, <2>2, <2>3, <2>4, <2>5
<1>4. 0..k \subseteq T
  <2> HIDE DEF T
  <2>1. QED
    BY <1>1, <1>2, <1>3, UpToInduction
<1>5. h[k] = 0
  BY <1>1, <1>4
<1> DEFINE g == [i \in 0..m |-> h[k + i]]
<1>6. IsHorner(g, f, m, x)
  <2>1. g[0] = 0
    BY <1>1, <1>5
  <2>2. ASSUME NEW i \in 1..m PROVE g[i] = FAdd(FMul(g[i - 1], x), CoeffOf(f, m - i + 1))
    <3>1. k + i \in 1..n /\ (k + i) - 1 = k + (i - 1) /\ n - (k + i) + 1 = m - i + 1
      BY <1>1
    <3>2. h[k + i] = FAdd(FMul(h[(k + i) - 1], x), CoeffOf(f, n - (k + i) + 1))
      BY <3>1 DEF IsHorner
    <3>3. g[i] = h[k + i] /\ g[i - 1] = h[k + (i - 1)]
      BY <1>1
    <3>4. QED
      BY <3>1, <3>2, <3>3
  <2> HIDE DEF g
  <2>3. QED
    BY <2>1, <2>2 DEF IsHorner
<1>7. g[m] = h[n]
  BY <1>1
<1> HIDE DEF g
<1>8. PICK e : IsHorner(e, f, m, x) /\ PolyEval(f, x) = e[m]
  BY PolyEvalDef
<1>9. m \in 0..m
  BY <1>1
<1>10. e[m] \in Field /\ g[m] = e[m]
  BY <1>1, <1>6, <1>8, <1>9, HornerUnique
<1>11. QED
  BY <1>7, <1>8, <1>10

\* The value of a polynomial is a field element, and that of no coefficients 0.
LEMMA PolyEvalType ==
    ASSUME NEW f \in Coeffs, NEW x \in Field
    PROVE  PolyEval(f, x) \in Field /\ PolyEval(<<>>, x) = 0 /\ <<>> \in Coeffs
<1>1. <<>> \in Coeffs /\ Len(<<>>) = 0
  BY DEF Coeffs
<1>2. PICK e : IsHorner(e, <<>>, 0, x) /\ PolyEval(<<>>, x) = e[0]
  BY <1>1, PolyEvalDef
<1>3. PICK g : IsHorner(g, f, Len(f), x) /\ PolyEval(f, x) = g[Len(f)]
  BY PolyEvalDef
<1>4. Len(f) \in Nat /\ Len(f) \in 0..Len(f)
  BY DEF Coeffs
<1>5. g[Len(f)] \in Field
  BY <1>3, <1>4, HornerUnique
<1>6. QED
  BY <1>1, <1>2, <1>3, <1>5 DEF IsHorner

\* A nonempty set of numbers up to n has a largest member.
LEMMA MaxUpTo ==
    ASSUME NEW n \in Nat, NEW S \in SUBSET (1..n), S # {}
    PROVE  Max(S) \in S /\ \A y \in S : Max(S) >= y
<1> DEFINE T == {m \in 0..n : (\E i \in S : i <= m) => \E i \in S : \A y \in S : y <= m => i >= y}
<1>1. 0 \in T
  OBVIOUS
<1>2. ASSUME NEW m \in 0..(n - 1), m \in T PROVE m + 1 \in T
  <2>1. CASE m + 1 \in S
    BY <2>1
  <2>2. CASE m + 1 \notin S
    <3>1. \A y \in S : y <= m + 1 <=> y <= m
      BY <2>2
    <3>2. QED
      BY <1>2, <3>1
  <2>3. QED
    BY <2>1, <2>2
<1>3. 0..n \subseteq T
  <2> HIDE DEF T
  <2>1. QED
    BY <1>1, <1>2, UpToInduction
<1>4. n \in T
  BY <1>3
<1>5. \E i \in S : \A y \in S : i >= y
  <2>1. \E i \in S : i <= n
    <3>1. PICK i : i \in S
      OBVIOUS
    <3>2. i <= n
      BY <3>1
    <3>3. QED
      BY <3>1, <3>2
  <2>2. PICK i \in S : \A y \in S : y <= n => i >= y
    BY <1>4, <2>1
  <2>3. \A y \in S : y <= n
    OBVIOUS
  <2>4. QED
    BY <2>2, <2>3
<1>6. QED
  BY <1>5 DEF Max

\* Trimming keeps every coefficient.
LEMMA TrimCoeffs ==
    ASSUME NEW n \in Nat, NEW cs \in [1..n -> Field]
    PROVE  /\ Trim(cs) \in Polys /\ Trim(cs) \in Coeffs
           /\ Len(Trim(cs)) <= n
           /\ \A i \in 1..n : CoeffOf(Trim(cs), i) = cs[i]
           /\ n > 0 /\ cs[n] # 0 => Len(Trim(cs)) = n /\ Trim(cs)[n] = cs[n]
<1> DEFINE nonzero == {i \in 1..n : cs[i] # 0}
           m == IF nonzero = {} THEN 0 ELSE Max(nonzero)
           t == SubSeq(cs, 1, m)
<1>1. DOMAIN cs = 1..n
  OBVIOUS
<1>2. Trim(cs) = t
  BY <1>1 DEF Trim
<1>3. /\ nonzero # {} => Max(nonzero) \in nonzero
      /\ nonzero # {} => \A y \in nonzero : Max(nonzero) >= y
  <2>1. nonzero \in SUBSET (1..n)
    OBVIOUS
  <2> HIDE DEF nonzero
  <2>2. QED
    BY <2>1, MaxUpTo
<1>4. /\ m \in 0..n
      /\ m # 0 => cs[m] # 0
      /\ \A i \in 1..n : i > m => cs[i] = 0
  <2>1. CASE nonzero = {}
    BY <2>1
  <2>2. CASE nonzero # {}
    <3>1. m \in nonzero /\ \A y \in nonzero : m >= y
      BY <1>3, <2>2
    <3> HIDE DEF m
    <3>2. QED
      BY <3>1
  <2>3. QED
    BY <2>1, <2>2
<1> HIDE DEF m
<1>5. \A i \in 1..m : cs[i] \in Field
  BY <1>4
<1>6. /\ t \in Seq(Field) /\ Len(t) = m
      /\ \A i \in 1..m : t[i] = cs[i]
  <2>1. m \in Int /\ 1 \in Int
    BY <1>4
  <2>2. /\ t \in Seq(Field) /\ Len(t) = IF 1 <= m THEN m - 1 + 1 ELSE 0
        /\ \A i \in 1..(m - 1 + 1) : t[i] = cs[1 + i - 1]
    BY <1>5, <2>1, SubSeqProperties
  <2>3. m - 1 + 1 = m /\ \A i \in 1..m : 1 + i - 1 = i
    BY <2>1
  <2>4. QED
    BY <1>4, <2>2, <2>3
<1> HIDE DEF t, nonzero
<1>7. t \in Polys
  <2>1. CASE m = 0
    BY <1>6, <2>1, EmptySeq DEF Polys, Coeffs
  <2>2. CASE m # 0
    <3>1. m \in 1..m
      BY <1>4, <2>2
    <3>2. t[Len(t)] # 0
      BY <1>4, <1>6, <2>2, <3>1
    <3>3. QED
      BY <1>6, <3>2 DEF Polys, Coeffs
  <2>3. QED
    BY <2>1, <2>2
<1>8. ASSUME NEW i \in 1..n PROVE CoeffOf(t, i) = cs[i]
  BY <1>4, <1>6 DEF CoeffOf
<1>9. ASSUME n > 0, cs[n] # 0 PROVE Len(t) = n /\ t[n] = cs[n]
  BY <1>4, <1>6, <1>9
<1>10. QED
  BY <1>2, <1>4, <1>6, <1>7, <1>8, <1>9 DEF Polys

-----------------------------------------------------------------------------
(* Values of sums and products *)

\* What a sum is, coefficient by coefficient.
LEMMA PolyAddCoeffs ==
    ASSUME NEW f \in Coeffs, NEW g \in Coeffs
    PROVE  LET n == LongerLen(f, g)
               r == PolyAdd(f, g)
           IN /\ n \in Nat /\ Len(f) <= n /\ Len(g) <= n /\ Len(r) <= n
              /\ r \in Polys /\ r \in Coeffs
              /\ \A i \in 1..n : CoeffOf(r, i) = FAdd(CoeffOf(f, i), CoeffOf(g, i))
              /\ n > 0 /\ FAdd(CoeffOf(f, n), CoeffOf(g, n)) # 0
                   => Len(r) = n /\ r[n] = FAdd(CoeffOf(f, n), CoeffOf(g, n))
<1> DEFINE n == LongerLen(f, g)
           cs == [i \in 1..n |-> (CoeffOf(f, i) + CoeffOf(g, i)) % P]
<1>1. Len(f) \in Nat /\ Len(g) \in Nat
  BY DEF Coeffs
<1>2. n \in Nat /\ Len(f) <= n /\ Len(g) <= n
  BY <1>1 DEF LongerLen
<1> HIDE DEF n
<1>3. \A i \in 1..n : cs[i] = FAdd(CoeffOf(f, i), CoeffOf(g, i))
  BY DEF FAdd
<1>4. ASSUME NEW i \in 1..n PROVE FAdd(CoeffOf(f, i), CoeffOf(g, i)) \in Field
  <2>1. CoeffOf(f, i) \in Field /\ CoeffOf(g, i) \in Field
    BY <1>2, CoeffInField
  <2>2. QED
    BY <2>1, FieldRing
<1>5. cs \in [1..n -> Field]
  BY <1>4 DEF FAdd
<1>6. PolyAdd(f, g) = Trim(cs)
  BY DEF PolyAdd, n
<1> HIDE DEF cs
<1>7. /\ Trim(cs) \in Polys /\ Trim(cs) \in Coeffs
      /\ Len(Trim(cs)) <= n
      /\ \A i \in 1..n : CoeffOf(Trim(cs), i) = cs[i]
      /\ n > 0 /\ cs[n] # 0 => Len(Trim(cs)) = n /\ Trim(cs)[n] = cs[n]
  BY <1>2, <1>5, TrimCoeffs
<1>8. n > 0 => n \in 1..n
  BY <1>2
<1>9. QED
  BY <1>2, <1>3, <1>6, <1>7, <1>8 DEF n

\* The value of a sum is the sum of the values.
LEMMA PolyEvalAdd ==
    ASSUME NEW f \in Coeffs, NEW g \in Coeffs, NEW x \in Field
    PROVE  PolyEval(PolyAdd(f, g), x) = FAdd(PolyEval(f, x), PolyEval(g, x))
<1> DEFINE n == LongerLen(f, g)
           r == PolyAdd(f, g)
<1>1. /\ n \in Nat /\ Len(f) <= n /\ Len(g) <= n /\ Len(r) <= n
      /\ r \in Coeffs
      /\ \A i \in 1..n : CoeffOf(r, i) = FAdd(CoeffOf(f, i), CoeffOf(g, i))
  BY PolyAddCoeffs
<1> HIDE DEF n, r
<1>2. PICK a : IsHorner(a, f, n, x)
  BY <1>1, HornerExists
<1>3. PICK b : IsHorner(b, g, n, x)
  BY <1>1, HornerExists
<1> DEFINE h == [i \in 0..n |-> FAdd(a[i], b[i])]
<1>4. IsHorner(h, r, n, x)
  <2>1. h[0] = 0
    <3>1. a[0] = 0 /\ b[0] = 0 /\ FAdd(0, 0) = 0
      BY <1>2, <1>3, FieldRing DEF IsHorner
    <3>2. QED
      BY <1>1, <3>1
  <2>2. ASSUME NEW i \in 1..n PROVE h[i] = FAdd(FMul(h[i - 1], x), CoeffOf(r, n - i + 1))
    <3> DEFINE p == a[i - 1]
               q == b[i - 1]
               c == CoeffOf(f, n - i + 1)
               d == CoeffOf(g, n - i + 1)
    <3>1. i - 1 \in 0..n /\ i \in 0..n /\ n - i + 1 \in 1..n /\ n - i + 1 \in Int
      BY <1>1
    <3>2. p \in Field /\ q \in Field
      BY <1>1, <1>2, <1>3, <3>1, HornerUnique
    <3>3. c \in Field /\ d \in Field
      BY <3>1, CoeffInField
    <3>4. a[i] = FAdd(FMul(p, x), c) /\ b[i] = FAdd(FMul(q, x), d)
      BY <1>2, <1>3 DEF IsHorner
    <3>5. CoeffOf(r, n - i + 1) = FAdd(c, d)
      BY <1>1, <3>1
    <3>6. h[i] = FAdd(a[i], b[i]) /\ h[i - 1] = FAdd(p, q)
      BY <3>1
    <3> HIDE DEF p, q, c, d
    <3>7. FAdd(FAdd(FMul(p, x), c), FAdd(FMul(q, x), d)) = FAdd(FMul(FAdd(p, q), x), FAdd(c, d))
      <4> DEFINE u == FMul(p, x)
                 v == FMul(q, x)
      <4>1. u \in Field /\ v \in Field
        BY <3>2, FieldRing
      <4>2. FMul(FAdd(p, q), x) = FAdd(u, v)
        BY <3>2, FieldRing
      <4> HIDE DEF u, v
      <4>3. FAdd(FAdd(u, c), FAdd(v, d)) = FAdd(FAdd(u, v), FAdd(c, d))
        BY <3>3, <4>1, SumOfSums
      <4>4. QED
        BY <4>2, <4>3 DEF u, v
    <3>8. QED
      BY <3>4, <3>5, <3>6, <3>7
  <2> HIDE DEF h
  <2>3. QED
    BY <2>1, <2>2 DEF IsHorner
<1>5. h[n] = FAdd(a[n], b[n])
  BY <1>1
<1> HIDE DEF h
<1>6. PolyEval(r, x) = h[n]
  BY <1>1, <1>4, PolyEvalPadded
<1>7. PolyEval(f, x) = a[n] /\ PolyEval(g, x) = b[n]
  BY <1>1, <1>2, <1>3, PolyEvalPadded
<1>8. QED
  BY <1>5, <1>6, <1>7 DEF r

\* What a multiple is, coefficient by coefficient.
LEMMA PolyScaleCoeffs ==
    ASSUME NEW f \in Coeffs, NEW c \in Field
    PROVE  LET r == PolyScale(f, c)
           IN /\ Len(r) <= Len(f)
              /\ r \in Polys /\ r \in Coeffs
              /\ \A i \in 1..Len(f) : CoeffOf(r, i) = FMul(c, CoeffOf(f, i))
              /\ Len(f) > 0 /\ FMul(c, f[Len(f)]) # 0
                    => Len(r) = Len(f) /\ r[Len(f)] = FMul(c, f[Len(f)])
<1> DEFINE n == Len(f)
           cs == [i \in 1..n |-> (c * f[i]) % P]
<1>1. n \in Nat /\ DOMAIN f = 1..n /\ \A i \in 1..n : f[i] \in Field
  BY DEF Coeffs
<1> HIDE DEF n
<1>2. \A i \in 1..n : cs[i] = FMul(c, f[i])
  BY DEF FMul
<1>3. \A i \in 1..n : FMul(c, f[i]) \in Field
  BY <1>1, FieldRing
<1>4. cs \in [1..n -> Field]
  BY <1>3 DEF FMul
<1>5. PolyScale(f, c) = Trim(cs)
  BY <1>1 DEF PolyScale
<1> HIDE DEF cs
<1>6. /\ Trim(cs) \in Polys /\ Trim(cs) \in Coeffs
      /\ Len(Trim(cs)) <= n
      /\ \A i \in 1..n : CoeffOf(Trim(cs), i) = cs[i]
      /\ n > 0 /\ cs[n] # 0 => Len(Trim(cs)) = n /\ Trim(cs)[n] = cs[n]
  BY <1>1, <1>4, TrimCoeffs
<1>7. \A i \in 1..n : CoeffOf(f, i) = f[i]
  BY DEF CoeffOf, n
<1>8. n > 0 => n \in 1..n
  BY <1>1
<1>9. QED
  BY <1>2, <1>5, <1>6, <1>7, <1>8 DEF n

\* The value of a multiple is the multiple of the value.
LEMMA PolyEvalScale ==
    ASSUME NEW f \in Coeffs, NEW c \in Field, NEW x \in Field
    PROVE  PolyEval(PolyScale(f, c), x) = FMul(c, PolyEval(f, x))
<1> DEFINE n == Len(f)
           r == PolyScale(f, c)
<1>1. /\ Len(r) <= n /\ r \in Coeffs
      /\ \A i \in 1..n : CoeffOf(r, i) = FMul(c, CoeffOf(f, i))
  BY PolyScaleCoeffs
<1>2. n \in Nat /\ Len(f) <= n
  BY DEF Coeffs
<1> HIDE DEF n, r
<1>3. PICK a : IsHorner(a, f, n, x)
  BY <1>2, HornerExists
<1> DEFINE h == [i \in 0..n |-> FMul(c, a[i])]
<1>4. IsHorner(h, r, n, x)
  <2>1. h[0] = 0
    <3>1. a[0] = 0 /\ FMul(c, 0) = 0
      BY <1>3, FieldRing DEF IsHorner
    <3>2. QED
      BY <1>2, <3>1
  <2>2. ASSUME NEW i \in 1..n PROVE h[i] = FAdd(FMul(h[i - 1], x), CoeffOf(r, n - i + 1))
    <3> DEFINE p == a[i - 1]
               e == CoeffOf(f, n - i + 1)
    <3>1. i - 1 \in 0..n /\ i \in 0..n /\ n - i + 1 \in 1..n /\ n - i + 1 \in Int
      BY <1>2
    <3>2. p \in Field
      BY <1>2, <1>3, <3>1, HornerUnique
    <3>3. e \in Field
      BY <3>1, CoeffInField
    <3>4. a[i] = FAdd(FMul(p, x), e)
      BY <1>3 DEF IsHorner
    <3>5. CoeffOf(r, n - i + 1) = FMul(c, e)
      BY <1>1, <3>1
    <3>6. h[i] = FMul(c, a[i]) /\ h[i - 1] = FMul(c, p)
      BY <3>1
    <3> HIDE DEF p, e
    <3>7. FMul(c, FAdd(FMul(p, x), e)) = FAdd(FMul(FMul(c, p), x), FMul(c, e))
      <4> DEFINE u == FMul(p, x)
      <4>1. u \in Field /\ FMul(FMul(c, p), x) = FMul(c, u)
        BY <3>2, FieldRing
      <4> HIDE DEF u
      <4>2. FMul(c, FAdd(u, e)) = FAdd(FMul(c, u), FMul(c, e))
        BY <3>3, <4>1, MulOfSum
      <4>3. QED
        BY <4>1, <4>2 DEF u
    <3>8. QED
      BY <3>4, <3>5, <3>6, <3>7
  <2> HIDE DEF h
  <2>3. QED
    BY <2>1, <2>2 DEF IsHorner
<1>5. h[n] = FMul(c, a[n])
  BY <1>2
<1> HIDE DEF h
<1>6. PolyEval(r, x) = h[n]
  BY <1>1, <1>2, <1>4, PolyEvalPadded
<1>7. PolyEval(f, x) = a[n]
  BY <1>2, <1>3, PolyEvalPadded
<1>8. QED
  BY <1>5, <1>6, <1>7 DEF r

\* X times a polynomial.
TimesX(f) == IF f = <<>> THEN <<>> ELSE <<0>> \o f

\* Multiplying by X shifts the coefficients and multiplies the value by x.
LEMMA TimesXFacts ==
    ASSUME NEW f \in Coeffs
    PROVE  /\ TimesX(f) \in Coeffs
           /\ \A x \in Field : PolyEval(TimesX(f), x) = FMul(x, PolyEval(f, x))
           /\ f # <<>> => /\ Len(TimesX(f)) = Len(f) + 1
                          /\ TimesX(f)[Len(f) + 1] = f[Len(f)]
<1> DEFINE n == Len(f)
           r == <<0>> \o f
<1>1. CASE f = <<>>
  <2>1. TimesX(f) = <<>>
    BY <1>1 DEF TimesX
  <2>2. \A x \in Field : PolyEval(f, x) = 0 /\ FMul(x, 0) = 0
    BY <1>1, PolyEvalType, FieldRing
  <2>3. QED
    BY <1>1, <2>1, <2>2
<1>2. CASE f # <<>>
  <2>1. TimesX(f) = r
    BY <1>2 DEF TimesX
  <2>2. n \in Nat /\ n > 0
    BY <1>2, EmptySeq DEF Coeffs
  <2>3. <<0>> \in Seq(Field) /\ Len(<<0>>) = 1 /\ <<0>>[1] = 0
    BY FieldRing
  <2>4. /\ r \in Seq(Field)
        /\ Len(r) = Len(<<0>>) + n
        /\ \A i \in 1..(Len(<<0>>) + n) : r[i] = IF i <= Len(<<0>>) THEN <<0>>[i] ELSE f[i - Len(<<0>>)]
    BY <2>3, ConcatProperties DEF Coeffs
  <2>5. Len(r) = n + 1 /\ r[1] = 0 /\ \A i \in 1..n : r[i + 1] = f[i]
    <3>1. Len(r) = n + 1
      BY <2>2, <2>3, <2>4
    <3>2. r[1] = 0
      BY <2>2, <2>3, <2>4
    <3>3. ASSUME NEW i \in 1..n PROVE r[i + 1] = f[i]
      <4>1. i + 1 \in 1..(1 + n) /\ ~(i + 1 <= 1) /\ (i + 1) - 1 = i
        BY <2>2
      <4>2. QED
        BY <2>3, <2>4, <4>1
    <3>4. QED
      BY <3>1, <3>2, <3>3
  <2> HIDE DEF n, r
  <2>6. ASSUME NEW x \in Field PROVE PolyEval(r, x) = FMul(x, PolyEval(f, x))
    <3>1. r \in Coeffs
      BY <2>4 DEF Coeffs
    <3>2. PICK a : IsHorner(a, f, n, x) /\ PolyEval(f, x) = a[n]
      BY PolyEvalDef DEF n
    <3> DEFINE h == [i \in 0..(n + 1) |-> IF i = n + 1 THEN FMul(a[n], x) ELSE a[i]]
    <3>3. IsHorner(h, r, n + 1, x)
      <4>1. h[0] = 0
        BY <2>2, <3>2 DEF IsHorner
      <4>2. ASSUME NEW i \in 1..(n + 1)
            PROVE  h[i] = FAdd(FMul(h[i - 1], x), CoeffOf(r, (n + 1) - i + 1))
        <5>1. h[i - 1] = a[i - 1]
          BY <2>2
        <5>2. CASE i = n + 1
          <6>1. CoeffOf(r, (n + 1) - i + 1) = 0
            BY <2>2, <2>5, <5>2 DEF CoeffOf
          <6>2. a[n] \in Field
            BY <2>2, <3>2, HornerUnique
          <6>3. FMul(a[n], x) \in Field
            BY <6>2, FieldRing
          <6>4. FAdd(FMul(a[n], x), 0) = FMul(a[n], x)
            BY <6>3, FieldRing
          <6>5. i - 1 = n
            BY <2>2, <5>2
          <6>6. QED
            BY <5>1, <5>2, <6>1, <6>4, <6>5
        <5>3. CASE i \in 1..n
          <6>1. /\ n - i + 1 \in 1..n /\ (n + 1) - i + 1 = (n - i + 1) + 1
                /\ (n + 1) - i + 1 \in 1..(n + 1) /\ i # n + 1
            BY <2>2, <5>3
          <6>2. CoeffOf(r, (n + 1) - i + 1) = r[(n + 1) - i + 1]
            BY <2>5, <6>1 DEF CoeffOf
          <6>3. CoeffOf(f, n - i + 1) = f[n - i + 1]
            BY <6>1 DEF CoeffOf, n
          <6>4. r[(n - i + 1) + 1] = f[n - i + 1]
            BY <2>5, <6>1
          <6>5. a[i] = FAdd(FMul(a[i - 1], x), CoeffOf(f, n - i + 1))
            BY <3>2, <5>3 DEF IsHorner
          <6>6. h[i] = a[i]
            BY <6>1
          <6>7. QED
            BY <5>1, <6>1, <6>2, <6>3, <6>4, <6>5, <6>6
        <5>4. QED
          BY <2>2, <5>2, <5>3
      <4> HIDE DEF h
      <4>3. QED
        BY <4>1, <4>2 DEF IsHorner
    <3>4. h[n + 1] = FMul(a[n], x)
      BY <2>2
    <3> HIDE DEF h
    <3>5. PolyEval(r, x) = h[n + 1]
      <4>1. Len(r) <= n + 1 /\ n + 1 \in Nat
        BY <2>2, <2>5
      <4>2. QED
        BY <3>1, <3>3, <4>1, PolyEvalPadded
    <3>6. PolyEval(f, x) \in Field
      BY PolyEvalType
    <3>7. a[n] \in Field
      BY <3>2, <3>6
    <3>8. FMul(a[n], x) = FMul(x, a[n])
      BY <3>7, FieldRing
    <3>9. QED
      BY <3>2, <3>4, <3>5, <3>8
  <2>7. r \in Coeffs
    BY <2>4 DEF Coeffs
  <2>8. r[n + 1] = f[n]
    BY <2>2, <2>5
  <2>9. QED
    BY <2>1, <2>5, <2>6, <2>7, <2>8 DEF n
<1>3. QED
  BY <1>1, <1>2

\* The partial products of Horner's rule.
IsProduct(p, f, g) ==
    /\ p[0] = <<>>
    /\ \A i \in 1..Len(f) : p[i] = PolyAdd(TimesX(p[i - 1]), PolyScale(g, f[Len(f) - i + 1]))

\* There are such partial products.
LEMMA ProductExists ==
    ASSUME NEW f \in Coeffs, NEW g
    PROVE  \E p : IsProduct(p, f, g)
<1> DEFINE n == Len(f)
           Step(v, i) == PolyAdd(TimesX(v), PolyScale(g, f[n - i + 1]))
           Value(s, i) == IF i = 0 THEN <<>> ELSE Step(s[i - 1], i)
           Solves(s, m) == \A i \in 0..m : s[i] = Value(s, i)
           T == {m \in 0..n : \E s : Solves(s, m)}
<1>0. n \in Nat
  BY DEF Coeffs
<1>q. ASSUME NEW p, p[0] = <<>>, \A i \in 1..n : p[i] = Step(p[i - 1], i) PROVE IsProduct(p, f, g)
  BY <1>q DEF IsProduct
<1> HIDE DEF Step, n
<1>1. 0 \in T
  <2> DEFINE s == [i \in 0..0 |-> <<>>]
  <2>1. Solves(s, 0)
    OBVIOUS
  <2> HIDE DEF s, Solves
  <2>2. \E z : Solves(z, 0)
    BY <2>1
  <2>3. QED
    BY <1>0, <2>2
<1>2. ASSUME NEW m \in 0..(n - 1), m \in T PROVE m + 1 \in T
  <2>1. PICK s : Solves(s, m)
    BY <1>2
  <2> DEFINE t == [i \in 0..(m + 1) |-> IF i = m + 1 THEN Step(s[m], m + 1) ELSE s[i]]
  <2>2. Solves(t, m + 1)
    <3> SUFFICES ASSUME NEW i \in 0..(m + 1) PROVE t[i] = Value(t, i)
      OBVIOUS
    <3>1. CASE i = m + 1
      <4>1. i # 0 /\ i - 1 = m /\ m # m + 1 /\ m \in 0..(m + 1)
        BY <1>0, <3>1
      <4>2. t[i] = Step(s[m], m + 1) /\ t[i - 1] = s[m]
        BY <3>1, <4>1
      <4>3. QED
        BY <3>1, <4>1, <4>2
    <3>2. CASE i \in 0..m
      <4>1. s[i] = Value(s, i)
        BY <2>1, <3>2
      <4>2. t[i] = s[i]
        BY <1>0, <3>2
      <4>3. CASE i = 0
        BY <4>1, <4>2, <4>3
      <4>4. CASE i # 0
        <5>1. t[i - 1] = s[i - 1]
          BY <1>0, <3>2, <4>4
        <5>2. QED
          BY <4>1, <4>2, <4>4, <5>1
      <4>5. QED
        BY <4>3, <4>4
    <3>3. QED
      BY <1>0, <3>1, <3>2
  <2> HIDE DEF t, Solves
  <2>3. \E z : Solves(z, m + 1)
    BY <2>2
  <2>4. QED
    BY <1>0, <2>3
<1>3. 0..n \subseteq T
  <2> HIDE DEF T
  <2>1. QED
    BY <1>0, <1>1, <1>2, UpToInduction
<1>4. PICK s : Solves(s, n)
  BY <1>0, <1>3
<1>5. \A i \in 0..n : s[i] = Value(s, i)
  BY <1>4
<1>6. s[0] = <<>> /\ \A i \in 1..n : s[i] = Step(s[i - 1], i)
  BY <1>0, <1>5
<1>7. QED
  BY <1>6, <1>q

\* Partial products are polynomials that grow by one coefficient a step.
LEMMA PartialProducts ==
    ASSUME NEW f \in Coeffs, NEW g \in Coeffs, NEW p, IsProduct(p, f, g), NEW m \in 0..Len(f)
    PROVE  /\ p[m] \in Polys /\ p[m] \in Coeffs
           /\ Len(p[m]) = 0 \/ Len(p[m]) <= Len(g) + m - 1
<1> DEFINE n == Len(f)
           l == Len(g)
<1>1. /\ n \in Nat /\ \A i \in 1..n : f[n - i + 1] \in Field
      /\ l \in Nat
  BY DEF Coeffs
<1>2. p[0] = <<>> /\ \A i \in 1..n : p[i] = PolyAdd(TimesX(p[i - 1]), PolyScale(g, f[n - i + 1]))
  BY DEF IsProduct
<1>3. m \in 0..n
  OBVIOUS
<1> HIDE DEF n, l
<1> DEFINE S == {k \in 0..n : /\ p[k] \in Polys /\ p[k] \in Coeffs
                              /\ Len(p[k]) = 0 \/ Len(p[k]) <= l + k - 1}
<1>4. 0 \in S
  <2>1. <<>> \in Coeffs /\ <<>> \in Polys /\ Len(<<>>) = 0
    BY EmptySeq DEF Polys, Coeffs
  <2>2. QED
    BY <1>1, <1>2, <2>1
<1>5. ASSUME NEW k \in 0..(n - 1), k \in S PROVE k + 1 \in S
  <2> DEFINE q == p[k]
             a == TimesX(q)
             b == PolyScale(g, f[n - (k + 1) + 1])
             r == PolyAdd(a, b)
  <2>1. k + 1 \in 1..n /\ (k + 1) - 1 = k /\ k + 1 \in 0..n
    BY <1>1
  <2>2. q \in Coeffs /\ (Len(q) = 0 \/ Len(q) <= l + k - 1) /\ Len(q) \in Nat
    BY <1>5 DEF Coeffs
  <2>3. p[k + 1] = r
    BY <1>2, <2>1
  <2>4. f[n - (k + 1) + 1] \in Field
    BY <1>1, <2>1
  <2>5. b \in Coeffs /\ Len(b) <= l
    BY <2>4, PolyScaleCoeffs DEF l
  <2> HIDE DEF q, b
  <2>6. a \in Coeffs /\ (Len(a) = 0 \/ Len(a) <= l + k)
    <3>1. CASE q = <<>>
      <4>1. a = <<>>
        BY <3>1 DEF TimesX
      <4>2. QED
        BY <4>1 DEF Coeffs
    <3>2. CASE q # <<>>
      <4>1. a \in Coeffs /\ Len(a) = Len(q) + 1
        BY <2>2, <3>2, TimesXFacts
      <4>2. Len(q) # 0
        BY <2>2, <3>2, EmptySeq DEF Coeffs
      <4>3. QED
        BY <1>1, <2>2, <4>1, <4>2
    <3>3. QED
      BY <3>1, <3>2
  <2> HIDE DEF a
  <2>7. /\ r \in Polys /\ r \in Coeffs
        /\ Len(r) <= LongerLen(a, b)
    BY <2>5, <2>6, PolyAddCoeffs
  <2> HIDE DEF r
  <2>8. Len(r) \in Nat /\ Len(a) \in Nat /\ Len(b) \in Nat
    BY <2>5, <2>6, <2>7 DEF Coeffs
  <2>9. Len(r) = 0 \/ Len(r) <= l + (k + 1) - 1
    <3>1. Len(r) <= Len(a) \/ Len(r) <= Len(b)
      BY <2>7 DEF LongerLen
    <3>2. QED
      BY <1>1, <2>5, <2>6, <2>8, <3>1
  <2>10. QED
    BY <2>1, <2>3, <2>7, <2>9
<1>6. 0..n \subseteq S
  <2> HIDE DEF S
  <2>1. QED
    BY <1>1, <1>4, <1>5, UpToInduction
<1>7. QED
  BY <1>3, <1>6 DEF l

\* The k-th coefficient of a sum, of a multiple and of a shifted polynomial.
LEMMA SumCoeff ==
    ASSUME NEW f \in Coeffs, NEW g \in Coeffs, NEW k \in Nat, k > 0
    PROVE  CoeffOf(PolyAdd(f, g), k) = FAdd(CoeffOf(f, k), CoeffOf(g, k))
<1> DEFINE n == LongerLen(f, g)
           r == PolyAdd(f, g)
<1>1. /\ n \in Nat /\ Len(f) <= n /\ Len(g) <= n /\ Len(r) <= n
      /\ r \in Coeffs
      /\ \A i \in 1..n : CoeffOf(r, i) = FAdd(CoeffOf(f, i), CoeffOf(g, i))
  BY PolyAddCoeffs
<1>2. Len(f) \in Nat /\ Len(g) \in Nat /\ Len(r) \in Nat
  BY <1>1 DEF Coeffs
<1> HIDE DEF n, r
<1>3. CASE k <= n
  BY <1>1, <1>3 DEF r
<1>4. CASE k > n
  <2>1. CoeffOf(f, k) = 0 /\ CoeffOf(g, k) = 0 /\ CoeffOf(r, k) = 0
    BY <1>1, <1>2, <1>4 DEF CoeffOf
  <2>2. FAdd(0, 0) = 0
    BY FieldRing
  <2>3. QED
    BY <2>1, <2>2 DEF r
<1>5. QED
  BY <1>1, <1>3, <1>4

\* A coefficient of a multiple.
LEMMA MultipleCoeff ==
    ASSUME NEW f \in Coeffs, NEW c \in Field, NEW k \in Nat, k > 0
    PROVE  CoeffOf(PolyScale(f, c), k) = FMul(c, CoeffOf(f, k))
<1> DEFINE n == Len(f)
           r == PolyScale(f, c)
<1>1. /\ Len(r) <= n /\ r \in Coeffs
      /\ \A i \in 1..n : CoeffOf(r, i) = FMul(c, CoeffOf(f, i))
  BY PolyScaleCoeffs
<1>2. n \in Nat /\ Len(r) \in Nat
  BY <1>1 DEF Coeffs
<1> HIDE DEF r
<1>3. CASE k <= n
  BY <1>1, <1>2, <1>3 DEF r
<1>4. CASE k > n
  <2>1. CoeffOf(f, k) = 0 /\ CoeffOf(r, k) = 0
    BY <1>1, <1>2, <1>4 DEF CoeffOf
  <2>2. FMul(c, 0) = 0
    BY FieldRing
  <2>3. QED
    BY <2>1, <2>2 DEF r
<1>5. QED
  BY <1>2, <1>3, <1>4

\* A coefficient of X times a polynomial.
LEMMA ShiftedCoeff ==
    ASSUME NEW f \in Coeffs, NEW k \in Nat, k > 0
    PROVE  CoeffOf(TimesX(f), k) = CoeffOf(f, k - 1)
<1> DEFINE n == Len(f)
           r == <<0>> \o f
<1>1. n \in Nat
  BY DEF Coeffs
<1>2. CASE f = <<>>
  <2>1. TimesX(f) = <<>> /\ Len(<<>>) = 0
    BY <1>2 DEF TimesX
  <2>2. QED
    BY <1>2, <2>1 DEF CoeffOf
<1>3. CASE f # <<>>
  <2>1. TimesX(f) = r
    BY <1>3 DEF TimesX
  <2>2. <<0>> \in Seq(Field) /\ Len(<<0>>) = 1 /\ <<0>>[1] = 0
    BY FieldRing
  <2>3. /\ r \in Seq(Field)
        /\ Len(r) = Len(<<0>>) + n
        /\ \A i \in 1..(Len(<<0>>) + n) : r[i] = IF i <= Len(<<0>>) THEN <<0>>[i] ELSE f[i - Len(<<0>>)]
    BY <2>2, ConcatProperties DEF Coeffs
  <2> HIDE DEF n, r
  <2>4. Len(r) = n + 1 /\ \A i \in 1..(n + 1) : r[i] = IF i <= 1 THEN 0 ELSE f[i - 1]
    BY <1>1, <2>2, <2>3
  <2>5. CASE k = 1
    <3>1. CoeffOf(r, k) = 0
      BY <1>1, <2>4, <2>5 DEF CoeffOf
    <3>2. CoeffOf(f, k - 1) = 0
      BY <2>5 DEF CoeffOf
    <3>3. QED
      BY <2>1, <3>1, <3>2
  <2>6. CASE k > 1 /\ k <= n + 1
    <3>1. k \in 1..(n + 1) /\ ~(k <= 1) /\ k - 1 \in 1..n
      BY <1>1, <2>6
    <3>2. CoeffOf(r, k) = f[k - 1]
      BY <2>4, <3>1 DEF CoeffOf
    <3>3. CoeffOf(f, k - 1) = f[k - 1]
      BY <3>1 DEF CoeffOf, n
    <3>4. QED
      BY <2>1, <3>2, <3>3
  <2>7. CASE k > n + 1
    <3>1. CoeffOf(r, k) = 0
      BY <1>1, <2>4, <2>7 DEF CoeffOf
    <3>2. CoeffOf(f, k - 1) = 0
      BY <1>1, <2>7 DEF CoeffOf, n
    <3>3. QED
      BY <2>1, <3>1, <3>2
  <2>8. QED
    BY <1>1, <2>5, <2>6, <2>7
<1>4. QED
  BY <1>2, <1>3

\* A polynomial is its coefficients.
LEMMA SameCoeffs ==
    ASSUME NEW f \in Polys, NEW g \in Polys, NEW n \in Nat, Len(f) <= n, Len(g) <= n,
           \A i \in 1..n : CoeffOf(f, i) = CoeffOf(g, i)
    PROVE  f = g
<1>1. /\ f \in Seq(Field) /\ g \in Seq(Field) /\ Len(f) \in Nat /\ Len(g) \in Nat
      /\ Len(f) # 0 => f[Len(f)] # 0
      /\ Len(g) # 0 => g[Len(g)] # 0
  BY EmptySeq DEF Polys, Coeffs
<1>2. ASSUME NEW a \in Polys, NEW b \in Polys, Len(a) \in Nat, Len(b) \in Nat,
             Len(b) # 0 => b[Len(b)] # 0,
             Len(b) <= n, \A i \in 1..n : CoeffOf(a, i) = CoeffOf(b, i)
      PROVE  Len(b) <= Len(a)
  <2>1. SUFFICES ASSUME Len(a) < Len(b) PROVE FALSE
    BY <1>2
  <2>2. Len(b) \in 1..n /\ Len(b) \in 1..Len(b) /\ ~(Len(b) \in 1..Len(a))
    BY <1>2, <2>1
  <2>3. CoeffOf(a, Len(b)) = 0 /\ CoeffOf(b, Len(b)) = b[Len(b)]
    BY <2>2 DEF CoeffOf
  <2>4. QED
    BY <1>2, <2>2, <2>3
<1>3. Len(f) <= Len(g) /\ Len(g) <= Len(f)
  BY <1>1, <1>2
<1>4. Len(f) = Len(g)
  BY <1>1, <1>3
<1>5. ASSUME NEW i \in 1..Len(f) PROVE f[i] = g[i]
  <2>1. i \in 1..n /\ i \in 1..Len(g)
    BY <1>1, <1>4
  <2>2. CoeffOf(f, i) = f[i] /\ CoeffOf(g, i) = g[i]
    BY <2>1 DEF CoeffOf
  <2>3. QED
    BY <2>1, <2>2
<1>6. QED
  BY <1>1, <1>4, <1>5, SeqEqual

\* PolyMul is a product by Horner's rule.
LEMMA PolyMulDef ==
    ASSUME NEW f \in Coeffs, NEW g \in Coeffs
    PROVE  \E p : IsProduct(p, f, g) /\ PolyMul(f, g) = p[Len(f)]
<1> DEFINE n == Len(f)
           size == n + Len(g) - 1
           D == (0..n) \X (0..size)
           Value(c, at) == IF at[1] = 0 \/ at[2] = 0 THEN 0
                           ELSE (c[<<at[1] - 1, at[2] - 1>>]
                                   + f[n - at[1] + 1] * CoeffOf(g, at[2])) % P
           coeff == CHOOSE c : c = [at \in D |-> Value(c, at)]
           cs == [k \in 1..size |-> coeff[<<n, k>>]]
<1>1. n \in Nat /\ Len(g) \in Nat /\ size \in Int
  BY DEF Coeffs
<1>2. \A i \in 1..n : f[n - i + 1] \in Field
  BY <1>1 DEF Coeffs
<1>3. PICK p : IsProduct(p, f, g)
  BY ProductExists
<1>4. p[0] = <<>> /\ \A i \in 1..n : p[i] = PolyAdd(TimesX(p[i - 1]), PolyScale(g, f[n - i + 1]))
  BY <1>3 DEF IsProduct
<1>5. \A m \in 0..n : p[m] \in Polys /\ p[m] \in Coeffs /\ (Len(p[m]) = 0 \/ Len(p[m]) <= size + m - n)
  <2>1. \A m \in 0..n : p[m] \in Polys /\ p[m] \in Coeffs /\ (Len(p[m]) = 0 \/ Len(p[m]) <= Len(g) + m - 1)
    BY <1>3, PartialProducts
  <2>2. \A m \in 0..n : Len(g) + m - 1 = size + m - n
    BY <1>1
  <2>3. QED
    BY <2>1, <2>2
<1>6. PolyMul(f, g) = Trim(cs)
  BY DEF PolyMul
<1> HIDE DEF n, size
<1>7. ASSUME NEW i \in 0..n PROVE CoeffOf(p[i], 0) = 0 /\ CoeffOf(p[0], i) = 0
  BY <1>4 DEF CoeffOf
<1>8. ASSUME NEW i \in 1..n, NEW k \in 1..size
      PROVE  CoeffOf(p[i], k) = (CoeffOf(p[i - 1], k - 1) + f[n - i + 1] * CoeffOf(g, k)) % P
  <2> DEFINE q == p[i - 1]
             e == f[n - i + 1]
             a == TimesX(q)
             b == PolyScale(g, e)
             x == CoeffOf(q, k - 1)
             y == CoeffOf(g, k)
  <2>1. i - 1 \in 0..n /\ k \in Nat /\ k > 0
    BY <1>1
  <2>2. q \in Coeffs /\ e \in Field
    BY <1>2, <1>5, <2>1
  <2>3. p[i] = PolyAdd(a, b)
    BY <1>4
  <2> HIDE DEF q, e
  <2>4. a \in Coeffs /\ b \in Coeffs
    BY <2>2, TimesXFacts, PolyScaleCoeffs
  <2>5. CoeffOf(a, k) = x
    BY <2>1, <2>2, ShiftedCoeff
  <2>6. CoeffOf(b, k) = FMul(e, y)
    BY <2>1, <2>2, MultipleCoeff
  <2> HIDE DEF a, b
  <2>7. CoeffOf(PolyAdd(a, b), k) = FAdd(x, FMul(e, y))
    BY <2>1, <2>4, <2>5, <2>6, SumCoeff
  <2>8. x \in Field /\ y \in Field
    BY <2>1, <2>2, CoeffInField
  <2> HIDE DEF x, y
  <2>9. x \in Int /\ e * y \in Int
    BY <2>2, <2>8, FieldIsInt
  <2> DEFINE m == e * y
  <2>10. FAdd(x, FMul(e, y)) = (x + (m % P)) % P
    BY DEF FAdd, FMul
  <2> HIDE DEF m
  <2>11. ((m % P) + x) % P = (m + x) % P
    BY <2>9, ReduceFirst DEF m
  <2>12. m % P \in Int
    BY <2>9, ResidueInField, FieldIsInt DEF m
  <2>13. (m % P) + x = x + (m % P) /\ m + x = x + m
    BY <2>9, <2>12 DEF m
  <2>14. CoeffOf(p[i], k) = (x + m) % P
    BY <2>3, <2>7, <2>10, <2>11, <2>13
  <2>15. QED
    BY <2>14 DEF x, y, m, q, e
<1> DEFINE w == [at \in D |-> CoeffOf(p[at[1]], at[2])]
<1>9. w = [at \in D |-> Value(w, at)]
  <2>1. ASSUME NEW at \in D PROVE w[at] = Value(w, at)
    <3> DEFINE i == at[1]
               k == at[2]
    <3>1. i \in 0..n /\ k \in 0..size /\ w[at] = CoeffOf(p[i], k)
      BY <2>1
    <3>2. CASE i = 0 \/ k = 0
      <4>1. CoeffOf(p[i], k) = 0
        BY <1>4, <3>1, <3>2 DEF CoeffOf
      <4>2. QED
        BY <3>1, <3>2, <4>1
    <3>3. CASE i # 0 /\ k # 0
      <4>1. i \in 1..n /\ k \in 1..size /\ <<i - 1, k - 1>> \in D
        BY <1>1, <3>1, <3>3
      <4>2. w[<<i - 1, k - 1>>] = CoeffOf(p[i - 1], k - 1)
        BY <4>1
      <4>3. CoeffOf(p[i], k) = (CoeffOf(p[i - 1], k - 1) + f[n - i + 1] * CoeffOf(g, k)) % P
        BY <1>8, <4>1
      <4> HIDE DEF w
      <4>4. QED
        BY <3>1, <3>3, <4>2, <4>3
    <3>4. QED
      BY <3>2, <3>3
  <2>2. w = [at \in D |-> w[at]]
    OBVIOUS
  <2> HIDE DEF w, Value
  <2>3. QED
    BY <2>1, <2>2
<1> HIDE DEF w
<1> DEFINE step == [at \in D |-> Value(coeff, at)]
<1>10. coeff = step
  BY <1>9
<1> HIDE DEF coeff
<1>11. ASSUME NEW i \in 0..n, NEW k \in 0..size
       PROVE  /\ i = 0 \/ k = 0 => coeff[<<i, k>>] = 0
              /\ i # 0 /\ k # 0 => coeff[<<i, k>>] =
                    (coeff[<<i - 1, k - 1>>] + f[n - i + 1] * CoeffOf(g, k)) % P
  <2>1. <<i, k>> \in D /\ <<i, k>>[1] = i /\ <<i, k>>[2] = k
    OBVIOUS
  <2>2. step[<<i, k>>] = Value(coeff, <<i, k>>)
    BY <2>1
  <2> HIDE DEF step, D
  <2>3. coeff[<<i, k>>] = Value(coeff, <<i, k>>)
    BY <1>10, <2>2
  <2>4. QED
    BY <2>1, <2>3
<1> HIDE DEF step, D, Value
<1> DEFINE T == {i \in 0..n : \A k \in 0..size : coeff[<<i, k>>] = CoeffOf(p[i], k)}
<1>12. 0 \in T
  <2>1. 0 \in 0..n
    BY <1>1
  <2>2. ASSUME NEW k \in 0..size PROVE coeff[<<0, k>>] = CoeffOf(p[0], k)
    <3>1. coeff[<<0, k>>] = 0
      BY <1>11, <2>1
    <3>2. CoeffOf(p[0], k) = 0
      BY <1>4 DEF CoeffOf
    <3>3. QED
      BY <3>1, <3>2
  <2>3. QED
    BY <2>1, <2>2
<1>13. ASSUME NEW m \in 0..(n - 1), m \in T PROVE m + 1 \in T
  <2>1. m + 1 \in 0..n /\ m + 1 # 0 /\ (m + 1) - 1 = m /\ m + 1 \in 1..n
    BY <1>1
  <2>2. ASSUME NEW k \in 0..size PROVE coeff[<<m + 1, k>>] = CoeffOf(p[m + 1], k)
    <3>1. CASE k = 0
      BY <1>7, <1>11, <2>1, <3>1
    <3>2. CASE k # 0
      <4>1. k \in 1..size /\ k - 1 \in 0..size
        BY <1>1, <3>2
      <4>2. coeff[<<m, k - 1>>] = CoeffOf(p[m], k - 1)
        BY <1>13, <4>1
      <4>3. coeff[<<m + 1, k>>] = (coeff[<<(m + 1) - 1, k - 1>>] + f[n - (m + 1) + 1] * CoeffOf(g, k)) % P
        BY <1>11, <2>1, <3>2
      <4>4. CoeffOf(p[m + 1], k) = (CoeffOf(p[(m + 1) - 1], k - 1) + f[n - (m + 1) + 1] * CoeffOf(g, k)) % P
        BY <1>8, <2>1, <4>1
      <4>5. QED
        BY <2>1, <4>2, <4>3, <4>4
    <3>3. QED
      BY <3>1, <3>2
  <2>3. QED
    BY <2>1, <2>2
<1>14. 0..n \subseteq T
  <2> HIDE DEF T
  <2>1. QED
    BY <1>1, <1>12, <1>13, UpToInduction
<1>15. \A k \in 1..size : cs[k] = CoeffOf(p[n], k)
  BY <1>1, <1>14
<1> HIDE DEF cs, T
<1> DEFINE l == IF size < 0 THEN 0 ELSE size
<1>16. l \in Nat /\ 1..size = 1..l
  BY <1>1
<1>17. cs \in [1..l -> Field]
  <2>1. \A k \in 1..l : cs[k] \in Field
    <3>1. p[n] \in Coeffs
      BY <1>1, <1>5
    <3>2. QED
      BY <1>15, <1>16, <3>1, CoeffInField
  <2>2. cs = [k \in 1..l |-> cs[k]]
    <3>1. cs = [k \in 1..size |-> cs[k]]
      BY DEF cs
    <3>2. QED
      BY <1>16, <3>1
  <2>3. QED
    BY <2>1, <2>2
<1>18. /\ Trim(cs) \in Polys /\ Len(Trim(cs)) <= l
       /\ \A i \in 1..l : CoeffOf(Trim(cs), i) = cs[i]
  BY <1>16, <1>17, TrimCoeffs
<1>19. p[n] \in Polys /\ Len(p[n]) <= l
  <2>1. n \in 0..n /\ size + n - n = size
    BY <1>1
  <2>2. p[n] \in Polys /\ (Len(p[n]) = 0 \/ Len(p[n]) <= size) /\ Len(p[n]) \in Nat
    BY <1>5, <2>1 DEF Coeffs
  <2>3. QED
    BY <1>1, <2>2
<1>20. \A i \in 1..l : CoeffOf(Trim(cs), i) = CoeffOf(p[n], i)
  BY <1>15, <1>16, <1>18
<1> HIDE DEF l
<1>21. Trim(cs) = p[n]
  BY <1>16, <1>18, <1>19, <1>20, SameCoeffs
<1>22. QED
  BY <1>3, <1>6, <1>21 DEF n

\* A product is a polynomial, and its value the product of the values.
LEMMA PolyEvalMul ==
    ASSUME NEW f \in Coeffs, NEW g \in Coeffs
    PROVE  /\ PolyMul(f, g) \in Polys /\ PolyMul(f, g) \in Coeffs
           /\ \A x \in Field : PolyEval(PolyMul(f, g), x) = FMul(PolyEval(f, x), PolyEval(g, x))
<1> DEFINE n == Len(f)
<1>1. n \in Nat /\ \A i \in 1..n : f[n - i + 1] \in Field /\ CoeffOf(f, n - i + 1) = f[n - i + 1]
  <2>1. n \in Nat /\ \A i \in 1..n : f[i] \in Field /\ CoeffOf(f, i) = f[i]
    BY DEF Coeffs, CoeffOf
  <2>2. \A i \in 1..n : n - i + 1 \in 1..n
    BY <2>1
  <2>3. QED
    BY <2>1, <2>2
<1>2. PICK p : IsProduct(p, f, g) /\ PolyMul(f, g) = p[n]
  BY PolyMulDef
<1>2a. p[0] = <<>> /\ \A i \in 1..n : p[i] = PolyAdd(TimesX(p[i - 1]), PolyScale(g, f[n - i + 1]))
  BY <1>2 DEF IsProduct
<1>3. \A m \in 0..n : p[m] \in Polys /\ p[m] \in Coeffs
  BY <1>2, PartialProducts
<1> HIDE DEF n
<1>4. ASSUME NEW m \in 0..(n - 1), p[m] \in Coeffs
      PROVE  LET a == TimesX(p[m])
                 b == PolyScale(g, f[n - (m + 1) + 1])
             IN  a \in Coeffs /\ b \in Coeffs /\ p[m + 1] = PolyAdd(a, b)
  <2>1. m + 1 \in 1..n /\ (m + 1) - 1 = m
    BY <1>1
  <2>2. f[n - (m + 1) + 1] \in Field
    BY <1>1, <2>1
  <2>3. TimesX(p[m]) \in Coeffs
    BY <1>4, TimesXFacts
  <2>4. PolyScale(g, f[n - (m + 1) + 1]) \in Coeffs
    BY <2>2, PolyScaleCoeffs
  <2>5. QED
    BY <1>2a, <2>1, <2>3, <2>4
<1>7. \A m \in 0..n : p[m] \in Polys /\ p[m] \in Coeffs
  BY <1>3
<1>8. ASSUME NEW x \in Field PROVE PolyEval(p[n], x) = FMul(PolyEval(f, x), PolyEval(g, x))
  <2> DEFINE y == PolyEval(g, x)
  <2>1. y \in Field
    BY PolyEvalType
  <2>2. PICK h : IsHorner(h, f, n, x) /\ PolyEval(f, x) = h[n]
    BY PolyEvalDef DEF n
  <2> DEFINE T == {m \in 0..n : PolyEval(p[m], x) = FMul(h[m], y)}
  <2>3. 0 \in T
    <3>1. PolyEval(<<>>, x) = 0
      BY PolyEvalType
    <3>2. FMul(0, y) = 0
      BY <2>1, FieldZero
    <3>3. h[0] = 0
      BY <2>2 DEF IsHorner
    <3> HIDE DEF y
    <3>4. QED
      BY <1>1, <1>2a, <3>1, <3>2, <3>3
  <2>4. ASSUME NEW m \in 0..(n - 1), m \in T PROVE m + 1 \in T
    <3> DEFINE c == f[n - (m + 1) + 1]
               a == TimesX(p[m])
               b == PolyScale(g, c)
    <3>1. m + 1 \in 1..n /\ (m + 1) - 1 = m /\ m \in 0..n /\ m + 1 \in 0..n
      BY <1>1
    <3>2. p[m] \in Coeffs
      BY <1>7, <3>1
    <3>3. c \in Field /\ CoeffOf(f, n - (m + 1) + 1) = c
      BY <1>1, <3>1
    <3>4. a \in Coeffs /\ b \in Coeffs /\ p[m + 1] = PolyAdd(a, b)
      BY <1>4, <3>2
    <3>5. h[m] \in Field
      BY <1>1, <2>2, <3>1, HornerUnique
    <3>6. h[m + 1] = FAdd(FMul(h[m], x), c)
      BY <2>2, <3>1, <3>3 DEF IsHorner
    <3>7. PolyEval(a, x) = FMul(x, PolyEval(p[m], x))
      BY <3>2, TimesXFacts
    <3>8. PolyEval(b, x) = FMul(c, y)
      BY <3>3, PolyEvalScale
    <3>9. PolyEval(p[m], x) = FMul(h[m], y)
      BY <2>4
    <3>10. PolyEval(p[m + 1], x) = FAdd(FMul(x, FMul(h[m], y)), FMul(c, y))
      <4> HIDE DEF a, b
      <4>1. PolyEval(PolyAdd(a, b), x) = FAdd(PolyEval(a, x), PolyEval(b, x))
        BY <3>4, PolyEvalAdd
      <4>2. QED
        BY <3>4, <3>7, <3>8, <3>9, <4>1
    <3> DEFINE u == h[m]
    <3> HIDE DEF c, y, u
    <3>11. u \in Field
      BY <3>5 DEF u
    <3>12. FMul(x, FMul(u, y)) = FMul(FMul(u, x), y)
      <4>1. FMul(x, FMul(u, y)) = FMul(FMul(x, u), y)
        BY <2>1, <3>11, FieldRing
      <4>2. FMul(x, u) = FMul(u, x)
        BY <3>11, FieldRing
      <4>3. QED
        BY <4>1, <4>2
    <3>13. FMul(u, x) \in Field
      BY <3>11, FieldRing
    <3>14. FMul(FAdd(FMul(u, x), c), y) = FAdd(FMul(FMul(u, x), y), FMul(c, y))
      BY <2>1, <3>3, <3>13, FieldRing
    <3>15. PolyEval(p[m + 1], x) = FMul(h[m + 1], y)
      BY <3>6, <3>10, <3>12, <3>14 DEF u
    <3>16. QED
      BY <3>1, <3>15
  <2>5. 0..n \subseteq T
    <3> HIDE DEF T
    <3>1. QED
      BY <1>1, <2>3, <2>4, UpToInduction
  <2>6. PolyEval(p[n], x) = FMul(h[n], y)
    BY <1>1, <2>5
  <2>7. QED
    BY <2>2, <2>6
<1>9. QED
  BY <1>1, <1>2, <1>7, <1>8

\* The value of a difference is the difference of the values.
LEMMA PolyEvalSub ==
    ASSUME NEW f \in Coeffs, NEW g \in Coeffs
    PROVE  /\ PolySub(f, g) \in Polys /\ PolySub(f, g) \in Coeffs
           /\ \A x \in Field : PolyEval(PolySub(f, g), x)
                                 = FAdd(PolyEval(f, x), FMul(P - 1, PolyEval(g, x)))
<1> DEFINE s == PolyScale(g, P - 1)
<1>1. s \in Coeffs
  BY MinusOne, PolyScaleCoeffs
<1>2. \A x \in Field : PolyEval(s, x) = FMul(P - 1, PolyEval(g, x))
  BY MinusOne, PolyEvalScale
<1> HIDE DEF s
<1>3. PolySub(f, g) = PolyAdd(f, s)
  BY DEF PolySub, s
<1>4. PolyAdd(f, s) \in Polys /\ PolyAdd(f, s) \in Coeffs
  BY <1>1, PolyAddCoeffs
<1>5. \A x \in Field : PolyEval(PolyAdd(f, s), x) = FAdd(PolyEval(f, x), PolyEval(s, x))
  BY <1>1, PolyEvalAdd
<1>6. QED
  BY <1>2, <1>3, <1>4, <1>5

-----------------------------------------------------------------------------
(* Division *)

\* The product of nonzero polynomials is not zero: the leading coefficients
\* multiply, and there are no zero divisors.
LEMMA PolyMulNonzero ==
    ASSUME NEW f \in Polys, NEW g \in Polys, f # <<>>, g # <<>>
    PROVE  PolyMul(f, g) # <<>> /\ Len(PolyMul(f, g)) = Len(f) + Len(g) - 1
<1> DEFINE n == Len(f)
           k == Len(g)
<1>1. /\ f \in Coeffs /\ g \in Coeffs /\ n \in Nat /\ k \in Nat /\ n > 0 /\ k > 0
      /\ f[n] # 0 /\ g[k] # 0 /\ f[n] \in Field /\ g[k] \in Field
      /\ \A i \in 1..n : f[i] \in Field
  BY EmptySeq DEF Polys, Coeffs
<1>2. PICK p : IsProduct(p, f, g) /\ PolyMul(f, g) = p[n]
  BY <1>1, PolyMulDef
<1>3. p[0] = <<>> /\ \A i \in 1..n : p[i] = PolyAdd(TimesX(p[i - 1]), PolyScale(g, f[n - i + 1]))
  BY <1>2 DEF IsProduct
<1> HIDE DEF n, k
<1> DEFINE Lead(q, i) == q \in Coeffs /\ Len(q) = k + i - 1 /\ q[k + i - 1] # 0
           T == {m \in 0..n : m = 0 \/ Lead(p[m], m)}
<1>4. 0 \in T
  BY <1>1
<1>5. ASSUME NEW m \in 0..(n - 1), m \in T PROVE m + 1 \in T
  <2> DEFINE c == f[n - (m + 1) + 1]
             a == TimesX(p[m])
             b == PolyScale(g, c)
             l == LongerLen(a, b)
             r == PolyAdd(a, b)
  <2>1. m + 1 \in 1..n /\ (m + 1) - 1 = m /\ n - (m + 1) + 1 = n - m /\ n - m \in 1..n
    BY <1>1
  <2>2. p[m + 1] = r
    BY <1>3, <2>1
  <2>3. c \in Field
    BY <1>1, <2>1
  <2>4. b \in Coeffs /\ Len(b) <= k
    BY <1>1, <2>3, PolyScaleCoeffs DEF k
  <2>5. a \in Coeffs => /\ r \in Coeffs
                        /\ l > 0 /\ FAdd(CoeffOf(a, l), CoeffOf(b, l)) # 0
                              => Len(r) = l /\ r[l] = FAdd(CoeffOf(a, l), CoeffOf(b, l))
    BY <2>4, PolyAddCoeffs
  <2>6. CASE m = 0
    <3>0. n - (m + 1) + 1 = n
      BY <1>1, <2>6
    <3>1. c = f[n] /\ p[m] = <<>>
      BY <1>3, <2>6, <3>0
    <3>2. a = <<>> /\ a \in Coeffs
      BY <3>1, PolyEvalType, FieldRing DEF TimesX, Coeffs
    <3>3. FMul(c, g[k]) # 0
      BY <1>1, <3>1, NoZeroDivisors DEF FMul
    <3>4. Len(b) = k /\ b[k] # 0
      BY <1>1, <2>3, <3>3, PolyScaleCoeffs DEF k
    <3>5. l = k
      BY <1>1, <3>2, <3>4 DEF LongerLen
    <3>6. CoeffOf(a, l) = 0 /\ CoeffOf(b, l) = b[k]
      BY <1>1, <3>2, <3>4, <3>5 DEF CoeffOf
    <3>7. b[k] \in Field
      BY <1>1, <2>4, <3>4 DEF Coeffs
    <3>8. FAdd(CoeffOf(a, l), CoeffOf(b, l)) = b[k]
      BY <3>6, <3>7, FieldZero
    <3> HIDE DEF a, b, l, r
    <3>9. r \in Coeffs /\ Len(r) = k /\ r[k] # 0
      BY <1>1, <2>5, <3>2, <3>4, <3>5, <3>8
    <3>10. k + (m + 1) - 1 = k
      BY <1>1, <2>6
    <3>11. Lead(p[m + 1], m + 1)
      BY <2>2, <3>9, <3>10
    <3>12. QED
      BY <2>1, <3>11
  <2>7. CASE m # 0
    <3> DEFINE e == k + m - 1
               q == p[m]
    <3>1. q \in Coeffs /\ Len(q) = e /\ q[e] # 0 /\ e \in Nat /\ e > 0
      BY <1>1, <1>5, <2>7
    <3>2. a \in Coeffs /\ Len(a) = e + 1 /\ a[e + 1] # 0
      <4>1. q # <<>>
        BY <3>1
      <4>2. QED
        BY <3>1, <4>1, TimesXFacts
    <3>3. l = e + 1
      BY <1>1, <2>4, <3>1, <3>2 DEF LongerLen, Coeffs
    <3>4. CoeffOf(a, l) = a[e + 1] /\ CoeffOf(b, l) = 0
      <4>1. Len(b) \in Nat /\ Len(b) < e + 1
        BY <1>1, <2>4, <2>7, <3>1 DEF Coeffs
      <4> HIDE DEF a, b, e
      <4>2. QED
        BY <3>1, <3>2, <3>3, <4>1 DEF CoeffOf
    <3>5. a[e + 1] \in Field
      BY <3>1, <3>2 DEF Coeffs
    <3> HIDE DEF a, b, l, r
    <3>6. FAdd(CoeffOf(a, l), CoeffOf(b, l)) = a[e + 1]
      BY <3>4, <3>5, FieldRing
    <3>7. r \in Coeffs /\ Len(r) = e + 1 /\ r[e + 1] # 0
      BY <2>5, <3>1, <3>2, <3>3, <3>6
    <3>8. k + (m + 1) - 1 = e + 1
      BY <1>1
    <3>9. Lead(p[m + 1], m + 1)
      BY <2>2, <3>7, <3>8
    <3>10. QED
      BY <2>1, <3>9
  <2>8. QED
    BY <2>6, <2>7
<1>6. 0..n \subseteq T
  <2> HIDE DEF T
  <2>1. QED
    BY <1>1, <1>4, <1>5, UpToInduction
<1>7. Lead(p[n], n)
  BY <1>1, <1>6
<1>8. Len(p[n]) = n + k - 1 /\ p[n] # <<>>
  BY <1>1, <1>7
<1>9. QED
  BY <1>2, <1>8 DEF n, k

\* One step of the division.
NextDivision(div, g) ==
    IF Len(div.r) < Len(g) THEN div ELSE DivStep(div, g, LeadingTerm(div.r, g))

\* The steps of a division.
IsDivision(p, f, g) ==
    /\ p[0] = [q |-> <<>>, r |-> f]
    /\ \A i \in 1..Len(f) : p[i] = NextDivision(p[i - 1], g)

\* PolyDivRem is as many steps as the dividend has coefficients.
LEMMA PolyDivRemDef ==
    ASSUME NEW f \in Coeffs, NEW g
    PROVE  \E p : IsDivision(p, f, g) /\ PolyDivRem(f, g) = p[Len(f)]
<1> DEFINE n == Len(f)
           start == [q |-> <<>>, r |-> f]
           Step(v, i) == NextDivision(v, g)
           Value(s, i) == IF i = 0 THEN start ELSE Step(s[i - 1], i)
           Solves(s, m) == \A i \in 0..m : s[i] = Value(s, i)
           T == {m \in 0..n : \E s : Solves(s, m)}
<1>0. n \in Nat
  BY DEF Coeffs
<1>p. PolyDivRem(f, g) = (CHOOSE s : s = [i \in 0..n |-> Value(s, i)])[n]
  BY DEF PolyDivRem, NextDivision
<1>q. ASSUME NEW p, p[0] = start, \A i \in 1..n : p[i] = Step(p[i - 1], i) PROVE IsDivision(p, f, g)
  BY <1>q DEF IsDivision
<1> HIDE DEF Step, n, start
<1>1. 0 \in T
  <2> DEFINE s == [i \in 0..0 |-> start]
  <2>1. Solves(s, 0)
    OBVIOUS
  <2> HIDE DEF s, Solves
  <2>2. \E z : Solves(z, 0)
    BY <2>1
  <2>3. QED
    BY <1>0, <2>2
<1>2. ASSUME NEW m \in 0..(n - 1), m \in T PROVE m + 1 \in T
  <2>1. PICK s : Solves(s, m)
    BY <1>2
  <2> DEFINE t == [i \in 0..(m + 1) |-> IF i = m + 1 THEN Step(s[m], m + 1) ELSE s[i]]
  <2>2. Solves(t, m + 1)
    <3> SUFFICES ASSUME NEW i \in 0..(m + 1) PROVE t[i] = Value(t, i)
      OBVIOUS
    <3>1. CASE i = m + 1
      <4>1. i # 0 /\ i - 1 = m /\ m # m + 1 /\ m \in 0..(m + 1)
        BY <1>0, <3>1
      <4>2. t[i] = Step(s[m], m + 1) /\ t[i - 1] = s[m]
        BY <3>1, <4>1
      <4>3. QED
        BY <3>1, <4>1, <4>2
    <3>2. CASE i \in 0..m
      <4>1. s[i] = Value(s, i)
        BY <2>1, <3>2
      <4>2. t[i] = s[i]
        BY <1>0, <3>2
      <4>3. CASE i = 0
        BY <4>1, <4>2, <4>3
      <4>4. CASE i # 0
        <5>1. t[i - 1] = s[i - 1]
          BY <1>0, <3>2, <4>4
        <5>2. QED
          BY <4>1, <4>2, <4>4, <5>1
      <4>5. QED
        BY <4>3, <4>4
    <3>3. QED
      BY <1>0, <3>1, <3>2
  <2> HIDE DEF t, Solves
  <2>3. \E z : Solves(z, m + 1)
    BY <2>2
  <2>4. QED
    BY <1>0, <2>3
<1>3. 0..n \subseteq T
  <2> HIDE DEF T
  <2>1. QED
    BY <1>0, <1>1, <1>2, UpToInduction
<1>4. PICK s : Solves(s, n)
  BY <1>0, <1>3
<1> DEFINE r == [i \in 0..n |-> s[i]]
<1>5. r = [i \in 0..n |-> Value(r, i)]
  <2>1. ASSUME NEW i \in 0..n PROVE r[i] = Value(r, i)
    <3>1. s[i] = Value(s, i)
      BY <1>4
    <3>2. CASE i = 0
      BY <3>1, <3>2
    <3>3. CASE i # 0
      <4>1. r[i - 1] = s[i - 1]
        BY <1>0, <3>3
      <4>2. QED
        BY <3>1, <3>3, <4>1
    <3>4. QED
      BY <3>2, <3>3
  <2>2. r = [i \in 0..n |-> r[i]]
    OBVIOUS
  <2> HIDE DEF r, Value
  <2>3. QED
    BY <2>1, <2>2
<1> HIDE DEF r
<1> DEFINE p == CHOOSE z : z = [i \in 0..n |-> Value(z, i)]
           step == [i \in 0..n |-> Value(p, i)]
<1>6. p = step
  BY <1>5
<1>7. PolyDivRem(f, g) = p[n]
  BY <1>p
<1> HIDE DEF p
<1>8. step[0] = start
  BY <1>0
<1>9. ASSUME NEW i \in 1..n PROVE step[i] = Step(p[i - 1], i)
  <2>1. i \in 0..n /\ i # 0
    BY <1>0
  <2>2. QED
    BY ONLY <2>1
<1> HIDE DEF step
<1>10. p[0] = start /\ \A i \in 1..n : p[i] = Step(p[i - 1], i)
  BY <1>6, <1>8, <1>9
<1>11. IsDivision(p, f, g)
  BY <1>10, <1>q
<1>12. QED
  BY <1>7, <1>11 DEF n

\* A term is a polynomial.
LEMMA MonomialType ==
    ASSUME NEW c \in Field, NEW e \in Nat PROVE Monomial(c, e) \in Coeffs
<1>1. \A i \in 1..(e + 1) : (IF i = e + 1 THEN c ELSE 0) \in Field
  BY FieldRing
<1>2. [i \in 1..(e + 1) |-> IF i = e + 1 THEN c ELSE 0] \in [1..(e + 1) -> Field]
  BY <1>1
<1>3. e + 1 \in Nat
  OBVIOUS
<1>4. QED
  BY <1>2, <1>3, SeqDef DEF Monomial, Coeffs

\* A nonzero field element has an inverse in the field.
LEMMA InverseInField ==
    ASSUME NEW x \in Field, x # 0 PROVE InvOf(x) \in Field /\ FMul(x, InvOf(x)) = 1
<1> QED BY Invertible DEF InvOf, FMul

\* The value of the dividend is quotient times divisor plus remainder, at every
\* point.
Divides(div, f, g) ==
    /\ div.q \in Coeffs /\ div.r \in Coeffs
    /\ \A x \in Field : PolyEval(f, x) =
          FAdd(FMul(PolyEval(div.q, x), PolyEval(g, x)), PolyEval(div.r, x))

\* A step of the division keeps that.
LEMMA NextDivisionDivides ==
    ASSUME NEW f \in Coeffs, NEW g \in Polys, g # <<>>, NEW div, Divides(div, f, g)
    PROVE  Divides(NextDivision(div, g), f, g)
<1>1. CASE Len(div.r) < Len(g)
  BY <1>1 DEF NextDivision
<1>2. CASE ~(Len(div.r) < Len(g))
  <2> DEFINE term == LeadingTerm(div.r, g)
             next == DivStep(div, g, term)
             product == PolyMul(term, g)
  <2>1. g \in Coeffs /\ div.q \in Coeffs /\ div.r \in Coeffs
    BY DEF Polys, Divides
  <2>2. term \in Coeffs
    <3> DEFINE a == div.r[Len(div.r)]
               b == g[Len(g)]
               e == Len(div.r) - Len(g)
    <3>1. Len(g) \in Nat /\ Len(g) > 0 /\ Len(div.r) \in Nat /\ Len(div.r) > 0 /\ e \in Nat
      BY <1>2, <2>1, EmptySeq DEF Coeffs
    <3>2. a \in Field /\ b \in Field /\ b # 0
      BY <2>1, <3>1 DEF Coeffs, Polys
    <3> HIDE DEF a, b, e
    <3>3. FMul(a, InvOf(b)) \in Field
      BY <3>2, InverseInField, FieldRing
    <3>4. term = Monomial(FMul(a, InvOf(b)), e)
      BY DEF LeadingTerm, FMul, a, b, e
    <3>5. QED
      BY <3>1, <3>3, <3>4, MonomialType
  <2>3. NextDivision(div, g) = next
    BY <1>2 DEF NextDivision
  <2> HIDE DEF term
  <2>4. next.q = PolyAdd(div.q, term) /\ next.r = PolySub(div.r, product)
    BY DEF DivStep
  <2>5. product \in Coeffs
    BY <2>1, <2>2, PolyEvalMul
  <2>6. next.q \in Coeffs /\ next.r \in Coeffs
    BY <2>1, <2>2, <2>4, <2>5, PolyAddCoeffs, PolyEvalSub
  <2> HIDE DEF next
  <2>7. ASSUME NEW x \in Field
        PROVE  PolyEval(f, x) =
                  FAdd(FMul(PolyEval(next.q, x), PolyEval(g, x)), PolyEval(next.r, x))
    <3> DEFINE q == PolyEval(div.q, x)
               r == PolyEval(div.r, x)
               t == PolyEval(term, x)
               y == PolyEval(g, x)
               m == FMul(t, y)
               minus == FMul(P - 1, m)
    <3>1. q \in Field /\ r \in Field /\ t \in Field /\ y \in Field
      BY <2>1, <2>2, PolyEvalType
    <3>2. PolyEval(next.q, x) = FAdd(q, t)
      BY <2>1, <2>2, <2>4, PolyEvalAdd
    <3>3. PolyEval(product, x) = m
      BY <2>1, <2>2, PolyEvalMul
    <3>4. PolyEval(next.r, x) = FAdd(r, minus)
      <4> HIDE DEF product, m
      <4>1. PolyEval(PolySub(div.r, product), x) = FAdd(PolyEval(div.r, x), FMul(P - 1, PolyEval(product, x)))
        BY <2>1, <2>5, PolyEvalSub
      <4>2. QED
        BY <2>4, <3>3, <4>1
    <3>5. PolyEval(f, x) = FAdd(FMul(q, y), r)
      BY DEF Divides
    <3> HIDE DEF q, r, t, y
    <3>6. m \in Field /\ FMul(q, y) \in Field
      BY <3>1, FieldRing
    <3>7. minus \in Field /\ FAdd(m, minus) = 0
      BY <3>6, MinusOne, FieldRing
    <3>8. FMul(FAdd(q, t), y) = FAdd(FMul(q, y), m)
      BY <3>1, FieldRing
    <3>9. FAdd(FAdd(FMul(q, y), m), FAdd(r, minus)) = FAdd(FAdd(FMul(q, y), r), FAdd(m, minus))
      <4> DEFINE u == FMul(q, y)
      <4> HIDE DEF u, m, minus
      <4>1. FAdd(FAdd(u, m), FAdd(r, minus)) = FAdd(FAdd(u, r), FAdd(m, minus))
        BY <3>1, <3>6, <3>7, SumOfSums DEF u
      <4>2. QED
        BY <4>1 DEF u
    <3>10. FAdd(FAdd(FMul(q, y), r), 0) = FAdd(FMul(q, y), r)
      <4>1. FAdd(FMul(q, y), r) \in Field
        BY <3>1, <3>6, FieldRing
      <4>2. QED
        BY <4>1, FieldRing
    <3> HIDE DEF m, minus
    <3>11. QED
      BY <3>2, <3>4, <3>5, <3>7, <3>8, <3>9, <3>10 DEF y
  <2>8. QED
    BY <2>3, <2>6, <2>7 DEF Divides
<1>3. QED
  BY <1>1, <1>2

\* divide_with_q_and_r returns a quotient and a remainder.
LEMMA DivisionDivides ==
    ASSUME NEW f \in Coeffs, NEW g \in Polys, g # <<>>
    PROVE  Divides(PolyDivRem(f, g), f, g)
<1> DEFINE n == Len(f)
<1>1. n \in Nat
  BY DEF Coeffs
<1>2. PICK p : IsDivision(p, f, g) /\ PolyDivRem(f, g) = p[n]
  BY PolyDivRemDef
<1>3. p[0] = [q |-> <<>>, r |-> f] /\ \A i \in 1..n : p[i] = NextDivision(p[i - 1], g)
  BY <1>2 DEF IsDivision
<1> HIDE DEF n
<1> DEFINE T == {m \in 0..n : Divides(p[m], f, g)}
<1>4. 0 \in T
  <2>1. p[0].q = <<>> /\ p[0].r = f /\ <<>> \in Coeffs
    BY <1>3, EmptySeq DEF Coeffs
  <2>2. ASSUME NEW x \in Field
        PROVE  PolyEval(f, x) = FAdd(FMul(PolyEval(<<>>, x), PolyEval(g, x)), PolyEval(f, x))
    <3>1. PolyEval(<<>>, x) = 0 /\ PolyEval(f, x) \in Field /\ PolyEval(g, x) \in Field
      BY PolyEvalType DEF Polys
    <3>2. FMul(0, PolyEval(g, x)) = 0 /\ FAdd(0, PolyEval(f, x)) = PolyEval(f, x)
      BY <3>1, FieldZero
    <3>3. QED
      BY <3>1, <3>2
  <2>3. Divides(p[0], f, g)
    BY <2>1, <2>2 DEF Divides
  <2>4. QED
    BY <1>1, <2>3
<1>5. ASSUME NEW m \in 0..(n - 1), m \in T PROVE m + 1 \in T
  <2>1. m + 1 \in 1..n /\ (m + 1) - 1 = m /\ m + 1 \in 0..n
    BY <1>1
  <2>2. p[m + 1] = NextDivision(p[m], g)
    BY <1>3, <2>1
  <2>3. Divides(NextDivision(p[m], g), f, g)
    BY <1>5, NextDivisionDivides
  <2>4. QED
    BY <2>1, <2>2, <2>3
<1>6. 0..n \subseteq T
  <2> HIDE DEF T
  <2>1. QED
    BY <1>1, <1>4, <1>5, UpToInduction
<1>7. Divides(p[n], f, g)
  BY <1>1, <1>6
<1>8. QED
  BY <1>2, <1>7

-----------------------------------------------------------------------------
(* Evaluation on the tree of products *)

\* X - x is not zero and has the root x.
LEMMA LinearFactorRoot ==
    ASSUME NEW x \in Field
    PROVE  /\ LinearFactor(x) \in Polys /\ LinearFactor(x) # <<>> /\ Len(LinearFactor(x)) = 2
           /\ PolyEval(LinearFactor(x), x) = 0
<1> DEFINE c == (P - x) % P
           f == <<c, 1>>
<1>1. P \in Nat /\ P > 1 /\ x \in Int /\ x % P = x
  BY OrderAssumption, FieldIsInt
<1>2. c \in Field
  <2>1. P - x \in Int
    BY <1>1
  <2>2. QED
    BY <2>1, ResidueInField
<1>3. FAdd(x, c) = 0
  <2> DEFINE d == P - x
  <2>1. d \in Int /\ d + x = 0 + 1 * P
    BY <1>1
  <2> HIDE DEF d
  <2>2. ((d % P) + x) % P = (d + x) % P
    BY <1>1, <2>1, ReduceFirst
  <2>3. (d + x) % P = 0 % P
    <3> DEFINE e == d + x
    <3>1. e \in Int /\ 0 \in Int /\ 1 \in Int /\ e = 0 + 1 * P
      BY <1>1, <2>1
    <3> HIDE DEF e
    <3>2. e % P = 0 % P
      BY ONLY <3>1, SameResidue
    <3>3. QED
      BY <3>2 DEF e
  <2>4. 0 % P = 0
    BY <1>1
  <2>5. d % P \in Field
    BY <2>1, ResidueInField
  <2>6. FAdd(d % P, x) = FAdd(x, d % P)
    BY <2>5, FieldRing
  <2>7. QED
    BY <2>2, <2>3, <2>4, <2>6 DEF FAdd, d
<1>4. LinearFactor(x) = f
  BY DEF LinearFactor
<1> HIDE DEF c
<1>5. 1 \in Field
  BY FieldRing
<1>6. f \in Coeffs /\ Len(f) = 2 /\ f[1] = c /\ f[2] = 1
  BY <1>2, <1>5 DEF Coeffs
<1>7. f \in Polys /\ f # <<>>
  BY <1>6 DEF Polys
<1>8. CoeffOf(f, 1) = c /\ CoeffOf(f, 2) = 1
  BY <1>6 DEF CoeffOf
<1> HIDE DEF f
<1>9. PICK h : IsHorner(h, f, 2, x) /\ PolyEval(f, x) = h[2]
  BY <1>6, PolyEvalDef
<1>10. /\ h[0] = 0
       /\ h[1] = FAdd(FMul(h[0], x), CoeffOf(f, 2))
       /\ h[2] = FAdd(FMul(h[1], x), CoeffOf(f, 1))
  <2>1. /\ 1 \in 1..2 /\ 2 \in 1..2 /\ 1 - 1 = 0 /\ 2 - 1 = 1
        /\ 2 - 1 + 1 = 2 /\ 2 - 2 + 1 = 1
    OBVIOUS
  <2>2. \A i \in 1..2 : h[i] = FAdd(FMul(h[i - 1], x), CoeffOf(f, 2 - i + 1))
    BY <1>9 DEF IsHorner
  <2>3. h[1] = FAdd(FMul(h[1 - 1], x), CoeffOf(f, 2 - 1 + 1))
    BY <2>1, <2>2
  <2>4. h[2] = FAdd(FMul(h[2 - 1], x), CoeffOf(f, 2 - 2 + 1))
    BY <2>1, <2>2
  <2>5. QED
    BY <1>9, <2>1, <2>3, <2>4 DEF IsHorner
<1>11. h[1] = 1
  BY <1>5, <1>8, <1>10, FieldZero
<1>12. FMul(1, x) = x
  <2>1. FMul(1, x) = FMul(x, 1)
    BY <1>5, FieldRing
  <2>2. QED
    BY <2>1, FieldRing
<1>13. h[2] = 0
  BY <1>3, <1>8, <1>10, <1>11, <1>12
<1>14. Len(f) = 2
  BY <1>6
<1>15. QED
  BY <1>4, <1>7, <1>9, <1>13, <1>14

\* The node over the points lo..hi, from the nodes below it.
Middle(lo, hi) == lo + HalfOf(lo, hi) - 1
NodeOver(tree, xs, lo, hi) ==
    IF lo >= hi THEN LinearFactor(xs[lo])
    ELSE PolyMul(tree[<<lo, Middle(lo, hi)>>], tree[<<Middle(lo, hi) + 1, hi>>])

\* Halving an interval gives two shorter ones.
LEMMA MiddleInside ==
    ASSUME NEW lo \in Nat, NEW hi \in Nat, lo < hi
    PROVE  Middle(lo, hi) \in lo..(hi - 1)
<1> QED BY DEF Middle, HalfOf

\* The tree satisfies its recursive definition.
LEMMA SubproductTreeDef ==
    ASSUME NEW xs, NEW n \in Nat, Len(xs) = n, NEW lo \in 1..n, NEW hi \in 1..n
    PROVE  SubproductTree(xs)[<<lo, hi>>] = NodeOver(SubproductTree(xs), xs, lo, hi)
<1> DEFINE D == (1..n) \X (1..n)
           Value(s, node) == NodeOver(s, xs, node[1], node[2])
           Solves(s, m) == \A node \in D : node[2] - node[1] <= m => s[node] = Value(s, node)
           T == {m \in 0..n : \E s : Solves(s, m)}
<1>1. ASSUME NEW s, NEW t, NEW m \in Int, NEW node \in D, node[2] - node[1] <= m + 1,
             \A x \in D : x[2] - x[1] <= m => t[x] = s[x]
      PROVE  Value(t, node) = Value(s, node)
  <2> DEFINE a == node[1]
             b == node[2]
             c == Middle(a, b)
  <2>1. a \in 1..n /\ b \in 1..n
    BY <1>1
  <2>2. CASE a >= b
    BY <2>2 DEF NodeOver
  <2>3. CASE a < b
    <3>1. c \in a..(b - 1)
      BY <2>1, <2>3, MiddleInside
    <3> HIDE DEF c
    <3>2. <<a, c>> \in D /\ <<c + 1, b>> \in D /\ c - a <= m /\ b - (c + 1) <= m
      BY <1>1, <2>1, <3>1
    <3>3. t[<<a, c>>] = s[<<a, c>>] /\ t[<<c + 1, b>>] = s[<<c + 1, b>>]
      BY <1>1, <3>2
    <3>4. QED
      BY <3>3 DEF NodeOver, c
  <2>4. QED
    BY <2>1, <2>2, <2>3
<1>2. 0 \in T
  <2> DEFINE s == [node \in D |-> LinearFactor(xs[node[1]])]
  <2>1. Solves(s, 0)
    <3> SUFFICES ASSUME NEW node \in D, node[2] - node[1] <= 0 PROVE s[node] = Value(s, node)
      OBVIOUS
    <3>1. node[1] >= node[2]
      OBVIOUS
    <3>2. QED
      BY <3>1 DEF NodeOver
  <2> HIDE DEF s, Solves
  <2>2. \E z : Solves(z, 0)
    BY <2>1
  <2>3. QED
    BY <2>2
<1> HIDE DEF Value
<1>3. ASSUME NEW m \in 0..(n - 1), m \in T PROVE m + 1 \in T
  <2>1. PICK s : Solves(s, m)
    BY <1>3
  <2> DEFINE t == [node \in D |-> IF node[2] - node[1] = m + 1 THEN Value(s, node) ELSE s[node]]
  <2>2. \A x \in D : x[2] - x[1] <= m => t[x] = s[x]
    OBVIOUS
  <2>3. ASSUME NEW node \in D, node[2] - node[1] <= m + 1 PROVE t[node] = Value(t, node)
    <3>1. m \in Int
      OBVIOUS
    <3>2. Value(t, node) = Value(s, node)
      <4> HIDE DEF t
      <4>1. QED
        BY <1>1, <2>2, <2>3, <3>1
    <3>3. CASE node[2] - node[1] = m + 1
      BY <3>2, <3>3
    <3>4. CASE node[2] - node[1] # m + 1
      <4>1. node[2] - node[1] <= m
        BY <2>3, <3>4
      <4>2. s[node] = Value(s, node)
        BY <2>1, <4>1
      <4>3. QED
        BY <2>2, <3>2, <4>1, <4>2
    <3>5. QED
      BY <3>3, <3>4
  <2> HIDE DEF t
  <2>4. Solves(t, m + 1)
    BY <2>3
  <2> HIDE DEF Solves
  <2>5. \E z : Solves(z, m + 1)
    BY <2>4
  <2>6. QED
    BY <2>5
<1>4. 0..n \subseteq T
  <2> HIDE DEF T
  <2>1. QED
    BY <1>2, <1>3, UpToInduction
<1>5. PICK s : \A node \in D : node[2] - node[1] <= n => s[node] = Value(s, node)
  <2> HIDE DEF Solves
  <2>1. \E s : Solves(s, n)
    BY <1>4
  <2>2. PICK s : Solves(s, n)
    BY <2>1
  <2>3. QED
    BY <2>2 DEF Solves
<1> DEFINE r == [node \in D |-> s[node]]
<1>6. r = [node \in D |-> Value(r, node)]
  <2>1. ASSUME NEW node \in D PROVE r[node] = Value(r, node)
    <3>1. node[2] - node[1] <= n /\ node[2] - node[1] <= n + 1 /\ n \in Int
      OBVIOUS
    <3>2. s[node] = Value(s, node)
      BY <1>5, <3>1
    <3>3. \A x \in D : r[x] = s[x]
      OBVIOUS
    <3> HIDE DEF r
    <3>4. Value(r, node) = Value(s, node)
      BY <1>1, <3>1, <3>3
    <3>5. QED
      BY <3>2, <3>3, <3>4
  <2>2. r = [node \in D |-> r[node]]
    OBVIOUS
  <2> HIDE DEF r
  <2>3. QED
    BY <2>1, <2>2
<1> HIDE DEF r
<1> DEFINE p == CHOOSE z : z = [node \in D |-> Value(z, node)]
           step == [node \in D |-> Value(p, node)]
<1>7. p = step
  BY <1>6
<1>8. SubproductTree(xs) = p
  BY DEF SubproductTree, Value, NodeOver, Middle
<1> HIDE DEF p
<1>9. <<lo, hi>> \in D /\ <<lo, hi>>[1] = lo /\ <<lo, hi>>[2] = hi
  OBVIOUS
<1>10. step[<<lo, hi>>] = Value(p, <<lo, hi>>)
  BY <1>9
<1> HIDE DEF step
<1>11. QED
  BY <1>7, <1>8, <1>9, <1>10 DEF Value

\* Every product of the tree is a polynomial other than 0 that vanishes at each
\* of its points.
LEMMA TreeRoots ==
    ASSUME NEW xs \in Coeffs, NEW lo \in 1..Len(xs), NEW hi \in 1..Len(xs), lo <= hi
    PROVE  LET f == SubproductTree(xs)[<<lo, hi>>]
           IN /\ f \in Polys /\ f # <<>> /\ Len(f) = hi - lo + 2
              /\ \A j \in lo..hi : PolyEval(f, xs[j]) = 0
<1> DEFINE n == Len(xs)
           tree == SubproductTree(xs)
           Good(a, b) == /\ tree[<<a, b>>] \in Polys /\ tree[<<a, b>>] # <<>>
                         /\ Len(tree[<<a, b>>]) = b - a + 2
                         /\ \A j \in a..b : PolyEval(tree[<<a, b>>], xs[j]) = 0
           T == {m \in 0..n : \A a, b \in 1..n : a <= b /\ b - a <= m => Good(a, b)}
<1>1. n \in Nat /\ \A i \in 1..n : xs[i] \in Field
  BY DEF Coeffs
<1>2. \A a, b \in 1..n : tree[<<a, b>>] = NodeOver(tree, xs, a, b)
  BY <1>1, SubproductTreeDef
<1> HIDE DEF tree
<1>3. ASSUME NEW a \in 1..n PROVE Good(a, a)
  <2>1. tree[<<a, a>>] = LinearFactor(xs[a])
    <3>1. tree[<<a, a>>] = NodeOver(tree, xs, a, a) /\ a >= a
      BY <1>1, <1>2
    <3>2. QED
      BY <3>1 DEF NodeOver
  <2>2. (\A j \in a..a : j = a) /\ a - a + 2 = 2
    BY <1>1
  <2>3. QED
    BY <1>1, <2>1, <2>2, LinearFactorRoot
<1> HIDE DEF n
<1>4. ASSUME NEW a \in 1..n, NEW b \in 1..n, a < b,
             Good(a, Middle(a, b)), Good(Middle(a, b) + 1, b)
      PROVE  Good(a, b)
  <2> DEFINE c == Middle(a, b)
             f == tree[<<a, c>>]
             g == tree[<<c + 1, b>>]
  <2>1. c \in a..(b - 1)
    BY <1>1, <1>4, MiddleInside
  <2>2. tree[<<a, b>>] = PolyMul(f, g)
    BY <1>1, <1>2, <1>4 DEF NodeOver
  <2>3. f \in Polys /\ g \in Polys /\ f # <<>> /\ g # <<>> /\ f \in Coeffs /\ g \in Coeffs
    BY <1>4 DEF Polys
  <2>4. PolyMul(f, g) # <<>> /\ PolyMul(f, g) \in Polys /\ Len(PolyMul(f, g)) = Len(f) + Len(g) - 1
    BY <2>3, PolyMulNonzero, PolyEvalMul
  <2>7. Len(PolyMul(f, g)) = b - a + 2
    <3>1. Len(f) = c - a + 2 /\ Len(g) = b - (c + 1) + 2
      BY <1>4
    <3> HIDE DEF c, f, g
    <3>2. QED
      BY <1>1, <2>1, <2>4, <3>1
  <2>5. ASSUME NEW j \in a..b PROVE PolyEval(PolyMul(f, g), xs[j]) = 0
    <3>1. xs[j] \in Field
      BY <1>1
    <3>2. PolyEval(PolyMul(f, g), xs[j]) = FMul(PolyEval(f, xs[j]), PolyEval(g, xs[j]))
      BY <2>3, <3>1, PolyEvalMul
    <3>3. PolyEval(f, xs[j]) \in Field /\ PolyEval(g, xs[j]) \in Field
      BY <2>3, <3>1, PolyEvalType
    <3>4. CASE j \in a..c
      <4>1. PolyEval(f, xs[j]) = 0
        BY <1>4, <3>4
      <4>2. FMul(0, PolyEval(g, xs[j])) = 0
        BY <3>3, FieldZero
      <4>3. QED
        BY <3>2, <4>1, <4>2
    <3>5. CASE j \in (c + 1)..b
      <4>1. PolyEval(g, xs[j]) = 0
        BY <1>4, <3>5
      <4>2. FMul(PolyEval(f, xs[j]), 0) = 0
        BY <3>3, FieldRing
      <4>3. QED
        BY <3>2, <4>1, <4>2
    <3> HIDE DEF c
    <3>6. QED
      BY <1>1, <2>1, <3>4, <3>5
  <2> HIDE DEF f, g
  <2>6. QED
    BY <2>2, <2>4, <2>7, <2>5
<1> HIDE DEF Good
<1>5. 0 \in T
  <2>1. \A a, b \in 1..n : a <= b /\ b - a <= 0 => a = b
    BY <1>1
  <2>2. QED
    BY <1>1, <1>3, <2>1
<1>6. ASSUME NEW m \in 0..(n - 1), m \in T PROVE m + 1 \in T
  <2>1. ASSUME NEW a \in 1..n, NEW b \in 1..n, a <= b, b - a <= m + 1 PROVE Good(a, b)
    <3> DEFINE c == Middle(a, b)
    <3>1. CASE a = b
      BY <1>3, <3>1
    <3>2. CASE a < b
      <4>1. c \in a..(b - 1)
        BY <1>1, <3>2, MiddleInside
      <4> HIDE DEF c
      <4>2. /\ c \in 1..n /\ c + 1 \in 1..n /\ a <= c /\ c + 1 <= b
            /\ c - a <= m /\ b - (c + 1) <= m
        BY <1>1, <2>1, <4>1
      <4>3. Good(a, c) /\ Good(c + 1, b)
        BY <1>6, <4>2
      <4>4. QED
        BY <1>4, <3>2, <4>3 DEF c
    <3>3. QED
      BY <1>1, <2>1, <3>1, <3>2
  <2>2. m + 1 \in 0..n
    BY <1>1
  <2>3. QED
    BY <2>1, <2>2
<1>7. 0..n \subseteq T
  <2> HIDE DEF T
  <2>1. QED
    BY <1>1, <1>5, <1>6, UpToInduction
<1>8. Good(lo, hi)
  <2>1. n \in T /\ lo \in 1..n /\ hi \in 1..n /\ hi - lo <= n
    BY <1>1, <1>7 DEF n
  <2>2. QED
    BY <2>1
<1>9. QED
  BY <1>8 DEF Good, tree

\* The product of the roots, the z_poly of a QueryContext, vanishes at each.
LEMMA ProductVanishes ==
    ASSUME NEW xs \in Coeffs
    PROVE  /\ ProductFromRoots(xs) \in Polys /\ ProductFromRoots(xs) # <<>>
           /\ Len(ProductFromRoots(xs)) = Len(xs) + 1
           /\ \A j \in 1..Len(xs) : PolyEval(ProductFromRoots(xs), xs[j]) = 0
<1>1. CASE xs = <<>>
  <2>1. ProductFromRoots(xs) = <<1>>
    BY <1>1 DEF ProductFromRoots
  <2>2. <<1>> \in Polys /\ <<1>> # <<>> /\ Len(<<1>>) = 1 /\ Len(<<>>) = 0
    BY FieldRing DEF Polys, Coeffs
  <2>3. QED
    BY <1>1, <2>1, <2>2
<1>2. CASE xs # <<>>
  <2>1. 1 \in 1..Len(xs) /\ Len(xs) \in 1..Len(xs) /\ 1 <= Len(xs)
    BY <1>2, EmptySeq DEF Coeffs
  <2>2. ProductFromRoots(xs) = SubproductTree(xs)[<<1, Len(xs)>>]
    BY <1>2 DEF ProductFromRoots
  <2>3. Len(xs) - 1 + 2 = Len(xs) + 1
    BY <2>1
  <2>4. QED
    BY <2>1, <2>2, <2>3, TreeRoots
<1>3. QED
  BY <1>1, <1>2

\* A node over point j whose remainder has the value of f there.
Around(node, f, xs, j) ==
    /\ node.lo \in 1..j /\ node.hi \in j..Len(xs)
    /\ node.rem \in Coeffs
    /\ PolyEval(node.rem, xs[j]) = PolyEval(f, xs[j])

\* Its child over point j is one too.
LEMMA ChildAround ==
    ASSUME NEW f \in Coeffs, NEW xs \in Coeffs, NEW j \in 1..Len(xs), NEW node, Around(node, f, xs, j)
    PROVE  Around(ChildWith(node, SubproductTree(xs), j), f, xs, j)
<1> DEFINE n == Len(xs)
           tree == SubproductTree(xs)
<1>1. n \in Nat /\ xs[j] \in Field
  BY DEF Coeffs
<1> HIDE DEF n
<1>2. ASSUME NEW lo \in 1..j, NEW hi \in j..n PROVE Around(Descend(node, lo, hi, tree), f, xs, j)
  <2> DEFINE g == tree[<<lo, hi>>]
             div == PolyDivRem(node.rem, g)
             x == xs[j]
  <2>1. g \in Polys /\ g # <<>> /\ PolyEval(g, x) = 0
    <3>1. lo \in 1..n /\ hi \in 1..n /\ lo <= hi /\ j \in lo..hi
      BY <1>1 DEF n
    <3>2. QED
      BY <3>1, TreeRoots DEF n
  <2>2. node.rem \in Coeffs /\ PolyEval(node.rem, x) = PolyEval(f, x)
    BY DEF Around
  <2> HIDE DEF g
  <2>3. Divides(div, node.rem, g)
    BY <2>1, <2>2, DivisionDivides
  <2> HIDE DEF div
  <2>4. div.q \in Coeffs /\ div.r \in Coeffs
    BY <2>3 DEF Divides
  <2>5. PolyEval(node.rem, x) = FAdd(FMul(PolyEval(div.q, x), PolyEval(g, x)), PolyEval(div.r, x))
    BY <1>1, <2>3 DEF Divides
  <2>6. PolyEval(div.q, x) \in Field /\ PolyEval(div.r, x) \in Field
    BY <1>1, <2>4, PolyEvalType
  <2>7. FMul(PolyEval(div.q, x), 0) = 0 /\ FAdd(0, PolyEval(div.r, x)) = PolyEval(div.r, x)
    BY <2>6, FieldRing, FieldZero
  <2>8. PolyEval(div.r, x) = PolyEval(f, x)
    BY <2>1, <2>2, <2>5, <2>7
  <2>9. Descend(node, lo, hi, tree) = [lo |-> lo, hi |-> hi, rem |-> div.r]
    BY DEF Descend, div, g
  <2>10. QED
    BY <1>1, <2>4, <2>8, <2>9 DEF Around, n
<1>3. node.lo \in 1..j /\ node.hi \in j..n
  BY DEF Around, n
<1>4. CASE node.lo = node.hi
  BY <1>4 DEF ChildWith
<1>5. CASE node.lo # node.hi
  <2> DEFINE m == MidOf(node)
  <2>1. m \in node.lo..(node.hi - 1)
    <3>1. node.lo \in Nat /\ node.hi \in Nat /\ node.lo < node.hi
      BY <1>1, <1>3, <1>5
    <3>2. QED
      BY <3>1, MiddleInside DEF MidOf, Middle
  <2> HIDE DEF m
  <2>2. CASE j <= m
    <3>1. node.lo \in 1..j /\ m \in j..n
      BY <1>1, <1>3, <2>1, <2>2
    <3>2. ChildWith(node, tree, j) = Descend(node, node.lo, m, tree)
      BY <1>5, <2>2 DEF ChildWith, m
    <3>3. QED
      BY <1>2, <3>1, <3>2
  <2>3. CASE ~(j <= m)
    <3>1. m + 1 \in 1..j /\ node.hi \in j..n
      BY <1>1, <1>3, <2>1, <2>3
    <3>2. ChildWith(node, tree, j) = Descend(node, m + 1, node.hi, tree)
      BY <1>5, <2>3 DEF ChildWith, m
    <3>3. QED
      BY <1>2, <3>1, <3>2
  <2>4. QED
    BY <2>2, <2>3
<1>6. QED
  BY <1>4, <1>5

\* The nodes on the way down to point j.
IsDescent(p, f, xs, j) ==
    /\ p[0] = [lo |-> 1, hi |-> Len(xs), rem |-> f]
    /\ \A i \in 1..Len(xs) : p[i] = ChildWith(p[i - 1], SubproductTree(xs), j)

\* The remainder at a leaf is reached by the descent to its point.
LEMMA RemainderAtDef ==
    ASSUME NEW f, NEW xs \in Coeffs, NEW j
    PROVE  \E p : IsDescent(p, f, xs, j) /\ RemainderAt(f, xs, j) = p[Len(xs)].rem
<1> DEFINE n == Len(xs)
           start == [lo |-> 1, hi |-> n, rem |-> f]
           Step(v, i) == ChildWith(v, SubproductTree(xs), j)
           Value(s, i) == IF i = 0 THEN start ELSE Step(s[i - 1], i)
           Solves(s, m) == \A i \in 0..m : s[i] = Value(s, i)
           T == {m \in 0..n : \E s : Solves(s, m)}
<1>0. n \in Nat
  BY DEF Coeffs
<1>p. RemainderAt(f, xs, j) = (CHOOSE s : s = [i \in 0..n |-> Value(s, i)])[n].rem
  BY DEF RemainderAt
<1>q. ASSUME NEW p, p[0] = start, \A i \in 1..n : p[i] = Step(p[i - 1], i) PROVE IsDescent(p, f, xs, j)
  BY <1>q DEF IsDescent
<1> HIDE DEF Step, n, start
<1>1. 0 \in T
  <2> DEFINE s == [i \in 0..0 |-> start]
  <2>1. Solves(s, 0)
    OBVIOUS
  <2> HIDE DEF s, Solves
  <2>2. \E z : Solves(z, 0)
    BY <2>1
  <2>3. QED
    BY <1>0, <2>2
<1>2. ASSUME NEW m \in 0..(n - 1), m \in T PROVE m + 1 \in T
  <2>1. PICK s : Solves(s, m)
    BY <1>2
  <2> DEFINE t == [i \in 0..(m + 1) |-> IF i = m + 1 THEN Step(s[m], m + 1) ELSE s[i]]
  <2>2. Solves(t, m + 1)
    <3> SUFFICES ASSUME NEW i \in 0..(m + 1) PROVE t[i] = Value(t, i)
      OBVIOUS
    <3>1. CASE i = m + 1
      <4>1. i # 0 /\ i - 1 = m /\ m # m + 1 /\ m \in 0..(m + 1)
        BY <1>0, <3>1
      <4>2. t[i] = Step(s[m], m + 1) /\ t[i - 1] = s[m]
        BY <3>1, <4>1
      <4>3. QED
        BY <3>1, <4>1, <4>2
    <3>2. CASE i \in 0..m
      <4>1. s[i] = Value(s, i)
        BY <2>1, <3>2
      <4>2. t[i] = s[i]
        BY <1>0, <3>2
      <4>3. CASE i = 0
        BY <4>1, <4>2, <4>3
      <4>4. CASE i # 0
        <5>1. t[i - 1] = s[i - 1]
          BY <1>0, <3>2, <4>4
        <5>2. QED
          BY <4>1, <4>2, <4>4, <5>1
      <4>5. QED
        BY <4>3, <4>4
    <3>3. QED
      BY <1>0, <3>1, <3>2
  <2> HIDE DEF t, Solves
  <2>3. \E z : Solves(z, m + 1)
    BY <2>2
  <2>4. QED
    BY <1>0, <2>3
<1>3. 0..n \subseteq T
  <2> HIDE DEF T
  <2>1. QED
    BY <1>0, <1>1, <1>2, UpToInduction
<1>4. PICK s : Solves(s, n)
  BY <1>0, <1>3
<1> DEFINE r == [i \in 0..n |-> s[i]]
<1>5. r = [i \in 0..n |-> Value(r, i)]
  <2>1. ASSUME NEW i \in 0..n PROVE r[i] = Value(r, i)
    <3>1. s[i] = Value(s, i)
      BY <1>4
    <3>2. CASE i = 0
      BY <3>1, <3>2
    <3>3. CASE i # 0
      <4>1. r[i - 1] = s[i - 1]
        BY <1>0, <3>3
      <4>2. QED
        BY <3>1, <3>3, <4>1
    <3>4. QED
      BY <3>2, <3>3
  <2>2. r = [i \in 0..n |-> r[i]]
    OBVIOUS
  <2> HIDE DEF r, Value
  <2>3. QED
    BY <2>1, <2>2
<1> HIDE DEF r
<1> DEFINE p == CHOOSE z : z = [i \in 0..n |-> Value(z, i)]
           step == [i \in 0..n |-> Value(p, i)]
<1>6. p = step
  BY <1>5
<1>7. RemainderAt(f, xs, j) = p[n].rem
  BY <1>p
<1> HIDE DEF p
<1>8. step[0] = start
  BY <1>0
<1>9. ASSUME NEW i \in 1..n PROVE step[i] = Step(p[i - 1], i)
  <2>1. i \in 0..n /\ i # 0
    BY <1>0
  <2>2. QED
    BY ONLY <2>1
<1> HIDE DEF step
<1>10. p[0] = start /\ \A i \in 1..n : p[i] = Step(p[i - 1], i)
  BY <1>6, <1>8, <1>9
<1>11. IsDescent(p, f, xs, j)
  BY <1>10, <1>q
<1>12. QED
  BY <1>7, <1>11 DEF n

\* evaluate_on_tree gives the value of the polynomial at every point, in the order
\* of the points, whatever their number and repetitions (polynomial.rs:241-264).
THEOREM EvaluationIsPointwise ==
    ASSUME NEW f \in Coeffs, NEW xs \in Coeffs, xs # <<>>
    PROVE  MultiEvaluate(f, xs) = [j \in DOMAIN xs |-> PolyEval(f, xs[j])]
<1> DEFINE n == Len(xs)
<1>1. n \in Nat /\ n > 0 /\ DOMAIN xs = 1..n
  BY EmptySeq DEF Coeffs
<1>2. ASSUME NEW j \in 1..n PROVE PolyEval(RemainderAt(f, xs, j), xs[j]) = PolyEval(f, xs[j])
  <2>1. PICK p : IsDescent(p, f, xs, j) /\ RemainderAt(f, xs, j) = p[n].rem
    BY RemainderAtDef
  <2>2. p[0] = [lo |-> 1, hi |-> n, rem |-> f] /\ \A i \in 1..n : p[i] = ChildWith(p[i - 1], SubproductTree(xs), j)
    BY <2>1 DEF IsDescent
  <2> DEFINE T == {m \in 0..n : Around(p[m], f, xs, j)}
  <2>3. 0 \in T
    BY <1>1, <2>2 DEF Around
  <2> HIDE DEF n
  <2>4. ASSUME NEW m \in 0..(n - 1), m \in T PROVE m + 1 \in T
    <3>1. m + 1 \in 1..n /\ (m + 1) - 1 = m /\ m + 1 \in 0..n
      BY <1>1
    <3>2. p[m + 1] = ChildWith(p[m], SubproductTree(xs), j)
      BY <2>2, <3>1
    <3>3. Around(p[m + 1], f, xs, j)
      BY <2>4, <3>2, ChildAround DEF n
    <3>4. QED
      BY <3>1, <3>3
  <2>5. 0..n \subseteq T
    <3> HIDE DEF T
    <3>1. QED
      BY <1>1, <2>3, <2>4, UpToInduction
  <2>6. Around(p[n], f, xs, j)
    BY <1>1, <2>5
  <2>7. QED
    BY <2>1, <2>6 DEF Around
<1> HIDE DEF n
<1>3. MultiEvaluate(f, xs) = [j \in DOMAIN xs |-> PolyEval(RemainderAt(f, xs, j), xs[j])]
  BY DEF MultiEvaluate
<1>4. QED
  BY <1>1, <1>2, <1>3


-----------------------------------------------------------------------------
(* Quotients, coefficient by coefficient *)

\* A function on 1..n is a sequence of length n.
LEMMA FunctionIsSequence ==
    ASSUME NEW S, NEW n \in Nat, NEW f \in [1..n -> S]
    PROVE  f \in Seq(S) /\ Len(f) = n
<1>1. f \in Seq(S)
  BY SeqDef
<1>2. Len(f) \in Nat /\ DOMAIN f = 1..Len(f) /\ DOMAIN f = 1..n
  BY <1>1, LenProperties
<1>3. Len(f) = n
  <2>1. 1..Len(f) = 1..n
    BY <1>2
  <2>2. ASSUME Len(f) < n PROVE FALSE
    BY <1>2, <2>1, <2>2
  <2>3. ASSUME n < Len(f) PROVE FALSE
    BY <1>2, <2>1, <2>3
  <2>4. QED
    BY <1>2, <2>2, <2>3
<1>4. QED
  BY <1>1, <1>3

\* Horner's rule from the n-th coefficient of f down, leading zeros included.
IsPadded(p, f, g, n) ==
    /\ p[0] = <<>>
    /\ \A i \in 1..n : p[i] = PolyAdd(TimesX(p[i - 1]), PolyScale(g, CoeffOf(f, n - i + 1)))

\* Leading zeros make no difference to a product.
LEMMA PolyMulPadded ==
    ASSUME NEW f \in Coeffs, NEW g \in Coeffs, NEW n \in Nat, Len(f) <= n
    PROVE  \E p : IsPadded(p, f, g, n) /\ PolyMul(f, g) = p[n]
<1> DEFINE m == Len(f)
           e == n - m
<1>1. m \in Nat /\ e \in Nat /\ e <= n /\ \A i \in 1..m : CoeffOf(f, i) = f[i]
  BY DEF Coeffs, CoeffOf
<1>2. PICK s : IsProduct(s, f, g) /\ PolyMul(f, g) = s[m]
  BY PolyMulDef
<1>3. s[0] = <<>> /\ \A i \in 1..m : s[i] = PolyAdd(TimesX(s[i - 1]), PolyScale(g, f[m - i + 1]))
  BY <1>2 DEF IsProduct
<1>4. \A i \in Nat : i > m => CoeffOf(f, i) = 0
  BY <1>1 DEF CoeffOf
<1> HIDE DEF m, e
<1>5. PolyAdd(TimesX(<<>>), PolyScale(g, 0)) = <<>>
  <2> DEFINE z == PolyScale(g, 0)
             r == PolyAdd(<<>>, z)
  <2>1. 0 \in Field /\ <<>> \in Polys /\ <<>> \in Coeffs /\ Len(<<>>) = 0 /\ Len(g) \in Nat
    BY FieldRing, EmptySeq DEF Polys, Coeffs
  <2>2. z \in Polys /\ z \in Coeffs /\ Len(z) <= Len(g)
    BY <2>1, PolyScaleCoeffs
  <2>3. ASSUME NEW i \in 1..Len(g) PROVE CoeffOf(z, i) = CoeffOf(<<>>, i)
    <3>1. i \in Nat /\ i > 0
      BY <2>1
    <3>2. CoeffOf(z, i) = FMul(0, CoeffOf(g, i))
      BY <2>1, <3>1, MultipleCoeff
    <3>3. CoeffOf(g, i) \in Field
      BY <3>1, CoeffInField
    <3>4. CoeffOf(<<>>, i) = 0
      BY <3>1 DEF CoeffOf
    <3>5. QED
      BY <3>2, <3>3, <3>4, FieldZero
  <2> HIDE DEF z
  <2>4. z = <<>>
    BY <2>1, <2>2, <2>3, SameCoeffs
  <2>5. r \in Coeffs /\ Len(r) <= LongerLen(<<>>, z)
    BY <2>1, <2>2, PolyAddCoeffs
  <2>6. LongerLen(<<>>, z) = 0
    BY <2>1, <2>4 DEF LongerLen
  <2> HIDE DEF r
  <2>7. r = <<>>
    BY <2>5, <2>6, EmptySeq DEF Coeffs
  <2>8. QED
    BY <2>7 DEF r, z, TimesX
<1> DEFINE p == [i \in 0..n |-> IF i <= e THEN <<>> ELSE s[i - e]]
<1>6. p[0] = <<>>
  BY <1>1
<1>7. ASSUME NEW i \in 1..n
      PROVE  p[i] = PolyAdd(TimesX(p[i - 1]), PolyScale(g, CoeffOf(f, n - i + 1)))
  <2>1. CASE i <= e
    <3>1. p[i] = <<>> /\ p[i - 1] = <<>>
      BY <1>1, <2>1
    <3>2. n - i + 1 \in Nat /\ n - i + 1 > m
      BY <1>1, <2>1 DEF e
    <3>3. QED
      BY <1>4, <1>5, <3>1, <3>2
  <2>2. CASE i > e
    <3> DEFINE j == i - e
    <3>1. j \in 1..m /\ m - j + 1 = n - i + 1 /\ m - j + 1 \in 1..m
      BY <1>1, <2>2 DEF e
    <3>2. p[i] = s[j]
      BY <1>1, <2>2
    <3>3. p[i - 1] = s[j - 1]
      <4>1. CASE i - 1 <= e
        BY <1>1, <1>3, <2>2, <4>1
      <4>2. CASE i - 1 > e
        <5>1. i - 1 \in 0..n /\ i - 1 - e = j - 1
          BY <1>1
        <5>2. QED
          BY <1>1, <4>2, <5>1
      <4>3. QED
        BY <1>1, <4>1, <4>2
    <3> HIDE DEF p, j
    <3>4. CoeffOf(f, n - i + 1) = f[m - j + 1]
      BY <1>1, <3>1
    <3>5. s[j] = PolyAdd(TimesX(s[j - 1]), PolyScale(g, f[m - j + 1]))
      BY <1>3, <3>1
    <3>6. QED
      BY <3>2, <3>3, <3>4, <3>5
  <2>3. QED
    BY <1>1, <2>1, <2>2
<1>8. p[n] = s[m]
  <2>1. CASE m = 0
    BY <1>1, <1>3, <2>1 DEF e
  <2>2. CASE m # 0
    <3>1. n > e /\ n - e = m
      BY <1>1, <2>2 DEF e
    <3>2. QED
      BY <1>1, <3>1
  <2>3. QED
    BY <2>1, <2>2
<1> HIDE DEF p
<1>9. IsPadded(p, f, g, n)
  BY <1>6, <1>7 DEF IsPadded
<1>10. QED
  BY <1>2, <1>8, <1>9

\* A step of Horner's rule, coefficient by coefficient.
LEMMA PaddedStep ==
    ASSUME NEW f \in Coeffs, NEW g \in Coeffs, NEW n \in Nat, NEW p, IsPadded(p, f, g, n),
           NEW m \in 0..(n - 1), p[m] \in Coeffs
    PROVE  /\ p[m + 1] \in Coeffs
           /\ \A k \in Nat : k > 0 => CoeffOf(p[m + 1], k) =
                 FAdd(CoeffOf(p[m], k - 1), FMul(CoeffOf(f, n - m), CoeffOf(g, k)))
<1> DEFINE c == CoeffOf(f, n - m)
           q == p[m]
           a == TimesX(q)
           b == PolyScale(g, c)
<1>1. m + 1 \in 1..n /\ (m + 1) - 1 = m /\ n - (m + 1) + 1 = n - m /\ n - m \in Int
  OBVIOUS
<1>2. p[m + 1] = PolyAdd(a, b)
  BY <1>1 DEF IsPadded
<1>3. c \in Field /\ q \in Coeffs
  BY <1>1, CoeffInField
<1> HIDE DEF c, q
<1>4. a \in Coeffs /\ b \in Coeffs
  BY <1>3, TimesXFacts, PolyScaleCoeffs
<1>5. PolyAdd(a, b) \in Coeffs
  BY <1>4, PolyAddCoeffs
<1>6. ASSUME NEW k \in Nat, k > 0
      PROVE  CoeffOf(PolyAdd(a, b), k) = FAdd(CoeffOf(q, k - 1), FMul(c, CoeffOf(g, k)))
  <2>1. CoeffOf(a, k) = CoeffOf(q, k - 1)
    BY <1>3, <1>6, ShiftedCoeff
  <2>2. CoeffOf(b, k) = FMul(c, CoeffOf(g, k))
    BY <1>3, <1>6, MultipleCoeff
  <2> HIDE DEF a, b
  <2>3. QED
    BY <1>4, <1>6, <2>1, <2>2, SumCoeff
<1>7. QED
  BY <1>2, <1>5, <1>6 DEF c, q

\* The product of a sum is the sum of the products.
LEMMA ProductOfSum ==
    ASSUME NEW f \in Coeffs, NEW h \in Coeffs, NEW g \in Coeffs, NEW k \in Nat, k > 0
    PROVE  CoeffOf(PolyMul(PolyAdd(f, h), g), k)
             = FAdd(CoeffOf(PolyMul(f, g), k), CoeffOf(PolyMul(h, g), k))
<1> DEFINE n == LongerLen(f, h)
           r == PolyAdd(f, h)
<1>1. n \in Nat /\ Len(f) <= n /\ Len(h) <= n /\ Len(r) <= n /\ r \in Coeffs
  BY PolyAddCoeffs
<1> HIDE DEF n
<1>2. \A i \in Nat : i > 0 => CoeffOf(r, i) = FAdd(CoeffOf(f, i), CoeffOf(h, i))
  BY SumCoeff
<1> HIDE DEF r
<1>3. PICK a : IsPadded(a, f, g, n) /\ PolyMul(f, g) = a[n]
  BY <1>1, PolyMulPadded
<1>4. PICK b : IsPadded(b, h, g, n) /\ PolyMul(h, g) = b[n]
  BY <1>1, PolyMulPadded
<1>5. PICK c : IsPadded(c, r, g, n) /\ PolyMul(r, g) = c[n]
  BY <1>1, PolyMulPadded
<1> DEFINE Sums(m) == \A i \in Nat : i > 0 => CoeffOf(c[m], i) = FAdd(CoeffOf(a[m], i), CoeffOf(b[m], i))
           T == {m \in 0..n : a[m] \in Coeffs /\ b[m] \in Coeffs /\ c[m] \in Coeffs /\ Sums(m)}
<1>6. 0 \in T
  <2>1. a[0] = <<>> /\ b[0] = <<>> /\ c[0] = <<>>
    BY <1>3, <1>4, <1>5 DEF IsPadded
  <2>2. <<>> \in Coeffs /\ \A i \in Nat : i > 0 => CoeffOf(<<>>, i) = 0
    BY EmptySeq DEF Coeffs, CoeffOf
  <2>3. FAdd(0, 0) = 0
    BY FieldRing
  <2>4. Sums(0)
    BY <2>1, <2>2, <2>3
  <2> HIDE DEF Sums
  <2>5. QED
    BY <1>1, <2>1, <2>2, <2>4
<1>7. ASSUME NEW m \in 0..(n - 1), m \in T PROVE m + 1 \in T
  <2>1. a[m] \in Coeffs /\ b[m] \in Coeffs /\ c[m] \in Coeffs /\ m + 1 \in 0..n /\ n - m \in Nat /\ n - m > 0
    BY <1>1, <1>7
  <2>2. \A i \in Nat : CoeffOf(c[m], i) = FAdd(CoeffOf(a[m], i), CoeffOf(b[m], i))
    <3>1. Sums(m)
      BY <1>7
    <3>2. CoeffOf(c[m], 0) = 0 /\ CoeffOf(a[m], 0) = 0 /\ CoeffOf(b[m], 0) = 0
      BY DEF CoeffOf
    <3>3. FAdd(0, 0) = 0
      BY FieldRing
    <3>4. QED
      BY <3>1, <3>2, <3>3
  <2>3. /\ a[m + 1] \in Coeffs
        /\ \A i \in Nat : i > 0 => CoeffOf(a[m + 1], i) =
              FAdd(CoeffOf(a[m], i - 1), FMul(CoeffOf(f, n - m), CoeffOf(g, i)))
    BY <1>1, <1>3, <2>1, PaddedStep
  <2>4. /\ b[m + 1] \in Coeffs
        /\ \A i \in Nat : i > 0 => CoeffOf(b[m + 1], i) =
              FAdd(CoeffOf(b[m], i - 1), FMul(CoeffOf(h, n - m), CoeffOf(g, i)))
    BY <1>1, <1>4, <2>1, PaddedStep
  <2>5. /\ c[m + 1] \in Coeffs
        /\ \A i \in Nat : i > 0 => CoeffOf(c[m + 1], i) =
              FAdd(CoeffOf(c[m], i - 1), FMul(CoeffOf(r, n - m), CoeffOf(g, i)))
    BY <1>1, <1>5, <2>1, PaddedStep
  <2>6. ASSUME NEW i \in Nat, i > 0
        PROVE  CoeffOf(c[m + 1], i) = FAdd(CoeffOf(a[m + 1], i), CoeffOf(b[m + 1], i))
    <3> DEFINE x == CoeffOf(a[m], i - 1)
               y == CoeffOf(b[m], i - 1)
               u == CoeffOf(f, n - m)
               v == CoeffOf(h, n - m)
               w == CoeffOf(g, i)
    <3>1. i - 1 \in Nat /\ i - 1 \in Int /\ n - m \in Int /\ i \in Int
      BY <2>1, <2>6
    <3>2. x \in Field /\ y \in Field /\ u \in Field /\ v \in Field /\ w \in Field
      BY <2>1, <3>1, CoeffInField
    <3>3. CoeffOf(a[m + 1], i) = FAdd(x, FMul(u, w)) /\ CoeffOf(b[m + 1], i) = FAdd(y, FMul(v, w))
      BY <2>3, <2>4, <2>6
    <3>4. CoeffOf(c[m], i - 1) = FAdd(x, y)
      BY <2>2, <3>1
    <3>5. CoeffOf(r, n - m) = FAdd(u, v)
      BY <1>2, <2>1
    <3>6. CoeffOf(c[m + 1], i) = FAdd(FAdd(x, y), FMul(FAdd(u, v), w))
      BY <2>5, <2>6, <3>4, <3>5
    <3> HIDE DEF x, y, u, v, w
    <3>7. FMul(FAdd(u, v), w) = FAdd(FMul(u, w), FMul(v, w))
      BY <3>2, FieldRing
    <3>8. FMul(u, w) \in Field /\ FMul(v, w) \in Field
      BY <3>2, FieldRing
    <3> DEFINE s == FMul(u, w)
               t == FMul(v, w)
    <3> HIDE DEF s, t
    <3>9. FAdd(FAdd(x, s), FAdd(y, t)) = FAdd(FAdd(x, y), FAdd(s, t))
      BY <3>2, <3>8, SumOfSums DEF s, t
    <3>10. QED
      BY <3>3, <3>6, <3>7, <3>9 DEF s, t
  <2>7. QED
    BY <2>1, <2>3, <2>4, <2>5, <2>6
<1>8. 0..n \subseteq T
  <2> HIDE DEF T
  <2>1. QED
    BY <1>1, <1>6, <1>7, UpToInduction
<1>9. n \in T
  BY <1>1, <1>8
<1>10. QED
  BY <1>3, <1>4, <1>5, <1>9 DEF r

\* A product is no longer than its factors together.
LEMMA ProductLength ==
    ASSUME NEW f \in Coeffs, NEW g \in Coeffs
    PROVE  Len(PolyMul(f, g)) = 0 \/ Len(PolyMul(f, g)) <= Len(f) + Len(g) - 1
<1>1. Len(f) \in Nat /\ Len(g) \in Nat /\ Len(f) \in 0..Len(f)
  BY DEF Coeffs
<1>2. PICK p : IsProduct(p, f, g) /\ PolyMul(f, g) = p[Len(f)]
  BY PolyMulDef
<1>3. Len(p[Len(f)]) = 0 \/ Len(p[Len(f)]) <= Len(g) + Len(f) - 1
  BY <1>1, <1>2, PartialProducts
<1>4. Len(g) + Len(f) - 1 = Len(f) + Len(g) - 1
  BY <1>1
<1>5. QED
  BY <1>2, <1>3, <1>4

\* What a division keeps: the dividend is quotient times divisor plus remainder,
\* and neither outgrows what it is made from.
IsQuotient(div, f, g) ==
    /\ div.q \in Polys /\ div.r \in Polys
    /\ Len(div.r) <= Len(f)
    /\ Len(div.q) = 0 \/ Len(div.q) <= Len(f) - Len(g) + 1
    /\ \A k \in Nat : k > 0 => CoeffOf(f, k) =
          FAdd(CoeffOf(PolyMul(div.q, g), k), CoeffOf(div.r, k))

\* The term of a step, and its product with the divisor.
LEMMA LeadingTermType ==
    ASSUME NEW r \in Polys, NEW g \in Polys, g # <<>>, Len(g) <= Len(r)
    PROVE  LET term == LeadingTerm(r, g)
           IN /\ term \in Coeffs /\ Len(term) = Len(r) - Len(g) + 1
              /\ PolyMul(term, g) \in Coeffs /\ Len(PolyMul(term, g)) <= Len(r)
<1> DEFINE a == r[Len(r)]
           b == g[Len(g)]
           e == Len(r) - Len(g)
           c == FMul(a, InvOf(b))
           term == Monomial(c, e)
<1>1. r \in Coeffs /\ g \in Coeffs
  BY DEF Polys
<1>2. Len(g) \in Nat /\ Len(g) > 0 /\ Len(r) \in Nat /\ Len(r) > 0 /\ e \in Nat
  BY <1>1, EmptySeq DEF Coeffs
<1>3. a \in Field /\ b \in Field /\ b # 0
  BY <1>1, <1>2 DEF Coeffs, Polys
<1>4. LeadingTerm(r, g) = term
  BY DEF LeadingTerm, FMul
<1> HIDE DEF a, b, e
<1>5. c \in Field
  BY <1>3, InverseInField, FieldRing
<1> HIDE DEF c
<1>6. term \in Coeffs
  BY <1>2, <1>5, MonomialType
<1>7. Len(term) = e + 1
  <2>1. e + 1 \in Nat
    BY <1>2
  <2>2. term \in [1..(e + 1) -> Field]
    BY <1>5, FieldRing DEF Monomial
  <2> HIDE DEF term
  <2>3. QED
    BY <2>1, <2>2, FunctionIsSequence
<1> HIDE DEF term
<1>8. PolyMul(term, g) \in Coeffs
  BY <1>1, <1>6, PolyEvalMul
<1>9. Len(PolyMul(term, g)) = 0 \/ Len(PolyMul(term, g)) <= Len(term) + Len(g) - 1
  BY <1>1, <1>6, ProductLength
<1>10. Len(PolyMul(term, g)) <= Len(r)
  BY <1>2, <1>7, <1>9 DEF e
<1>11. QED
  BY <1>4, <1>6, <1>7, <1>8, <1>10 DEF e

\* A step of the division keeps it.
LEMMA NextIsQuotient ==
    ASSUME NEW f \in Polys, NEW g \in Polys, g # <<>>, NEW div, IsQuotient(div, f, g)
    PROVE  IsQuotient(NextDivision(div, g), f, g)
<1>1. CASE Len(div.r) < Len(g)
  BY <1>1 DEF NextDivision
<1>2. CASE ~(Len(div.r) < Len(g))
  <2> DEFINE term == LeadingTerm(div.r, g)
             next == DivStep(div, g, term)
             product == PolyMul(term, g)
             minus == PolyScale(product, P - 1)
             q == div.q
             r == div.r
  <2>1. /\ f \in Coeffs /\ g \in Coeffs /\ q \in Coeffs /\ r \in Coeffs /\ r \in Polys
        /\ Len(f) \in Nat /\ Len(g) \in Nat /\ Len(q) \in Nat /\ Len(r) \in Nat
        /\ Len(r) <= Len(f) /\ Len(g) <= Len(r)
        /\ Len(q) = 0 \/ Len(q) <= Len(f) - Len(g) + 1
    BY <1>2 DEF Polys, Coeffs, IsQuotient
  <2>2. /\ term \in Coeffs /\ Len(term) = Len(r) - Len(g) + 1
        /\ product \in Coeffs /\ Len(product) <= Len(r)
    BY <2>1, LeadingTermType
  <2>3. NextDivision(div, g) = next
    BY <1>2 DEF NextDivision
  <2> HIDE DEF term
  <2>4. next.q = PolyAdd(q, term) /\ next.r = PolyAdd(r, minus)
    BY DEF DivStep, PolySub
  <2>5. minus \in Coeffs /\ Len(minus) <= Len(product)
    BY <2>2, MinusOne, PolyScaleCoeffs
  <2>6. /\ PolyAdd(q, term) \in Polys /\ PolyAdd(q, term) \in Coeffs
        /\ Len(PolyAdd(q, term)) <= LongerLen(q, term)
    BY <2>1, <2>2, PolyAddCoeffs
  <2>7. /\ PolyAdd(r, minus) \in Polys /\ PolyAdd(r, minus) \in Coeffs
        /\ Len(PolyAdd(r, minus)) <= LongerLen(r, minus)
    <3> HIDE DEF minus, r
    <3>1. QED
      BY <2>1, <2>5, PolyAddCoeffs
  <2>8. Len(PolyAdd(q, term)) = 0 \/ Len(PolyAdd(q, term)) <= Len(f) - Len(g) + 1
    <3> DEFINE l == Len(PolyAdd(q, term))
    <3>1. l <= LongerLen(q, term) /\ l \in Nat
      BY <2>6 DEF Coeffs
    <3> HIDE DEF l, q
    <3>2. Len(term) \in Nat
      BY <2>2 DEF Coeffs
    <3>3. l <= Len(q) \/ l <= Len(term)
      BY <3>1 DEF LongerLen
    <3>4. QED
      BY <2>1, <2>2, <3>1, <3>2, <3>3 DEF l
  <2>9. Len(PolyAdd(r, minus)) <= Len(f)
    <3> DEFINE l == Len(PolyAdd(r, minus))
    <3>1. l <= LongerLen(r, minus) /\ l \in Nat
      BY <2>7 DEF Coeffs
    <3>2. Len(minus) \in Nat /\ Len(product) \in Nat
      BY <2>2, <2>5 DEF Coeffs
    <3> HIDE DEF l, minus, r
    <3>3. l <= Len(r) \/ l <= Len(minus)
      BY <3>1 DEF LongerLen
    <3>4. QED
      BY <2>1, <2>2, <2>5, <3>1, <3>2, <3>3 DEF l
  <2>10. ASSUME NEW k \in Nat, k > 0
         PROVE  CoeffOf(f, k) = FAdd(CoeffOf(PolyMul(PolyAdd(q, term), g), k), CoeffOf(PolyAdd(r, minus), k))
    <3> DEFINE x == CoeffOf(PolyMul(q, g), k)
               m == CoeffOf(product, k)
               y == CoeffOf(r, k)
               w == FMul(P - 1, m)
    <3>1. CoeffOf(f, k) = FAdd(x, y)
      BY <2>10 DEF IsQuotient
    <3>2. CoeffOf(PolyMul(PolyAdd(q, term), g), k) = FAdd(x, m)
      BY <2>1, <2>2, <2>10, ProductOfSum
    <3>3. CoeffOf(minus, k) = w
      <4> HIDE DEF product
      <4>1. QED
        BY <2>2, <2>10, MinusOne, MultipleCoeff
    <3>4. CoeffOf(PolyAdd(r, minus), k) = FAdd(y, w)
      <4> HIDE DEF minus, r, w
      <4>1. CoeffOf(PolyAdd(r, minus), k) = FAdd(CoeffOf(r, k), CoeffOf(minus, k))
        BY <2>1, <2>5, <2>10, SumCoeff
      <4>2. QED
        BY <3>3, <4>1
    <3>5. x \in Field /\ m \in Field /\ y \in Field
      <4>1. PolyMul(q, g) \in Coeffs /\ k \in Int
        BY <2>1, <2>10, PolyEvalMul
      <4>2. QED
        BY <2>1, <2>2, <4>1, CoeffInField
    <3> HIDE DEF x, m, y
    <3>6. w \in Field /\ FAdd(m, w) = 0
      BY <3>5, MinusOne, FieldRing
    <3> HIDE DEF w
    <3>7. FAdd(FAdd(x, m), FAdd(y, w)) = FAdd(FAdd(x, y), FAdd(m, w))
      BY <3>5, <3>6, SumOfSums
    <3>8. FAdd(x, y) \in Field
      BY <3>5, FieldRing
    <3>9. FAdd(FAdd(x, y), 0) = FAdd(x, y)
      BY <3>8, FieldRing
    <3>10. QED
      BY <3>1, <3>2, <3>4, <3>6, <3>7, <3>9
  <2> HIDE DEF next, product, minus, q, r
  <2>11. QED
    BY <2>3, <2>4, <2>6, <2>7, <2>8, <2>9, <2>10 DEF IsQuotient
<1>3. QED
  BY <1>1, <1>2

\* divide_with_q_and_r, as polynomials.
LEMMA DivisionIsExact ==
    ASSUME NEW f \in Polys, NEW g \in Polys, g # <<>>
    PROVE  IsQuotient(PolyDivRem(f, g), f, g)
<1> DEFINE n == Len(f)
<1>1. n \in Nat /\ f \in Coeffs /\ g \in Coeffs
  BY DEF Polys, Coeffs
<1>2. PICK p : IsDivision(p, f, g) /\ PolyDivRem(f, g) = p[n]
  BY <1>1, PolyDivRemDef
<1>3. p[0] = [q |-> <<>>, r |-> f] /\ \A i \in 1..n : p[i] = NextDivision(p[i - 1], g)
  BY <1>2 DEF IsDivision
<1> HIDE DEF n
<1> DEFINE T == {m \in 0..n : IsQuotient(p[m], f, g)}
<1>4. 0 \in T
  <2>1. p[0].q = <<>> /\ p[0].r = f /\ <<>> \in Polys /\ <<>> \in Coeffs /\ Len(<<>>) = 0
    BY <1>3, EmptySeq DEF Polys, Coeffs
  <2>2. PolyMul(<<>>, g) = <<>>
    <3>1. PICK z : IsProduct(z, <<>>, g) /\ PolyMul(<<>>, g) = z[0]
      BY <1>1, <2>1, PolyMulDef
    <3>2. QED
      BY <3>1 DEF IsProduct
  <2>3. ASSUME NEW k \in Nat, k > 0
        PROVE  CoeffOf(f, k) = FAdd(CoeffOf(PolyMul(<<>>, g), k), CoeffOf(f, k))
    <3>1. CoeffOf(<<>>, k) = 0
      BY DEF CoeffOf
    <3>2. CoeffOf(f, k) \in Field
      BY <1>1, CoeffInField
    <3>3. QED
      BY <2>2, <3>1, <3>2, FieldZero
  <2>4. Len(f) <= Len(f)
    BY <1>1 DEF n
  <2>5. IsQuotient(p[0], f, g)
    BY <2>1, <2>3, <2>4 DEF IsQuotient
  <2>6. QED
    BY <1>1, <2>5
<1>5. ASSUME NEW m \in 0..(n - 1), m \in T PROVE m + 1 \in T
  <2>1. m + 1 \in 1..n /\ (m + 1) - 1 = m /\ m + 1 \in 0..n
    BY <1>1
  <2>2. p[m + 1] = NextDivision(p[m], g)
    BY <1>3, <2>1
  <2>3. IsQuotient(NextDivision(p[m], g), f, g)
    BY <1>5, NextIsQuotient
  <2>4. QED
    BY <2>1, <2>2, <2>3
<1>6. 0..n \subseteq T
  <2> HIDE DEF T
  <2>1. QED
    BY <1>1, <1>4, <1>5, UpToInduction
<1>7. QED
  BY <1>1, <1>2, <1>6

\* Without a remainder, a polynomial is its quotient times the divisor.
LEMMA QuotientTimesDivisor ==
    ASSUME NEW f \in Polys, NEW g \in Polys, g # <<>>, PolyDivRem(f, g).r = <<>>
    PROVE  PolyMul(PolyDivRem(f, g).q, g) = f
<1> DEFINE q == PolyDivRem(f, g).q
           m == PolyMul(q, g)
<1>1. IsQuotient(PolyDivRem(f, g), f, g)
  BY DivisionIsExact
<1>2. q \in Coeffs /\ g \in Coeffs /\ f \in Coeffs
  BY <1>1 DEF IsQuotient, Polys
<1>3. m \in Polys /\ m \in Coeffs
  BY <1>2, PolyEvalMul
<1>4. \A k \in Nat : k > 0 => CoeffOf(f, k) = FAdd(CoeffOf(m, k), CoeffOf(<<>>, k))
  BY <1>1 DEF IsQuotient
<1> HIDE DEF m
<1> DEFINE n == LongerLen(f, m)
<1>5. n \in Nat /\ Len(f) <= n /\ Len(m) <= n
  BY <1>2, <1>3, PolyAddCoeffs
<1> HIDE DEF n
<1>6. ASSUME NEW k \in 1..n PROVE CoeffOf(m, k) = CoeffOf(f, k)
  <2>1. k \in Nat /\ k > 0
    BY <1>5
  <2>2. CoeffOf(<<>>, k) = 0
    BY <2>1 DEF CoeffOf
  <2>3. CoeffOf(m, k) \in Field
    BY <1>3, <2>1, CoeffInField
  <2>4. QED
    BY <1>4, <2>1, <2>2, <2>3, FieldRing
<1>7. m = f
  BY <1>3, <1>5, <1>6, SameCoeffs
<1>8. QED
  BY <1>7 DEF m

-----------------------------------------------------------------------------
(* The type of an interpolation *)

\* The partial sums of a linear combination.
IsCombination(p, ys, fs) ==
    /\ p[0] = <<>>
    /\ \A j \in 1..Len(ys) : p[j] = PolyAdd(p[j - 1], PolyScale(fs[j], ys[j]))

\* LinearCombination adds one multiple after the other.
LEMMA LinearCombinationDef ==
    ASSUME NEW ys \in Coeffs, NEW fs
    PROVE  \E p : IsCombination(p, ys, fs) /\ LinearCombination(ys, fs) = p[Len(ys)]
<1> DEFINE n == Len(ys)
           Step(v, i) == PolyAdd(v, PolyScale(fs[i], ys[i]))
           Value(s, i) == IF i = 0 THEN <<>> ELSE Step(s[i - 1], i)
           Solves(s, m) == \A i \in 0..m : s[i] = Value(s, i)
           T == {m \in 0..n : \E s : Solves(s, m)}
<1>0. n \in Nat
  BY DEF Coeffs
<1>p. LinearCombination(ys, fs) = (CHOOSE s : s = [i \in 0..n |-> Value(s, i)])[n]
  BY DEF LinearCombination
<1>q. ASSUME NEW p, p[0] = <<>>, \A i \in 1..n : p[i] = Step(p[i - 1], i) PROVE IsCombination(p, ys, fs)
  BY <1>q DEF IsCombination
<1> HIDE DEF Step, n
<1>1. 0 \in T
  <2> DEFINE s == [i \in 0..0 |-> <<>>]
  <2>1. Solves(s, 0)
    OBVIOUS
  <2> HIDE DEF s, Solves
  <2>2. \E z : Solves(z, 0)
    BY <2>1
  <2>3. QED
    BY <1>0, <2>2
<1>2. ASSUME NEW m \in 0..(n - 1), m \in T PROVE m + 1 \in T
  <2>1. PICK s : Solves(s, m)
    BY <1>2
  <2> DEFINE t == [i \in 0..(m + 1) |-> IF i = m + 1 THEN Step(s[m], m + 1) ELSE s[i]]
  <2>2. Solves(t, m + 1)
    <3> SUFFICES ASSUME NEW i \in 0..(m + 1) PROVE t[i] = Value(t, i)
      OBVIOUS
    <3>1. CASE i = m + 1
      <4>1. i # 0 /\ i - 1 = m /\ m # m + 1 /\ m \in 0..(m + 1)
        BY <1>0, <3>1
      <4>2. t[i] = Step(s[m], m + 1) /\ t[i - 1] = s[m]
        BY <3>1, <4>1
      <4>3. QED
        BY <3>1, <4>1, <4>2
    <3>2. CASE i \in 0..m
      <4>1. s[i] = Value(s, i)
        BY <2>1, <3>2
      <4>2. t[i] = s[i]
        BY <1>0, <3>2
      <4>3. CASE i = 0
        BY <4>1, <4>2, <4>3
      <4>4. CASE i # 0
        <5>1. t[i - 1] = s[i - 1]
          BY <1>0, <3>2, <4>4
        <5>2. QED
          BY <4>1, <4>2, <4>4, <5>1
      <4>5. QED
        BY <4>3, <4>4
    <3>3. QED
      BY <1>0, <3>1, <3>2
  <2> HIDE DEF t, Solves
  <2>3. \E z : Solves(z, m + 1)
    BY <2>2
  <2>4. QED
    BY <1>0, <2>3
<1>3. 0..n \subseteq T
  <2> HIDE DEF T
  <2>1. QED
    BY <1>0, <1>1, <1>2, UpToInduction
<1>4. PICK s : Solves(s, n)
  BY <1>0, <1>3
<1> DEFINE r == [i \in 0..n |-> s[i]]
<1>5. r = [i \in 0..n |-> Value(r, i)]
  <2>1. ASSUME NEW i \in 0..n PROVE r[i] = Value(r, i)
    <3>1. s[i] = Value(s, i)
      BY <1>4
    <3>2. CASE i = 0
      BY <3>1, <3>2
    <3>3. CASE i # 0
      <4>1. r[i - 1] = s[i - 1]
        BY <1>0, <3>3
      <4>2. QED
        BY <3>1, <3>3, <4>1
    <3>4. QED
      BY <3>2, <3>3
  <2>2. r = [i \in 0..n |-> r[i]]
    OBVIOUS
  <2> HIDE DEF r, Value
  <2>3. QED
    BY <2>1, <2>2
<1> HIDE DEF r
<1> DEFINE p == CHOOSE z : z = [i \in 0..n |-> Value(z, i)]
           step == [i \in 0..n |-> Value(p, i)]
<1>6. p = step
  BY <1>5
<1>7. LinearCombination(ys, fs) = p[n]
  BY <1>p
<1> HIDE DEF p
<1>8. step[0] = <<>>
  BY <1>0
<1>9. ASSUME NEW i \in 1..n PROVE step[i] = Step(p[i - 1], i)
  <2>1. i \in 0..n /\ i # 0
    BY <1>0
  <2>2. QED
    BY ONLY <2>1
<1> HIDE DEF step
<1>10. p[0] = <<>> /\ \A i \in 1..n : p[i] = Step(p[i - 1], i)
  BY <1>6, <1>8, <1>9
<1>11. IsCombination(p, ys, fs)
  BY <1>10, <1>q
<1>12. QED
  BY <1>7, <1>11 DEF n

\* A linear combination is a polynomial, no longer than what it combines.
LEMMA LinearCombinationType ==
    ASSUME NEW ys \in Coeffs, NEW fs, NEW l \in Nat,
           \A j \in 1..Len(ys) : fs[j] \in Coeffs /\ Len(fs[j]) <= l
    PROVE  LinearCombination(ys, fs) \in Coeffs /\ Len(LinearCombination(ys, fs)) <= l
<1> DEFINE n == Len(ys)
<1>1. n \in Nat /\ \A j \in 1..n : ys[j] \in Field
  BY DEF Coeffs
<1>2. PICK p : IsCombination(p, ys, fs) /\ LinearCombination(ys, fs) = p[n]
  BY LinearCombinationDef
<1>3. p[0] = <<>> /\ \A j \in 1..n : p[j] = PolyAdd(p[j - 1], PolyScale(fs[j], ys[j]))
  BY <1>2 DEF IsCombination
<1>4. \A j \in 1..n : fs[j] \in Coeffs /\ Len(fs[j]) <= l
  OBVIOUS
<1> HIDE DEF n
<1> DEFINE T == {m \in 0..n : p[m] \in Coeffs /\ Len(p[m]) <= l}
<1>5. 0 \in T
  <2>1. <<>> \in Coeffs /\ Len(<<>>) = 0
    BY DEF Coeffs
  <2>2. QED
    BY <1>1, <1>3, <2>1
<1>6. ASSUME NEW m \in 0..(n - 1), m \in T PROVE m + 1 \in T
  <2> DEFINE a == p[m]
             e == fs[m + 1]
             b == PolyScale(e, ys[m + 1])
             r == PolyAdd(a, b)
  <2>1. m + 1 \in 1..n /\ (m + 1) - 1 = m /\ m + 1 \in 0..n
    BY <1>1
  <2>2. p[m + 1] = r
    BY <1>3, <2>1
  <2>3. a \in Coeffs /\ Len(a) <= l
    BY <1>6
  <2>4. e \in Coeffs /\ Len(e) <= l /\ ys[m + 1] \in Field
    BY <1>1, <1>4, <2>1
  <2> HIDE DEF a, e
  <2>5. b \in Coeffs /\ Len(b) <= Len(e)
    BY <2>4, PolyScaleCoeffs
  <2> HIDE DEF b
  <2>6. r \in Coeffs /\ Len(r) <= LongerLen(a, b)
    BY <2>3, <2>5, PolyAddCoeffs
  <2> HIDE DEF r
  <2>7. Len(a) \in Nat /\ Len(b) \in Nat /\ Len(e) \in Nat /\ Len(r) \in Nat
    BY <2>3, <2>4, <2>5, <2>6 DEF Coeffs
  <2>8. Len(r) <= l
    BY <2>3, <2>4, <2>5, <2>6, <2>7 DEF LongerLen
  <2>9. QED
    BY <2>1, <2>2, <2>6, <2>8
<1>7. 0..n \subseteq T
  <2> HIDE DEF T
  <2>1. QED
    BY <1>1, <1>5, <1>6, UpToInduction
<1>8. QED
  BY <1>1, <1>2, <1>7

\* The denominators of a Lagrange basis are field elements.
LEMMA DenominatorsType ==
    ASSUME NEW xs \in Coeffs, xs # <<>>, NEW j \in 1..Len(xs)
    PROVE  Denominators(xs)[j] \in Field
<1> DEFINE z == ProductFromRoots(xs)
           n == Len(z)
           cs == [i \in 1..(n - 1) |-> (i * z[i + 1]) % P]
<1>1. z \in Coeffs /\ z # <<>>
  BY ProductVanishes DEF Polys
<1> HIDE DEF z
<1>2. n \in Nat /\ n > 0 /\ \A i \in 1..n : z[i] \in Int
  BY <1>1, EmptySeq, FieldIsInt DEF Coeffs
<1>3. n - 1 \in Nat
  BY <1>2
<1>4. ASSUME NEW i \in 1..(n - 1) PROVE (i * z[i + 1]) % P \in Field
  <2>1. i + 1 \in 1..n
    BY <1>2
  <2>2. i * z[i + 1] \in Int
    BY <1>2, <2>1
  <2>3. QED
    BY <2>2, ResidueInField
<1>5. cs \in [1..(n - 1) -> Field]
  BY <1>4
<1>6. Derivative(z) = Trim(cs)
  BY DEF Derivative
<1> HIDE DEF cs, n
<1>7. Derivative(z) \in Coeffs
  BY <1>3, <1>5, <1>6, TrimCoeffs
<1>8. Denominators(xs) = [i \in DOMAIN xs |-> PolyEval(Derivative(z), xs[i])]
  BY <1>7, EvaluationIsPointwise DEF Denominators, z
<1>9. j \in DOMAIN xs /\ xs[j] \in Field
  BY DEF Coeffs
<1>10. QED
  BY <1>7, <1>8, <1>9, PolyEvalType

\* At distinct points, as the denominators see it, the basis is polynomials.
LEMMA LagrangeBasisType ==
    ASSUME NEW xs \in Coeffs, xs # <<>>, LagrangeDefined(xs)
    PROVE  /\ Len(LagrangeBasis(xs)) = Len(xs)
           /\ \A j \in 1..Len(xs) : /\ LagrangeBasis(xs)[j] \in Coeffs
                                    /\ Len(LagrangeBasis(xs)[j]) <= Len(xs)
<1> DEFINE n == Len(xs)
           z == ProductFromRoots(xs)
           E(j) == PolyScale(PolyDivRem(z, LinearFactor(xs[j])).q, InvOf(Denominators(xs)[j]))
           basis == [j \in 1..n |-> E(j)]
<1>1. n \in Nat /\ DOMAIN xs = 1..n /\ \A j \in 1..n : xs[j] \in Field
  BY DEF Coeffs
<1>2. z \in Polys /\ z \in Coeffs /\ Len(z) = n + 1
  BY ProductVanishes DEF Polys
<1>3. LagrangeBasis(xs) = basis
  BY <1>1 DEF LagrangeBasis, LagrangeBasisFrom
<1> HIDE DEF n, z
<1>4. ASSUME NEW j \in 1..n PROVE E(j) \in Coeffs /\ Len(E(j)) <= n
  <2> DEFINE div == PolyDivRem(z, LinearFactor(xs[j]))
             inv == InvOf(Denominators(xs)[j])
  <2>1. /\ LinearFactor(xs[j]) \in Polys /\ LinearFactor(xs[j]) # <<>>
        /\ Len(LinearFactor(xs[j])) = 2
    BY <1>1, LinearFactorRoot
  <2>2. div.q \in Coeffs /\ (Len(div.q) = 0 \/ Len(div.q) <= Len(z) - 2 + 1)
    BY <1>2, <2>1, DivisionIsExact DEF IsQuotient, Polys
  <2>3. Denominators(xs)[j] \in Field /\ Denominators(xs)[j] # 0
    BY <1>1, DenominatorsType DEF LagrangeDefined, n
  <2>4. inv \in Field
    BY <2>3, InverseInField
  <2> HIDE DEF div, inv
  <2>5. PolyScale(div.q, inv) \in Coeffs /\ Len(PolyScale(div.q, inv)) <= Len(div.q)
    BY <2>2, <2>4, PolyScaleCoeffs
  <2>6. Len(PolyScale(div.q, inv)) <= n
    <3>1. Len(PolyScale(div.q, inv)) \in Nat /\ Len(div.q) \in Nat
      BY <2>2, <2>5 DEF Coeffs
    <3>2. QED
      BY <1>1, <1>2, <2>2, <2>5, <3>1
  <2>7. QED
    BY <2>5, <2>6 DEF div, inv
<1> HIDE DEF E
<1>5. basis \in [1..n -> Coeffs]
  BY <1>4
<1>6. Len(basis) = n
  <2> HIDE DEF basis
  <2>1. QED
    BY <1>1, <1>5, FunctionIsSequence
<1>7. QED
  BY <1>3, <1>4, <1>6 DEF n

-----------------------------------------------------------------------------
(* Derivatives *)

\* The k-th coefficient of a derivative.
LEMMA DerivativeCoeff ==
    ASSUME NEW f \in Coeffs
    PROVE  /\ Derivative(f) \in Polys /\ Derivative(f) \in Coeffs
           /\ \A k \in Nat : k > 0 =>
                 CoeffOf(Derivative(f), k) = FMul(k % P, CoeffOf(f, k + 1))
<1> DEFINE n == Len(f)
           l == IF n = 0 THEN 0 ELSE n - 1
           c(i) == (i * f[i + 1]) % P
           cs == [i \in 1..l |-> c(i)]
           r == Derivative(f)
<1>1. n \in Nat /\ l \in Nat /\ P \in Nat /\ P > 1 /\ \A i \in 1..n : f[i] \in Field /\ f[i] \in Int
  <2>1. n \in Nat /\ \A i \in 1..n : f[i] \in Field
    BY DEF Coeffs
  <2>2. QED
    BY <2>1, FieldIsInt, OrderAssumption
<1>2. ASSUME NEW i \in 1..l
      PROVE  c(i) \in Field /\ c(i) = FMul(i % P, CoeffOf(f, i + 1)) /\ i + 1 \in 1..n
  <2>1. i + 1 \in 1..n /\ i \in Int
    BY <1>1
  <2>2. f[i + 1] \in Int /\ CoeffOf(f, i + 1) = f[i + 1]
    BY <1>1, <2>1 DEF CoeffOf
  <2> DEFINE b == f[i + 1]
  <2>3. b \in Int
    BY <2>2
  <2>4. i * b \in Int
    BY <2>1, <2>3
  <2>5. c(i) = (i * b) % P /\ CoeffOf(f, i + 1) = b
    BY <2>2
  <2> HIDE DEF b, c
  <2>6. ((i % P) * b) % P = (i * b) % P
    BY <2>1, <2>3, ReduceFirst
  <2>7. (i * b) % P \in Field
    BY <2>4, ResidueInField
  <2>8. QED
    BY <2>1, <2>5, <2>6, <2>7 DEF FMul
<1>3. 1..l = 1..(n - 1)
  <2>1. CASE n = 0
    BY <2>1
  <2>2. CASE n # 0
    BY <2>2
  <2>3. QED
    BY <2>1, <2>2
<1>4. r = Trim(cs)
  <2>1. r = Trim([i \in 1..(n - 1) |-> c(i)])
    BY DEF Derivative
  <2> HIDE DEF c, l
  <2>2. QED
    BY <1>3, <2>1
<1> HIDE DEF c
<1>5. cs \in [1..l -> Field] /\ \A i \in 1..l : cs[i] = c(i)
  BY <1>2
<1> HIDE DEF cs, r
<1>6. /\ r \in Polys /\ r \in Coeffs /\ Len(r) <= l
      /\ \A i \in 1..l : CoeffOf(r, i) = cs[i]
  BY <1>1, <1>4, <1>5, TrimCoeffs
<1>7. Len(r) \in Nat
  BY <1>6 DEF Coeffs
<1>8. ASSUME NEW k \in Nat, k > 0 PROVE CoeffOf(r, k) = FMul(k % P, CoeffOf(f, k + 1))
  <2>1. CASE k \in 1..l
    BY <1>2, <1>5, <1>6, <2>1
  <2>2. CASE k \notin 1..l
    <3>1. k > l /\ k + 1 > n
      BY <1>1, <1>8, <2>2
    <3>2. CoeffOf(r, k) = 0 /\ CoeffOf(f, k + 1) = 0
      BY <1>1, <1>6, <1>7, <3>1 DEF CoeffOf
    <3>3. k % P \in Field
      BY <1>8, ResidueInField
    <3>4. QED
      BY <3>2, <3>3, FieldRing
  <2>3. QED
    BY <2>1, <2>2
<1>9. QED
  BY <1>6, <1>8 DEF r

\* Polynomials with the same coefficients are the same.
LEMMA SamePolys ==
    ASSUME NEW f \in Polys, NEW g \in Polys,
           \A k \in Nat : k > 0 => CoeffOf(f, k) = CoeffOf(g, k)
    PROVE  f = g
<1> DEFINE n == LongerLen(f, g)
<1>1. f \in Coeffs /\ g \in Coeffs
  BY DEF Polys
<1>2. n \in Nat /\ Len(f) <= n /\ Len(g) <= n
  BY <1>1, PolyAddCoeffs
<1> HIDE DEF n
<1>3. \A i \in 1..n : CoeffOf(f, i) = CoeffOf(g, i)
  BY <1>2
<1>4. QED
  BY <1>2, <1>3, SameCoeffs

\* The derivative of a sum and of a multiple.
LEMMA DerivativeOfSum ==
    ASSUME NEW f \in Coeffs, NEW g \in Coeffs
    PROVE  Derivative(PolyAdd(f, g)) = PolyAdd(Derivative(f), Derivative(g))
<1> DEFINE s == PolyAdd(f, g)
           df == Derivative(f)
           dg == Derivative(g)
<1>1. s \in Coeffs
  BY PolyAddCoeffs
<1>2. df \in Coeffs /\ dg \in Coeffs
  BY DerivativeCoeff
<1> HIDE DEF s
<1>3. Derivative(s) \in Polys
  BY <1>1, DerivativeCoeff
<1>4. PolyAdd(df, dg) \in Polys
  BY <1>2, PolyAddCoeffs
<1>5. ASSUME NEW k \in Nat, k > 0 PROVE CoeffOf(Derivative(s), k) = CoeffOf(PolyAdd(df, dg), k)
  <2> DEFINE c == k % P
             a == CoeffOf(f, k + 1)
             b == CoeffOf(g, k + 1)
  <2>1. c \in Field /\ a \in Field /\ b \in Field /\ k + 1 \in Nat /\ k + 1 > 0
    BY <1>5, ResidueInField, CoeffInField
  <2>2. CoeffOf(Derivative(s), k) = FMul(c, CoeffOf(s, k + 1))
    BY <1>1, <1>5, DerivativeCoeff
  <2>3. CoeffOf(s, k + 1) = FAdd(a, b)
    BY <2>1, SumCoeff DEF s
  <2>4. CoeffOf(df, k) = FMul(c, a) /\ CoeffOf(dg, k) = FMul(c, b)
    BY <1>5, DerivativeCoeff
  <2> HIDE DEF a, b, c, df, dg
  <2>5. CoeffOf(PolyAdd(df, dg), k) = FAdd(CoeffOf(df, k), CoeffOf(dg, k))
    BY <1>2, <1>5, SumCoeff
  <2>6. QED
    BY <2>1, <2>2, <2>3, <2>4, <2>5, MulOfSum
<1>6. QED
  BY <1>3, <1>4, <1>5, SamePolys DEF s

\* The derivative of a multiple is the multiple of the derivative.
LEMMA DerivativeOfMultiple ==
    ASSUME NEW f \in Coeffs, NEW c \in Field
    PROVE  Derivative(PolyScale(f, c)) = PolyScale(Derivative(f), c)
<1> DEFINE s == PolyScale(f, c)
           df == Derivative(f)
<1>1. s \in Coeffs
  BY PolyScaleCoeffs
<1>2. df \in Coeffs
  BY DerivativeCoeff
<1> HIDE DEF s
<1>3. Derivative(s) \in Polys
  BY <1>1, DerivativeCoeff
<1>4. PolyScale(df, c) \in Polys
  BY <1>2, PolyScaleCoeffs
<1>5. ASSUME NEW k \in Nat, k > 0 PROVE CoeffOf(Derivative(s), k) = CoeffOf(PolyScale(df, c), k)
  <2> DEFINE e == k % P
             a == CoeffOf(f, k + 1)
  <2>1. e \in Field /\ a \in Field /\ k + 1 \in Nat /\ k + 1 > 0
    BY <1>5, ResidueInField, CoeffInField
  <2>2. CoeffOf(Derivative(s), k) = FMul(e, CoeffOf(s, k + 1))
    BY <1>1, <1>5, DerivativeCoeff
  <2>3. CoeffOf(s, k + 1) = FMul(c, a)
    BY <2>1, MultipleCoeff DEF s
  <2>4. CoeffOf(df, k) = FMul(e, a)
    BY <1>5, DerivativeCoeff
  <2> HIDE DEF a, e, df
  <2>5. CoeffOf(PolyScale(df, c), k) = FMul(c, CoeffOf(df, k))
    BY <1>2, <1>5, MultipleCoeff
  <2>6. FMul(e, FMul(c, a)) = FMul(FMul(e, c), a)
    BY <2>1, FieldRing
  <2>7. FMul(c, FMul(e, a)) = FMul(FMul(c, e), a)
    BY <2>1, FieldRing
  <2>8. FMul(e, c) = FMul(c, e)
    BY <2>1, FieldRing
  <2>9. QED
    BY <2>2, <2>3, <2>4, <2>5, <2>6, <2>7, <2>8
<1>6. QED
  BY <1>3, <1>4, <1>5, SamePolys DEF s

\* The derivative of X times a polynomial.
LEMMA DerivativeOfShift ==
    ASSUME NEW f \in Coeffs
    PROVE  Derivative(TimesX(f)) = PolyAdd(f, TimesX(Derivative(f)))
<1> DEFINE s == TimesX(f)
           df == Derivative(f)
           t == TimesX(df)
<1>1. s \in Coeffs
  BY TimesXFacts
<1>2. df \in Coeffs
  BY DerivativeCoeff
<1> HIDE DEF s, df
<1>3. t \in Coeffs
  BY <1>2, TimesXFacts
<1>4. Derivative(s) \in Polys
  BY <1>1, DerivativeCoeff
<1>5. PolyAdd(f, t) \in Polys
  BY <1>3, PolyAddCoeffs
<1>6. ASSUME NEW k \in Nat, k > 0 PROVE CoeffOf(Derivative(s), k) = CoeffOf(PolyAdd(f, t), k)
  <2> DEFINE a == CoeffOf(f, k)
             e == k % P
             m == (k - 1) % P
  <2>1. k - 1 \in Nat /\ k \in Int /\ k - 1 \in Int /\ k + 1 \in Nat /\ k + 1 > 0 /\ (k + 1) - 1 = k
        /\ (k - 1) + 1 = k
    BY <1>6
  <2>2. a \in Field /\ e \in Field /\ m \in Field
    BY <2>1, ResidueInField, CoeffInField
  <2>3. CoeffOf(Derivative(s), k) = FMul(e, CoeffOf(s, k + 1))
    BY <1>1, <1>6, DerivativeCoeff
  <2>4. CoeffOf(s, k + 1) = CoeffOf(f, (k + 1) - 1)
    BY <2>1, ShiftedCoeff DEF s
  <2>5. CoeffOf(t, k) = CoeffOf(df, k - 1)
    BY <1>2, <1>6, ShiftedCoeff
  <2>6. CoeffOf(PolyAdd(f, t), k) = FAdd(a, CoeffOf(t, k))
    <3> HIDE DEF t
    <3>1. QED
      BY <1>3, <1>6, SumCoeff
  <2>7. CoeffOf(df, k - 1) = FMul(m, a)
    <3>1. CASE k = 1
      <4>1. CoeffOf(df, k - 1) = 0
        BY <3>1 DEF CoeffOf
      <4>2. m = 0
        <5>1. k - 1 = 0 /\ 0 % P = 0
          BY <3>1, OrderAssumption
        <5>2. QED
          BY <5>1
      <4>3. QED
        BY <2>2, <4>1, <4>2, FieldZero
    <3>2. CASE k # 1
      <4>1. k - 1 > 0
        BY <1>6, <3>2
      <4>2. CoeffOf(df, k - 1) = FMul((k - 1) % P, CoeffOf(f, (k - 1) + 1))
        BY <2>1, <4>1, DerivativeCoeff DEF df
      <4>3. QED
        BY <2>1, <4>2
    <3>3. QED
      BY <3>1, <3>2
  <2>8. e = FAdd(m, 1)
    <3> DEFINE j == k - 1
    <3>1. j \in Int /\ 1 \in Int /\ j + 1 = k
      BY <2>1
    <3> HIDE DEF j
    <3>2. ((j % P) + 1) % P = (j + 1) % P
      BY <3>1, ReduceFirst
    <3>3. QED
      BY <3>1, <3>2 DEF FAdd, j
  <2> HIDE DEF a, e, m
  <2>9. FMul(e, a) = FAdd(FMul(m, a), FMul(1, a))
    BY <2>2, <2>8, FieldRing
  <2>10. FMul(1, a) = FMul(a, 1)
    BY <2>2, FieldRing
  <2>11. FMul(a, 1) = a
    BY <2>2, FieldRing
  <2>12. FMul(m, a) \in Field
    BY <2>2, FieldRing
  <2>13. FAdd(FMul(m, a), a) = FAdd(a, FMul(m, a))
    BY <2>2, <2>12, FieldRing
  <2>14. CoeffOf(Derivative(s), k) = FMul(e, a)
    BY <2>1, <2>3, <2>4 DEF a
  <2>15. QED
    BY <2>5, <2>6, <2>7, <2>9, <2>10, <2>11, <2>13, <2>14
<1>7. QED
  BY <1>4, <1>5, <1>6, SamePolys DEF s, df

\* The value of the derivative.
Slope(f, x) == PolyEval(Derivative(f), x)

\* Value and slope after a step of Horner's rule.
LEMMA SlopeOfStep ==
    ASSUME NEW f \in Coeffs, NEW g \in Coeffs, NEW c \in Field, NEW x \in Field
    PROVE  LET next == PolyAdd(TimesX(f), PolyScale(g, c))
           IN /\ next \in Coeffs
              /\ PolyEval(next, x) = FAdd(FMul(x, PolyEval(f, x)), FMul(c, PolyEval(g, x)))
              /\ Slope(next, x) = FAdd(FAdd(PolyEval(f, x), FMul(x, Slope(f, x))),
                                       FMul(c, Slope(g, x)))
<1> DEFINE s == TimesX(f)
           m == PolyScale(g, c)
           df == Derivative(f)
           dg == Derivative(g)
           t == TimesX(df)
           a == PolyAdd(f, t)
           b == PolyScale(dg, c)
<1>1. s \in Coeffs /\ PolyEval(s, x) = FMul(x, PolyEval(f, x))
  BY TimesXFacts
<1>2. m \in Coeffs /\ PolyEval(m, x) = FMul(c, PolyEval(g, x))
  BY PolyScaleCoeffs, PolyEvalScale
<1>3. df \in Coeffs /\ dg \in Coeffs
  BY DerivativeCoeff
<1>4. Derivative(s) = a /\ Derivative(m) = b
  BY DerivativeOfShift, DerivativeOfMultiple
<1> HIDE DEF s, m, df, dg
<1>5. t \in Coeffs /\ PolyEval(t, x) = FMul(x, PolyEval(df, x))
  BY <1>3, TimesXFacts
<1> HIDE DEF t
<1>6. a \in Coeffs /\ PolyEval(a, x) = FAdd(PolyEval(f, x), PolyEval(t, x))
  BY <1>5, PolyAddCoeffs, PolyEvalAdd
<1>7. b \in Coeffs /\ PolyEval(b, x) = FMul(c, PolyEval(dg, x))
  BY <1>3, PolyScaleCoeffs, PolyEvalScale
<1> HIDE DEF a, b
<1> DEFINE next == PolyAdd(s, m)
<1>8. next \in Coeffs /\ PolyEval(next, x) = FAdd(PolyEval(s, x), PolyEval(m, x))
  BY <1>1, <1>2, PolyAddCoeffs, PolyEvalAdd
<1>9. Derivative(next) = PolyAdd(a, b)
  BY <1>1, <1>2, <1>4, DerivativeOfSum
<1>10. PolyEval(PolyAdd(a, b), x) = FAdd(PolyEval(a, x), PolyEval(b, x))
  BY <1>6, <1>7, PolyEvalAdd
<1>11. Slope(next, x) = FAdd(FAdd(PolyEval(f, x), FMul(x, Slope(f, x))), FMul(c, Slope(g, x)))
  <2> HIDE DEF next
  <2>1. QED
    BY <1>5, <1>6, <1>7, <1>9, <1>10 DEF Slope, df, dg
<1> HIDE DEF next
<1>12. PolyEval(next, x) = FAdd(FMul(x, PolyEval(f, x)), FMul(c, PolyEval(g, x)))
  BY <1>1, <1>2, <1>8
<1>13. QED
  BY <1>8, <1>11, <1>12 DEF next, s, m

\* Slopes are field elements, and a constant has none.
LEMMA SlopeType ==
    ASSUME NEW f \in Coeffs, NEW x \in Field
    PROVE  Slope(f, x) \in Field /\ (Len(f) <= 1 => Slope(f, x) = 0)
<1> DEFINE df == Derivative(f)
<1>1. df \in Coeffs /\ df \in Polys
  BY DerivativeCoeff
<1>2. ASSUME Len(f) <= 1 PROVE Slope(f, x) = 0
  <2>1. ASSUME NEW k \in Nat, k > 0 PROVE CoeffOf(df, k) = CoeffOf(<<>>, k)
    <3>1. CoeffOf(df, k) = FMul(k % P, CoeffOf(f, k + 1))
      BY <2>1, DerivativeCoeff
    <3>2. Len(f) \in Nat
      BY DEF Coeffs
    <3>3. CoeffOf(f, k + 1) = 0
      BY <1>2, <2>1, <3>2 DEF CoeffOf
    <3>4. k % P \in Field
      BY <2>1, ResidueInField
    <3>5. FMul(k % P, 0) = 0
      BY <3>4, FieldRing
    <3>6. CoeffOf(<<>>, k) = 0
      BY <2>1 DEF CoeffOf
    <3>7. QED
      BY <3>1, <3>3, <3>5, <3>6
  <2>2. <<>> \in Polys
    BY DEF Polys, Coeffs
  <2> HIDE DEF df
  <2>3. df = <<>>
    BY <1>1, <2>1, <2>2, SamePolys
  <2>4. QED
    BY <2>3, PolyEvalType DEF Slope, df
<1>3. QED
  BY <1>1, <1>2, PolyEvalType DEF Slope

\* Multiplying by 1 changes no coefficient.
LEMMA TimesOne ==
    ASSUME NEW f \in Polys
    PROVE  \E p : IsProduct(p, f, <<1>>) /\ p[Len(f)] = f
<1> DEFINE n == Len(f)
           one == <<1>>
<1>1. f \in Coeffs /\ n \in Nat
  BY DEF Polys, Coeffs
<1>2. one \in Coeffs /\ Len(one) = 1 /\ one[1] = 1 /\ 1 \in Field
  BY FieldRing DEF Coeffs
<1>3. \A k \in Nat : k > 0 => CoeffOf(one, k) = IF k = 1 THEN 1 ELSE 0
  BY <1>2 DEF CoeffOf
<1> HIDE DEF one
<1>4. PICK p : IsProduct(p, f, one) /\ PolyMul(f, one) = p[n]
  BY <1>1, <1>2, PolyMulDef
<1> DEFINE At(m) == \A k \in Nat : k > 0 => CoeffOf(p[m], k) = IF k <= m THEN CoeffOf(f, n - m + k) ELSE 0
           T == {m \in 0..n : At(m)}
<1>5. ASSUME NEW m \in 0..n PROVE p[m] \in Coeffs /\ p[m] \in Polys
  BY <1>1, <1>2, <1>4, PartialProducts
<1>6. 0 \in T
  <2>1. p[0] = <<>>
    BY <1>4 DEF IsProduct
  <2>2. ASSUME NEW k \in Nat, k > 0 PROVE CoeffOf(p[0], k) = IF k <= 0 THEN CoeffOf(f, n - 0 + k) ELSE 0
    BY <2>1, <2>2 DEF CoeffOf
  <2>3. At(0)
    BY <2>2
  <2> HIDE DEF At
  <2>4. QED
    BY <1>1, <2>3
<1>7. ASSUME NEW m \in 0..(n - 1), m \in T PROVE m + 1 \in T
  <2>1. m + 1 \in 1..n /\ (m + 1) - 1 = m /\ m \in 0..n /\ m + 1 \in 0..n /\ n - (m + 1) + 1 \in 1..n
    BY <1>1
  <2> DEFINE c == f[n - (m + 1) + 1]
             a == TimesX(p[m])
             b == PolyScale(one, c)
  <2>2. p[m + 1] = PolyAdd(a, b)
    BY <1>4, <2>1 DEF IsProduct
  <2>3. c \in Field /\ c = CoeffOf(f, n - m)
    BY <1>1, <2>1 DEF Coeffs, CoeffOf
  <2>4. p[m] \in Coeffs
    BY <1>5, <2>1
  <2> HIDE DEF c
  <2>5. a \in Coeffs /\ b \in Coeffs
    BY <1>2, <2>3, <2>4, TimesXFacts, PolyScaleCoeffs
  <2>6. ASSUME NEW k \in Nat, k > 0
        PROVE  CoeffOf(p[m + 1], k) = IF k <= m + 1 THEN CoeffOf(f, n - (m + 1) + k) ELSE 0
    <3>1. CoeffOf(a, k) = CoeffOf(p[m], k - 1)
      BY <2>4, <2>6, ShiftedCoeff
    <3>2. CoeffOf(b, k) = FMul(c, CoeffOf(one, k))
      BY <1>2, <2>3, <2>6, MultipleCoeff
    <3>3. CoeffOf(PolyAdd(a, b), k) = FAdd(CoeffOf(a, k), CoeffOf(b, k))
      <4> HIDE DEF a, b
      <4>1. QED
        BY <2>5, <2>6, SumCoeff
    <3>4. FMul(c, 1) = c /\ FMul(c, 0) = 0 /\ FAdd(0, c) = c
      BY <2>3, FieldRing, FieldZero
    <3> HIDE DEF a, b
    <3>5. CASE k = 1
      <4>1. CoeffOf(p[m], k - 1) = 0
        BY <3>5 DEF CoeffOf
      <4>2. CoeffOf(one, k) = 1
        BY <1>3, <3>5
      <4>3. CoeffOf(p[m + 1], k) = c
        BY <2>2, <3>1, <3>2, <3>3, <3>4, <4>1, <4>2
      <4>4. n - (m + 1) + k = n - m /\ k <= m + 1
        BY <1>1, <2>1, <3>5
      <4>5. QED
        BY <2>3, <4>3, <4>4
    <3>6. CASE k # 1
      <4>1. k - 1 \in Nat /\ k - 1 > 0 /\ (k - 1 <= m <=> k <= m + 1)
            /\ n - m + (k - 1) = n - (m + 1) + k
        BY <1>1, <2>1, <2>6, <3>6
      <4>2. CoeffOf(p[m], k - 1) = IF k - 1 <= m THEN CoeffOf(f, n - m + (k - 1)) ELSE 0
        BY <1>7, <4>1
      <4>3. CoeffOf(one, k) = 0
        BY <1>3, <2>6, <3>6
      <4>4. CoeffOf(p[m], k - 1) \in Field
        BY <2>4, <4>1, CoeffInField
      <4>5. CoeffOf(p[m + 1], k) = CoeffOf(p[m], k - 1)
        BY <2>2, <3>1, <3>2, <3>3, <3>4, <4>3, <4>4, FieldRing
      <4>6. QED
        BY <4>1, <4>2, <4>5
    <3>7. QED
      BY <3>5, <3>6
  <2>7. At(m + 1)
    BY <2>6
  <2> HIDE DEF At
  <2>8. QED
    BY <2>1, <2>7
<1>8. 0..n \subseteq T
  <2> HIDE DEF T
  <2>1. QED
    BY <1>1, <1>6, <1>7, UpToInduction
<1>9. At(n)
  <2> HIDE DEF At
  <2>1. QED
    BY <1>1, <1>8
<1>10. ASSUME NEW k \in Nat, k > 0 PROVE CoeffOf(p[n], k) = CoeffOf(f, k)
  <2>1. CoeffOf(p[n], k) = IF k <= n THEN CoeffOf(f, n - n + k) ELSE 0
    BY <1>9, <1>10
  <2>2. n - n + k = k
    BY <1>1
  <2>3. k > n => CoeffOf(f, k) = 0
    BY <1>1, <1>10 DEF CoeffOf
  <2>4. QED
    BY <1>1, <2>1, <2>2, <2>3
<1>11. p[n] \in Polys
  BY <1>1, <1>5
<1>12. p[n] = f
  BY <1>10, <1>11, SamePolys
<1>13. QED
  BY <1>4, <1>12 DEF one

\* The value of a constant.
LEMMA ConstantValue ==
    ASSUME NEW f \in Coeffs, Len(f) = 1, NEW x \in Field
    PROVE  PolyEval(f, x) = f[1]
<1>1. PICK h : IsHorner(h, f, 1, x) /\ PolyEval(f, x) = h[1]
  BY PolyEvalDef
<1>2. 1 \in 1..1 /\ 1 - 1 = 0 /\ 1 - 1 + 1 = 1
  OBVIOUS
<1>3. \A i \in 1..1 : h[i] = FAdd(FMul(h[i - 1], x), CoeffOf(f, 1 - i + 1))
  BY <1>1 DEF IsHorner
<1>4. h[1] = FAdd(FMul(h[1 - 1], x), CoeffOf(f, 1 - 1 + 1))
  BY <1>2, <1>3
<1>5. h[0] = 0
  BY <1>1 DEF IsHorner
<1>6. CoeffOf(f, 1) = f[1] /\ f[1] \in Field
  <2>1. f \in Seq(Field) /\ 1 \in 1..Len(f)
    BY DEF Coeffs
  <2>2. f[1] \in Field
    BY <2>1
  <2>3. QED
    BY <2>1, <2>2 DEF CoeffOf
<1>7. h[1] = FAdd(FMul(0, x), f[1])
  BY <1>2, <1>4, <1>5, <1>6
<1>8. FMul(0, x) = 0 /\ FAdd(0, f[1]) = f[1]
  BY <1>6, FieldZero
<1>9. QED
  BY <1>1, <1>7, <1>8

\* The derivative of a product.
LEMMA ProductRule ==
    ASSUME NEW f \in Polys, NEW g \in Coeffs, NEW x \in Field
    PROVE  Slope(PolyMul(f, g), x) =
             FAdd(FMul(Slope(f, x), PolyEval(g, x)), FMul(PolyEval(f, x), Slope(g, x)))
<1> DEFINE n == Len(f)
           one == <<1>>
           G == PolyEval(g, x)
           D == Slope(g, x)
<1>1. f \in Coeffs /\ n \in Nat
  BY DEF Polys, Coeffs
<1>2. one \in Coeffs /\ Len(one) = 1 /\ one[1] = 1 /\ 1 \in Field /\ 0 \in Field
  BY FieldRing DEF Coeffs
<1>3. PICK p : IsProduct(p, f, g) /\ PolyMul(f, g) = p[n]
  BY <1>1, PolyMulDef
<1>4. PICK s : IsProduct(s, f, one) /\ s[n] = f
  BY TimesOne
<1>5. PolyEval(one, x) = 1 /\ Slope(one, x) = 0
  <2>1. Slope(one, x) = 0
    <3> HIDE DEF one
    <3>1. Len(one) <= 1
      BY <1>2
    <3>2. QED
      BY <1>2, <3>1, SlopeType
  <2>2. PolyEval(one, x) = 1
    <3> HIDE DEF one
    <3>1. QED
      BY <1>2, ConstantValue
  <2>3. QED
    BY <2>1, <2>2
<1>6. G \in Field /\ D \in Field
  BY PolyEvalType, SlopeType
<1>7. ASSUME NEW m \in 0..n PROVE p[m] \in Coeffs /\ s[m] \in Coeffs
  BY <1>1, <1>2, <1>3, <1>4, PartialProducts
<1> DEFINE At(m) == /\ PolyEval(p[m], x) = FMul(PolyEval(s[m], x), G)
                    /\ Slope(p[m], x) = FAdd(FMul(Slope(s[m], x), G), FMul(PolyEval(s[m], x), D))
           T == {m \in 0..n : At(m)}
<1> HIDE DEF one, G, D
<1>8. 0 \in T
  <2>1. p[0] = <<>> /\ s[0] = <<>>
    BY <1>3, <1>4 DEF IsProduct
  <2>2. PolyEval(<<>>, x) = 0 /\ <<>> \in Coeffs
    BY <1>1, PolyEvalType
  <2>3. Slope(<<>>, x) = 0
    BY <2>2, SlopeType
  <2>4. FMul(0, G) = 0 /\ FMul(0, D) = 0 /\ FAdd(0, 0) = 0
    BY <1>2, <1>6, FieldZero
  <2>5. At(0)
    BY <2>1, <2>2, <2>3, <2>4
  <2> HIDE DEF At
  <2>6. QED
    BY <1>1, <2>5
<1>9. ASSUME NEW m \in 0..(n - 1), m \in T PROVE m + 1 \in T
  <2>1. m + 1 \in 1..n /\ (m + 1) - 1 = m /\ m \in 0..n /\ m + 1 \in 0..n /\ n - (m + 1) + 1 \in 1..n
    BY <1>1
  <2> DEFINE c == f[n - (m + 1) + 1]
             u == PolyEval(s[m], x)
             v == Slope(s[m], x)
             w == PolyEval(p[m], x)
             z == Slope(p[m], x)
  <2>2. p[m + 1] = PolyAdd(TimesX(p[m]), PolyScale(g, c))
    BY <1>3, <2>1 DEF IsProduct
  <2>3. s[m + 1] = PolyAdd(TimesX(s[m]), PolyScale(one, c))
    BY <1>4, <2>1 DEF IsProduct
  <2>4. c \in Field
    BY <1>1, <2>1 DEF Coeffs
  <2>5. p[m] \in Coeffs /\ s[m] \in Coeffs
    BY <1>7, <2>1
  <2>6. u \in Field /\ v \in Field
    BY <2>5, PolyEvalType, SlopeType
  <2>7. w = FMul(u, G) /\ z = FAdd(FMul(v, G), FMul(u, D))
    BY <1>9
  <2> HIDE DEF c
  <2>8. /\ PolyEval(p[m + 1], x) = FAdd(FMul(x, w), FMul(c, G))
        /\ Slope(p[m + 1], x) = FAdd(FAdd(w, FMul(x, z)), FMul(c, D))
    BY <2>2, <2>4, <2>5, SlopeOfStep DEF G, D
  <2>9. /\ PolyEval(s[m + 1], x) = FAdd(FMul(x, u), FMul(c, 1))
        /\ Slope(s[m + 1], x) = FAdd(FAdd(u, FMul(x, v)), FMul(c, 0))
    <3> DEFINE E == PolyEval(one, x)
               F == Slope(one, x)
    <3>1. /\ PolyEval(s[m + 1], x) = FAdd(FMul(x, u), FMul(c, E))
          /\ Slope(s[m + 1], x) = FAdd(FAdd(u, FMul(x, v)), FMul(c, F))
      <4> DEFINE sm == s[m]
      <4>1. one \in Coeffs /\ sm \in Coeffs
        BY <1>2, <2>5
      <4>2. s[m + 1] = PolyAdd(TimesX(sm), PolyScale(one, c))
        BY <2>3
      <4>3. u = PolyEval(sm, x) /\ v = Slope(sm, x)
        OBVIOUS
      <4> HIDE DEF sm, u, v
      <4>4. QED
        BY <2>4, <4>1, <4>2, <4>3, SlopeOfStep
    <3>2. E = 1 /\ F = 0
      BY <1>5
    <3> HIDE DEF E, F
    <3>3. QED
      BY <3>1, <3>2
  <2> HIDE DEF u, v, w, z
  <2>10. FMul(c, 1) = c /\ FMul(c, 0) = 0
    BY <2>4, FieldRing
  <2> DEFINE xu == FMul(x, u)
             xv == FMul(x, v)
  <2>11. xu \in Field /\ xv \in Field /\ FMul(x, w) = FMul(xu, G)
    BY <1>6, <2>6, <2>7, FieldRing
  <2>12. PolyEval(s[m + 1], x) = FAdd(xu, c)
    BY <2>9, <2>10
  <2>13. Slope(s[m + 1], x) = FAdd(u, xv)
    <3>1. FAdd(u, xv) \in Field
      BY <2>6, <2>11, FieldRing
    <3>2. FAdd(FAdd(u, xv), 0) = FAdd(u, xv)
      BY <3>1, FieldRing
    <3>3. QED
      BY <2>9, <2>10, <3>2
  <2>14. FMul(x, z) = FAdd(FMul(xv, G), FMul(xu, D))
    <3>1. FMul(v, G) \in Field /\ FMul(u, D) \in Field
      BY <1>6, <2>6, FieldRing
    <3>2. FMul(x, z) = FAdd(FMul(x, FMul(v, G)), FMul(x, FMul(u, D)))
      BY <2>7, <3>1, MulOfSum
    <3>3. FMul(x, FMul(v, G)) = FMul(xv, G)
      BY <1>6, <2>6, FieldRing
    <3>4. FMul(x, FMul(u, D)) = FMul(xu, D)
      BY <1>6, <2>6, FieldRing
    <3>5. QED
      BY <3>2, <3>3, <3>4
  <2> HIDE DEF xu, xv
  <2>15. PolyEval(p[m + 1], x) = FMul(FAdd(xu, c), G)
    <3>1. FMul(FAdd(xu, c), G) = FAdd(FMul(xu, G), FMul(c, G))
      BY <1>6, <2>4, <2>11, FieldRing
    <3>2. QED
      BY <2>8, <2>11, <3>1
  <2>16. Slope(p[m + 1], x) = FAdd(FMul(FAdd(u, xv), G), FMul(FAdd(xu, c), D))
    <3> DEFINE a == FMul(u, G)
               b == FMul(xv, G)
               d == FMul(xu, D)
               e == FMul(c, D)
    <3>1. a \in Field /\ b \in Field /\ d \in Field /\ e \in Field
      BY <1>6, <2>4, <2>6, <2>11, FieldRing
    <3>2. FMul(FAdd(u, xv), G) = FAdd(a, b)
      BY <1>6, <2>6, <2>11, FieldRing
    <3>3. FMul(FAdd(xu, c), D) = FAdd(d, e)
      BY <1>6, <2>4, <2>11, FieldRing
    <3>4. Slope(p[m + 1], x) = FAdd(FAdd(a, FAdd(b, d)), e)
      BY <2>7, <2>8, <2>14
    <3> HIDE DEF a, b, d, e
    <3>5. FAdd(a, FAdd(b, d)) = FAdd(FAdd(a, b), d)
      BY <3>1, FieldRing
    <3>6. FAdd(a, b) \in Field
      BY <3>1, FieldRing
    <3>7. FAdd(FAdd(FAdd(a, b), d), e) = FAdd(FAdd(a, b), FAdd(d, e))
      BY <3>1, <3>6, FieldRing
    <3>8. QED
      BY <3>2, <3>3, <3>4, <3>5, <3>7
  <2>17. At(m + 1)
    BY <2>12, <2>13, <2>15, <2>16
  <2> HIDE DEF At
  <2>18. QED
    BY <2>1, <2>17
<1>10. 0..n \subseteq T
  <2> HIDE DEF T
  <2>1. QED
    BY <1>1, <1>8, <1>9, UpToInduction
<1>11. At(n)
  <2> HIDE DEF At
  <2>1. QED
    BY <1>1, <1>10
<1>12. QED
  BY <1>3, <1>4, <1>11 DEF G, D

-----------------------------------------------------------------------------
(* Roots *)

\* The leading coefficients multiply.
LEMMA TopCoeff ==
    ASSUME NEW f \in Coeffs, NEW g \in Coeffs, f # <<>>, g # <<>>
    PROVE  CoeffOf(PolyMul(f, g), Len(f) + Len(g) - 1) = FMul(f[Len(f)], g[Len(g)])
<1> DEFINE n == Len(f)
           l == Len(g)
           c == FMul(f[n], g[l])
<1>1. n \in Nat /\ n > 0 /\ l \in Nat /\ l > 0
  BY EmptySeq DEF Coeffs
<1>2. CoeffOf(f, n) = f[n] /\ CoeffOf(g, l) = g[l]
  BY <1>1 DEF CoeffOf
<1>3. c \in Field
  <2>1. f[n] \in Field /\ g[l] \in Field
    BY <1>1 DEF Coeffs
  <2>2. QED
    BY <2>1, FieldRing
<1>4. PICK p : IsPadded(p, f, g, n) /\ PolyMul(f, g) = p[n]
  BY <1>1, PolyMulPadded
<1>5. p[0] = <<>> /\ <<>> \in Coeffs
  BY <1>4 DEF IsPadded, Coeffs
<1> DEFINE At(m) == p[m + 1] \in Coeffs /\ CoeffOf(p[m + 1], l + m) = c
           T == {m \in 0..(n - 1) : At(m)}
<1> HIDE DEF c, n, l
<1>6. 0 \in T
  <2>1. 0 \in 0..(n - 1) /\ p[0] \in Coeffs
    BY <1>1, <1>5
  <2>2. /\ p[0 + 1] \in Coeffs
        /\ \A k \in Nat : k > 0 => CoeffOf(p[0 + 1], k) =
              FAdd(CoeffOf(p[0], k - 1), FMul(CoeffOf(f, n - 0), CoeffOf(g, k)))
    BY <1>1, <1>4, <2>1, PaddedStep
  <2>3. CoeffOf(p[0 + 1], l) = FAdd(CoeffOf(p[0], l - 1), FMul(CoeffOf(f, n - 0), CoeffOf(g, l)))
    BY <1>1, <2>2
  <2>4. CoeffOf(p[0], l - 1) = 0
    BY <1>1, <1>5 DEF CoeffOf
  <2>5. n - 0 = n /\ l + 0 = l
    BY <1>1
  <2>6. CoeffOf(p[0 + 1], l + 0) = c
    BY <1>2, <1>3, <2>3, <2>4, <2>5, FieldZero DEF c, n, l
  <2> HIDE DEF At
  <2>7. At(0)
    BY <2>2, <2>6 DEF At
  <2>8. QED
    BY <1>1, <2>7
<1>7. ASSUME NEW m \in 0..((n - 1) - 1), m \in T PROVE m + 1 \in T
  <2> DEFINE m1 == m + 1
  <2>1. m1 \in 0..(n - 1) /\ p[m1] \in Coeffs /\ CoeffOf(p[m1], l + m) = c /\ m \in Nat
    BY <1>1, <1>7
  <2> HIDE DEF m1
  <2>2. /\ p[m1 + 1] \in Coeffs
        /\ \A k \in Nat : k > 0 => CoeffOf(p[m1 + 1], k) =
              FAdd(CoeffOf(p[m1], k - 1), FMul(CoeffOf(f, n - m1), CoeffOf(g, k)))
    BY <1>1, <1>4, <2>1, PaddedStep
  <2>3. l + m1 \in Nat /\ l + m1 > 0 /\ (l + m1) - 1 = l + m /\ l + m1 > l /\ n - m1 \in Int
    BY <1>1, <2>1 DEF m1
  <2>4. CoeffOf(p[m1 + 1], l + m1) =
          FAdd(CoeffOf(p[m1], l + m), FMul(CoeffOf(f, n - m1), CoeffOf(g, l + m1)))
    BY <2>2, <2>3
  <2>5. CoeffOf(g, l + m1) = 0
    BY <1>1, <2>3 DEF CoeffOf, l
  <2>6. CoeffOf(f, n - m1) \in Field
    BY <2>3, CoeffInField
  <2>7. CoeffOf(p[m1 + 1], l + m1) = c
    BY <1>3, <2>1, <2>4, <2>5, <2>6, FieldRing
  <2> HIDE DEF At
  <2>8. At(m1)
    BY <2>2, <2>7 DEF At
  <2>9. QED
    BY <2>1, <2>8 DEF m1
<1>8. 0..(n - 1) \subseteq T
  <2> HIDE DEF T
  <2>1. n - 1 \in Nat
    BY <1>1
  <2>2. QED
    BY <1>6, <1>7, <2>1, UpToInduction
<1>9. n - 1 \in T
  <2>1. n - 1 \in 0..(n - 1)
    BY <1>1
  <2> HIDE DEF T
  <2>2. QED
    BY <1>8, <2>1
<1>10. (n - 1) + 1 = n /\ l + (n - 1) = n + l - 1
  BY <1>1
<1>11. CoeffOf(p[n], n + l - 1) = c
  BY <1>9, <1>10
<1>12. QED
  BY <1>4, <1>11 DEF c, n, l

\* A step of the division cancels the leading coefficient.
LEMMA StepShortens ==
    ASSUME NEW r \in Polys, NEW g \in Polys, g # <<>>, Len(g) <= Len(r), NEW div, div.r = r
    PROVE  NextDivision(div, g).r \in Polys /\ Len(NextDivision(div, g).r) < Len(r)
<1> DEFINE term == LeadingTerm(r, g)
           product == PolyMul(term, g)
           minus == PolyScale(product, P - 1)
           next == PolyAdd(r, minus)
           a == r[Len(r)]
           b == g[Len(g)]
           n == Len(r)
<1>1. r \in Coeffs /\ g \in Coeffs
  BY DEF Polys
<1>2. Len(g) \in Nat /\ Len(g) > 0 /\ n \in Nat /\ n > 0
  BY <1>1, EmptySeq DEF Coeffs
<1>3. a \in Field /\ b \in Field /\ b # 0
  BY <1>1, <1>2 DEF Coeffs, Polys
<1>4. /\ term \in Coeffs /\ Len(term) = n - Len(g) + 1
      /\ product \in Coeffs /\ Len(product) <= n
  BY LeadingTermType
<1>5. term # <<>>
  <2>1. Len(term) # 0
    BY <1>2, <1>4
  <2>2. QED
    BY <2>1, EmptySeq
<1>6. term[Len(term)] = FMul(a, InvOf(b))
  <2>1. term = Monomial(FMul(a, InvOf(b)), n - Len(g))
    BY DEF LeadingTerm, FMul
  <2>2. n - Len(g) + 1 \in 1..(n - Len(g) + 1)
    BY <1>2
  <2> HIDE DEF term
  <2>3. term[n - Len(g) + 1] = FMul(a, InvOf(b))
    BY <2>1, <2>2 DEF Monomial
  <2>4. QED
    BY <1>4, <2>3
<1>7. CoeffOf(product, n) = a
  <2> HIDE DEF term, a, b
  <2>1. CoeffOf(product, Len(term) + Len(g) - 1) = FMul(term[Len(term)], b)
    BY <1>1, <1>4, <1>5, TopCoeff DEF b
  <2>2. Len(term) + Len(g) - 1 = n
    BY <1>2, <1>4
  <2>3. InvOf(b) \in Field /\ FMul(b, InvOf(b)) = 1
    BY <1>3, InverseInField
  <2>4. FMul(FMul(a, InvOf(b)), b) = FMul(a, FMul(InvOf(b), b))
    BY <1>3, <2>3, FieldRing
  <2>5. FMul(InvOf(b), b) = FMul(b, InvOf(b))
    BY <1>3, <2>3, FieldRing
  <2>6. FMul(a, 1) = a
    BY <1>3, FieldRing
  <2>7. QED
    BY <1>6, <2>1, <2>2, <2>3, <2>4, <2>5, <2>6
<1>8. NextDivision(div, g).r = next
  <2>1. ~(Len(div.r) < Len(g))
    BY <1>2
  <2> HIDE DEF term
  <2>2. NextDivision(div, g) = DivStep(div, g, LeadingTerm(div.r, g))
    BY <2>1 DEF NextDivision
  <2>3. LeadingTerm(div.r, g) = term
    BY DEF term
  <2>4. QED
    BY <2>2, <2>3 DEF DivStep, PolySub
<1> HIDE DEF term, product
<1>9. minus \in Coeffs /\ Len(minus) <= Len(product)
  BY <1>4, MinusOne, PolyScaleCoeffs
<1>10. CoeffOf(minus, n) = FMul(P - 1, a)
  BY <1>2, <1>4, <1>7, MinusOne, MultipleCoeff
<1> HIDE DEF minus
<1>11. Len(minus) \in Nat /\ Len(product) \in Nat
  BY <1>4, <1>9 DEF Coeffs
<1>12. LongerLen(r, minus) = n
  BY <1>2, <1>4, <1>9, <1>11 DEF LongerLen
<1>13. next \in Polys /\ next \in Coeffs /\ Len(next) <= n
  BY <1>1, <1>9, <1>12, PolyAddCoeffs
<1>14. CoeffOf(next, n) = 0
  <2>1. CoeffOf(next, n) = FAdd(CoeffOf(r, n), CoeffOf(minus, n))
    BY <1>1, <1>2, <1>9, SumCoeff
  <2>2. CoeffOf(r, n) = a
    BY <1>2 DEF CoeffOf
  <2>3. FAdd(a, FMul(P - 1, a)) = 0
    BY <1>3, MinusOne
  <2>4. QED
    BY <1>10, <2>1, <2>2, <2>3
<1> HIDE DEF next
<1>15. Len(next) # n
  <2> SUFFICES ASSUME Len(next) = n PROVE FALSE
    OBVIOUS
  <2>1. next # <<>>
    BY <1>2, EmptySeq
  <2>2. next[n] # 0
    BY <1>13, <2>1 DEF Polys
  <2>3. CoeffOf(next, n) = next[n]
    BY <1>2 DEF CoeffOf
  <2>4. QED
    BY <1>14, <2>2, <2>3
<1>16. Len(next) \in Nat
  BY <1>13 DEF Coeffs
<1>17. QED
  BY <1>2, <1>8, <1>13, <1>15, <1>16 DEF next

\* The remainder is shorter than the divisor.
LEMMA RemainderIsShort ==
    ASSUME NEW f \in Polys, NEW g \in Polys, g # <<>>
    PROVE  Len(PolyDivRem(f, g).r) < Len(g)
<1> DEFINE n == Len(f)
<1>1. n \in Nat /\ f \in Coeffs /\ g \in Coeffs /\ Len(g) \in Nat /\ Len(g) > 0
  BY EmptySeq DEF Polys, Coeffs
<1>2. PICK p : IsDivision(p, f, g) /\ PolyDivRem(f, g) = p[n]
  BY <1>1, PolyDivRemDef
<1>3. p[0] = [q |-> <<>>, r |-> f] /\ \A i \in 1..n : p[i] = NextDivision(p[i - 1], g)
  BY <1>2 DEF IsDivision
<1> HIDE DEF n
<1> DEFINE At(m) == p[m].r \in Polys /\ (Len(p[m].r) < Len(g) \/ Len(p[m].r) <= n - m)
           T == {m \in 0..n : At(m)}
<1>4. 0 \in T
  <2>1. p[0].r = f /\ n - 0 = n /\ n <= n
    BY <1>1, <1>3
  <2>2. At(0)
    BY <2>1 DEF n
  <2> HIDE DEF At
  <2>3. QED
    BY <1>1, <2>2
<1>5. ASSUME NEW m \in 0..(n - 1), m \in T PROVE m + 1 \in T
  <2> DEFINE r == p[m].r
  <2>1. m + 1 \in 1..n /\ (m + 1) - 1 = m /\ m + 1 \in 0..n
    BY <1>1
  <2>2. p[m + 1] = NextDivision(p[m], g)
    BY <1>3, <2>1
  <2>3. r \in Polys /\ (Len(r) < Len(g) \/ Len(r) <= n - m)
    BY <1>5
  <2>4. Len(r) \in Nat
    BY <2>3 DEF Polys, Coeffs
  <2>5. CASE Len(r) < Len(g)
    <3>1. p[m + 1] = p[m]
      BY <2>2, <2>5 DEF NextDivision
    <3>2. QED
      BY <2>1, <2>3, <2>5, <3>1
  <2>6. CASE ~(Len(r) < Len(g))
    <3>1. Len(g) <= Len(r)
      BY <1>1, <2>4, <2>6
    <3>2. NextDivision(p[m], g).r \in Polys /\ Len(NextDivision(p[m], g).r) < Len(r)
      BY <2>3, <3>1, StepShortens
    <3>3. Len(NextDivision(p[m], g).r) \in Nat
      BY <3>2 DEF Polys, Coeffs
    <3>4. Len(p[m + 1].r) <= n - (m + 1)
      BY <1>1, <2>2, <2>3, <2>4, <2>6, <3>2, <3>3
    <3>5. QED
      BY <2>1, <2>2, <3>2, <3>4
  <2>7. QED
    BY <2>5, <2>6
<1>6. 0..n \subseteq T
  <2> HIDE DEF T
  <2>1. QED
    BY <1>1, <1>4, <1>5, UpToInduction
<1>7. p[n].r \in Polys /\ (Len(p[n].r) < Len(g) \/ Len(p[n].r) <= n - n)
  BY <1>1, <1>6
<1>8. Len(p[n].r) \in Nat
  BY <1>7 DEF Polys, Coeffs
<1>9. QED
  BY <1>1, <1>2, <1>7, <1>8

\* X - x at a point y: zero at x alone, of slope 1.
LEMMA LinearFactorAt ==
    ASSUME NEW x \in Field, NEW y \in Field
    PROVE  /\ LinearFactor(x) \in Coeffs
           /\ PolyEval(LinearFactor(x), y) \in Field
           /\ PolyEval(LinearFactor(x), y) = 0 => y = x
           /\ Slope(LinearFactor(x), y) = 1
<1> DEFINE c == (P - x) % P
           f == <<c, 1>>
<1>1. P \in Nat /\ P > 1 /\ x \in Int /\ y \in Int /\ 0 <= x /\ x < P /\ 0 <= y /\ y < P
  BY OrderAssumption DEF Field
<1>2. c \in Field
  <2>1. P - x \in Int
    BY <1>1
  <2>2. QED
    BY <2>1, ResidueInField
<1>3. LinearFactor(x) = f
  BY DEF LinearFactor
<1> HIDE DEF c
<1>4. 1 \in Field
  BY FieldRing
<1>5. f \in Coeffs /\ Len(f) = 2 /\ f[1] = c /\ f[2] = 1
  BY <1>2, <1>4 DEF Coeffs
<1>6. CoeffOf(f, 1) = c /\ CoeffOf(f, 2) = 1 /\ \A k \in Nat : k > 2 => CoeffOf(f, k) = 0
  BY <1>5 DEF CoeffOf
<1> HIDE DEF f
<1>7. PICK h : IsHorner(h, f, 2, y) /\ PolyEval(f, y) = h[2]
  BY <1>5, PolyEvalDef
<1>8. /\ h[0] = 0
      /\ h[1] = FAdd(FMul(h[0], y), CoeffOf(f, 2))
      /\ h[2] = FAdd(FMul(h[1], y), CoeffOf(f, 1))
  <2>1. /\ 1 \in 1..2 /\ 2 \in 1..2 /\ 1 - 1 = 0 /\ 2 - 1 = 1
        /\ 2 - 1 + 1 = 2 /\ 2 - 2 + 1 = 1
    OBVIOUS
  <2>2. \A i \in 1..2 : h[i] = FAdd(FMul(h[i - 1], y), CoeffOf(f, 2 - i + 1))
    BY <1>7 DEF IsHorner
  <2>3. h[1] = FAdd(FMul(h[1 - 1], y), CoeffOf(f, 2 - 1 + 1))
    BY <2>1, <2>2
  <2>4. h[2] = FAdd(FMul(h[2 - 1], y), CoeffOf(f, 2 - 2 + 1))
    BY <2>1, <2>2
  <2>5. QED
    BY <1>7, <2>1, <2>3, <2>4 DEF IsHorner
<1>9. h[1] = 1
  BY <1>4, <1>6, <1>8, FieldZero
<1>10. FMul(1, y) = y
  <2>1. FMul(1, y) = FMul(y, 1)
    BY <1>4, FieldRing
  <2>2. QED
    BY <2>1, FieldRing
<1>11. h[2] = FAdd(y, c)
  BY <1>6, <1>8, <1>9, <1>10
<1>12. ASSUME FAdd(y, c) = 0 PROVE y = x
  <2> DEFINE d == P - x
  <2>1. d \in Int /\ y \in Int /\ d + y = (y - x) + 1 * P
    BY <1>1
  <2>2. c = d % P
    BY DEF c
  <2> HIDE DEF d
  <2>3. ((d % P) + y) % P = (d + y) % P
    BY <2>1, ReduceFirst
  <2>4. FAdd(c, y) = FAdd(y, c)
    BY <1>2, FieldRing
  <2>5. (d + y) % P = 0
    BY <1>12, <2>2, <2>3, <2>4 DEF FAdd
  <2> DEFINE e == d + y
             b == y - x
  <2>6. e \in Int /\ b \in Int /\ e = b + 1 * P /\ 1 \in Int
    BY <1>1, <2>1
  <2> HIDE DEF e, b
  <2>7. e % P = b % P
    BY <2>6, SameResidue
  <2>8. (y - x) % P = 0
    BY <2>5, <2>7 DEF e, b
  <2>9. x % P = x
    BY <1>1
  <2>10. y = x % P
    BY <1>1, <2>8, ResidueOfDifference
  <2>11. QED
    BY <2>9, <2>10
<1>13. Slope(f, y) = 1
  <2> DEFINE one == <<1>>
             d == Derivative(f)
  <2>1. one \in Coeffs /\ Len(one) = 1 /\ one[1] = 1 /\ one # <<>>
    BY <1>4 DEF Coeffs
  <2>2. one \in Polys
    BY <2>1 DEF Polys
  <2>3. \A k \in Nat : k > 0 => CoeffOf(one, k) = IF k = 1 THEN 1 ELSE 0
    BY <2>1 DEF CoeffOf
  <2> HIDE DEF one
  <2>4. d \in Polys /\ \A k \in Nat : k > 0 => CoeffOf(d, k) = FMul(k % P, CoeffOf(f, k + 1))
    BY <1>5, DerivativeCoeff
  <2> HIDE DEF d
  <2>5. ASSUME NEW k \in Nat, k > 0 PROVE CoeffOf(d, k) = CoeffOf(one, k)
    <3>1. k % P \in Field
      BY <2>5, ResidueInField
    <3>2. CASE k = 1
      <4>1. 1 % P = 1 /\ k + 1 = 2
        BY <1>1, <3>2
      <4>2. FMul(1, 1) = 1
        BY <1>4, FieldRing
      <4>3. QED
        BY <1>6, <2>3, <2>4, <2>5, <3>2, <4>1, <4>2
    <3>3. CASE k # 1
      <4>1. k + 1 \in Nat /\ k + 1 > 2
        BY <2>5, <3>3
      <4>2. CoeffOf(f, k + 1) = 0
        BY <1>6, <4>1
      <4>3. FMul(k % P, 0) = 0
        BY <3>1, FieldRing
      <4>4. QED
        BY <2>3, <2>4, <2>5, <3>3, <4>2, <4>3
    <3>4. QED
      BY <3>2, <3>3
  <2>6. d = one
    BY <2>2, <2>4, <2>5, SamePolys
  <2>7. PolyEval(one, y) = 1
    BY <2>1, ConstantValue
  <2>8. QED
    BY <2>6, <2>7 DEF Slope, d
<1>14. FAdd(y, c) \in Field
  BY <1>2, FieldRing
<1>15. QED
  BY <1>3, <1>5, <1>7, <1>11, <1>12, <1>13, <1>14

\* The product of nothing.
LEMMA EmptyProduct ==
    ASSUME NEW g \in Coeffs PROVE PolyMul(<<>>, g) = <<>>
<1>1. <<>> \in Coeffs /\ Len(<<>>) = 0
  BY DEF Coeffs
<1>2. PICK p : IsProduct(p, <<>>, g) /\ PolyMul(<<>>, g) = p[0]
  BY <1>1, PolyMulDef
<1>3. QED
  BY <1>2 DEF IsProduct

\* The quotient by the linear factor of x.
Without(f, x) == PolyDivRem(f, LinearFactor(x)).q

\* A root divides.
LEMMA RootDivides ==
    ASSUME NEW f \in Polys, f # <<>>, NEW x \in Field, PolyEval(f, x) = 0
    PROVE  LET q == Without(f, x)
           IN /\ q \in Polys /\ q \in Coeffs /\ q # <<>> /\ Len(q) = Len(f) - 1
              /\ PolyMul(q, LinearFactor(x)) = f
<1> DEFINE g == LinearFactor(x)
           div == PolyDivRem(f, g)
           q == div.q
           r == div.r
<1>1. g \in Polys /\ g # <<>> /\ Len(g) = 2 /\ PolyEval(g, x) = 0 /\ g \in Coeffs
  BY LinearFactorRoot DEF Polys
<1>2. f \in Coeffs
  BY DEF Polys
<1> HIDE DEF g
<1>3. q \in Polys /\ r \in Polys /\ q \in Coeffs /\ r \in Coeffs
  BY <1>1, DivisionIsExact DEF IsQuotient, Polys
<1>4. Len(r) < 2 /\ Len(r) \in Nat
  BY <1>1, <1>3, RemainderIsShort DEF Coeffs
<1>5. PolyEval(f, x) = FAdd(FMul(PolyEval(q, x), PolyEval(g, x)), PolyEval(r, x))
  BY <1>1, <1>2, DivisionDivides DEF Divides
<1> HIDE DEF div
<1>6. PolyEval(r, x) = 0
  <2>1. PolyEval(q, x) \in Field /\ PolyEval(r, x) \in Field
    BY <1>3, PolyEvalType
  <2>2. FMul(PolyEval(q, x), 0) = 0
    BY <2>1, FieldRing
  <2>3. FAdd(0, PolyEval(r, x)) = PolyEval(r, x)
    BY <2>1, FieldZero
  <2>4. QED
    BY <1>1, <1>5, <2>2, <2>3
<1>7. r = <<>>
  <2> SUFFICES ASSUME r # <<>> PROVE FALSE
    OBVIOUS
  <2>1. Len(r) # 0
    BY <1>3, EmptySeq DEF Coeffs
  <2>2. Len(r) = 1
    <3> DEFINE l == Len(r)
    <3>1. l < 2 /\ l \in Nat /\ l # 0
      BY <1>4, <2>1
    <3> HIDE DEF l
    <3>2. l = 1
      BY ONLY <3>1
    <3>3. QED
      BY <3>2 DEF l
  <2>3. r[1] # 0
    BY <1>3, <2>2 DEF Polys
  <2>4. PolyEval(r, x) = r[1]
    BY <1>3, <2>2, ConstantValue
  <2>5. QED
    BY <1>6, <2>3, <2>4
<1>8. PolyMul(q, g) = f
  BY <1>1, <1>7, QuotientTimesDivisor DEF div
<1>9. q # <<>>
  BY <1>1, <1>8, EmptyProduct
<1>10. Len(f) = Len(q) + 2 - 1
  BY <1>1, <1>3, <1>8, <1>9, PolyMulNonzero
<1>11. Len(q) \in Nat
  BY <1>3 DEF Coeffs
<1>12. Len(q) = Len(f) - 1
  BY <1>10, <1>11
<1>13. Without(f, x) = q
  BY DEF Without, div, g
<1>14. QED
  BY <1>3, <1>8, <1>9, <1>12, <1>13 DEF g

\* A root other than the one divided by stays a root.
LEMMA OtherRoots ==
    ASSUME NEW f \in Polys, f # <<>>, NEW x \in Field, PolyEval(f, x) = 0,
           NEW y \in Field, y # x, PolyEval(f, y) = 0
    PROVE  PolyEval(Without(f, x), y) = 0
<1> DEFINE q == Without(f, x)
           g == LinearFactor(x)
           a == PolyEval(q, y)
           b == PolyEval(g, y)
<1>1. q \in Coeffs /\ PolyMul(q, g) = f
  BY RootDivides
<1>2. g \in Coeffs /\ b \in Field /\ b # 0
  BY LinearFactorAt
<1> HIDE DEF q, g
<1>3. a \in Field /\ FMul(a, b) = 0
  BY <1>1, <1>2, PolyEvalType, PolyEvalMul
<1> HIDE DEF a, b
<1>4. a = 0
  BY <1>2, <1>3, NoZeroDivisors DEF FMul
<1>5. QED
  BY <1>4 DEF a, q

\* A polynomial with as many different roots as it has coefficients is zero.
LEMMA RootCount ==
    ASSUME NEW xs \in Coeffs, IsInjective(xs), NEW f \in Polys, Len(f) <= Len(xs),
           \A i \in 1..Len(xs) : PolyEval(f, xs[i]) = 0
    PROVE  f = <<>>
<1> DEFINE n == Len(xs)
           Zero(m) == \A h \in Polys : Len(h) <= m /\ (\A i \in 1..m : PolyEval(h, xs[i]) = 0) => h = <<>>
           T == {m \in 0..n : Zero(m)}
<1>1. n \in Nat /\ \A i \in 1..n : xs[i] \in Field
  BY DEF Coeffs
<1>2. \A i, j \in 1..n : xs[i] = xs[j] => i = j
  <2>1. DOMAIN xs = 1..n
    BY DEF Coeffs
  <2>2. QED
    BY <2>1 DEF IsInjective
<1> HIDE DEF n
<1>3. 0 \in T
  <2>1. ASSUME NEW h \in Polys, Len(h) <= 0 PROVE h = <<>>
    <3>1. Len(h) \in Nat /\ h \in Seq(Field)
      BY DEF Polys, Coeffs
    <3>2. Len(h) = 0
      BY <2>1, <3>1
    <3>3. QED
      BY <3>1, <3>2, EmptySeq
  <2>2. Zero(0)
    BY <2>1
  <2> HIDE DEF Zero
  <2>3. QED
    BY <1>1, <2>2
<1>4. ASSUME NEW m \in 0..(n - 1), m \in T PROVE m + 1 \in T
  <2>1. m + 1 \in 1..n /\ m + 1 \in 0..n /\ m \in Nat /\ m + 1 \in 1..(m + 1) /\ \A i \in 1..m : i \in 1..n /\ i # m + 1 /\ i \in 1..(m + 1)
    BY <1>1
  <2>2. ASSUME NEW h \in Polys, Len(h) <= m + 1, \A i \in 1..(m + 1) : PolyEval(h, xs[i]) = 0, h # <<>>
        PROVE  FALSE
    <3> DEFINE x == xs[m + 1]
               q == Without(h, x)
    <3>1. x \in Field /\ PolyEval(h, x) = 0
      BY <1>1, <2>1, <2>2
    <3>2. q \in Polys /\ q # <<>> /\ Len(q) = Len(h) - 1
      BY <2>2, <3>1, RootDivides
    <3>3. Len(h) \in Nat
      BY DEF Polys, Coeffs
    <3>4. Len(q) <= m
      BY <2>1, <2>2, <3>2, <3>3
    <3>5. ASSUME NEW i \in 1..m PROVE PolyEval(q, xs[i]) = 0
      <4> DEFINE y == xs[i]
      <4>1. y \in Field /\ y # x /\ PolyEval(h, y) = 0
        BY <1>1, <1>2, <2>1, <2>2
      <4> HIDE DEF x, y
      <4>2. PolyEval(Without(h, x), y) = 0
        BY <2>2, <3>1, <4>1, OtherRoots
      <4>3. QED
        BY <4>2 DEF y
    <3> HIDE DEF q, x
    <3>6. q = <<>>
      BY <1>4, <3>2, <3>4, <3>5
    <3>7. QED
      BY <3>2, <3>6
  <2>3. Zero(m + 1)
    BY <2>2
  <2> HIDE DEF Zero
  <2>4. QED
    BY <2>1, <2>3
<1>5. 0..n \subseteq T
  <2> HIDE DEF T
  <2>1. QED
    BY <1>1, <1>3, <1>4, UpToInduction
<1>6. Zero(n)
  BY <1>1, <1>5
<1>7. QED
  BY <1>6 DEF n

-----------------------------------------------------------------------------
(* Interpolation at distinct points *)

\* A polynomial that is zero at different points is a multiple of their product.
LEMMA VanishingDivides ==
    ASSUME NEW xs \in Coeffs, IsInjective(xs), NEW f \in Polys,
           \A i \in 1..Len(xs) : PolyEval(f, xs[i]) = 0
    PROVE  DividesExactly(f, ProductFromRoots(xs))
<1> DEFINE z == ProductFromRoots(xs)
           div == PolyDivRem(f, z)
           q == div.q
           r == div.r
<1>1. Len(xs) \in Nat /\ f \in Coeffs /\ \A i \in 1..Len(xs) : xs[i] \in Field
  BY DEF Polys, Coeffs
<1>2. /\ z \in Polys /\ z # <<>> /\ z \in Coeffs /\ Len(z) = Len(xs) + 1
      /\ \A i \in 1..Len(xs) : PolyEval(z, xs[i]) = 0
  BY ProductVanishes DEF Polys
<1> HIDE DEF z
<1>3. q \in Coeffs /\ r \in Polys /\ r \in Coeffs
  BY <1>2, DivisionIsExact DEF IsQuotient, Polys
<1>4. \A x \in Field : PolyEval(f, x) = FAdd(FMul(PolyEval(q, x), PolyEval(z, x)), PolyEval(r, x))
  BY <1>1, <1>2, DivisionDivides DEF Divides
<1>5. Len(r) <= Len(xs)
  <2>1. Len(r) < Len(z) /\ Len(r) \in Nat
    BY <1>2, <1>3, RemainderIsShort DEF Coeffs
  <2> DEFINE l == Len(r)
             n == Len(xs)
  <2>2. l < n + 1 /\ l \in Nat /\ n \in Nat
    BY <1>1, <1>2, <2>1
  <2> HIDE DEF l, n
  <2>3. l <= n
    BY ONLY <2>2
  <2>4. QED
    BY <2>3 DEF l, n
<1> HIDE DEF div
<1>6. ASSUME NEW i \in 1..Len(xs) PROVE PolyEval(r, xs[i]) = 0
  <2> DEFINE a == PolyEval(q, xs[i])
             b == PolyEval(r, xs[i])
  <2>1. xs[i] \in Field /\ PolyEval(z, xs[i]) = 0 /\ PolyEval(f, xs[i]) = 0
    BY <1>1, <1>2
  <2>2. a \in Field /\ b \in Field
    BY <1>3, <2>1, PolyEvalType
  <2>3. 0 = FAdd(FMul(a, 0), b)
    BY <1>4, <2>1
  <2> HIDE DEF a, b
  <2>4. FMul(a, 0) = 0 /\ FAdd(0, b) = b
    BY <2>2, FieldRing, FieldZero
  <2>5. QED
    BY <2>3, <2>4 DEF b
<1> HIDE DEF r
<1>7. r = <<>>
  BY <1>3, <1>5, <1>6, RootCount
<1>8. QED
  BY <1>7 DEF DividesExactly, r, div, z

\* The product of the points without one of them, at that point, is the
\* denominator of the point.
LEMMA DenominatorIsRest ==
    ASSUME NEW xs \in Coeffs, xs # <<>>, NEW j \in 1..Len(xs)
    PROVE  LET z == ProductFromRoots(xs)
           IN /\ Denominators(xs)[j] = Slope(z, xs[j])
              /\ Denominators(xs)[j] = PolyEval(Without(z, xs[j]), xs[j])
<1> DEFINE z == ProductFromRoots(xs)
           x == xs[j]
           q == Without(z, x)
           l == LinearFactor(x)
<1>1. z \in Polys /\ z \in Coeffs /\ z # <<>> /\ PolyEval(z, x) = 0 /\ x \in Field
  BY ProductVanishes DEF Polys, Coeffs
<1>2. Denominators(xs)[j] = Slope(z, x)
  <2>1. Derivative(z) \in Coeffs
    BY <1>1, DerivativeCoeff
  <2>2. Denominators(xs) = [i \in DOMAIN xs |-> PolyEval(Derivative(z), xs[i])]
    BY <2>1, EvaluationIsPointwise DEF Denominators
  <2>3. j \in DOMAIN xs
    BY DEF Coeffs
  <2>4. QED
    BY <2>2, <2>3 DEF Slope
<1> HIDE DEF z, x
<1>3. q \in Polys /\ q \in Coeffs /\ PolyMul(q, l) = z
  BY <1>1, RootDivides
<1>4. l \in Coeffs /\ PolyEval(l, x) = 0 /\ Slope(l, x) = 1
  BY <1>1, LinearFactorRoot, LinearFactorAt
<1> HIDE DEF q, l
<1>5. Slope(z, x) = FAdd(FMul(Slope(q, x), PolyEval(l, x)), FMul(PolyEval(q, x), Slope(l, x)))
  BY <1>1, <1>3, <1>4, ProductRule
<1>6. Slope(q, x) \in Field /\ PolyEval(q, x) \in Field
  BY <1>1, <1>3, SlopeType, PolyEvalType
<1>7. FMul(Slope(q, x), 0) = 0 /\ FMul(PolyEval(q, x), 1) = PolyEval(q, x)
  BY <1>6, FieldRing
<1>8. FAdd(0, PolyEval(q, x)) = PolyEval(q, x)
  BY <1>6, FieldZero
<1>9. Slope(z, x) = PolyEval(q, x)
  BY <1>4, <1>5, <1>7, <1>8
<1>10. QED
  BY <1>2, <1>9 DEF z, x, q

\* Two roots in one subtree make a double root.
LEMMA DoubleRoot ==
    ASSUME NEW xs \in Coeffs, NEW lo \in 1..Len(xs), NEW hi \in 1..Len(xs),
           NEW i \in lo..hi, NEW j \in lo..hi, i < j, xs[i] = xs[j]
    PROVE  Slope(SubproductTree(xs)[<<lo, hi>>], xs[i]) = 0
<1> DEFINE n == Len(xs)
           tree == SubproductTree(xs)
           x == xs[i]
           Good(a, b) == i \in a..b /\ j \in a..b => Slope(tree[<<a, b>>], x) = 0
           T == {m \in 0..n : \A a, b \in 1..n : a <= b /\ b - a <= m => Good(a, b)}
<1>1. n \in Nat /\ \A k \in 1..n : xs[k] \in Field
  BY DEF Coeffs
<1>2. \A a, b \in 1..n : tree[<<a, b>>] = NodeOver(tree, xs, a, b)
  BY <1>1, SubproductTreeDef
<1>3. \A a, b \in 1..n : a <= b =>
         /\ tree[<<a, b>>] \in Polys /\ tree[<<a, b>>] \in Coeffs
         /\ \A k \in a..b : PolyEval(tree[<<a, b>>], xs[k]) = 0
  BY TreeRoots DEF Polys
<1>x. x \in Field /\ x = xs[j] /\ i \in 1..n /\ j \in 1..n
  BY <1>1
<1> HIDE DEF tree, n, x
<1>4. ASSUME NEW a \in 1..n, NEW b \in 1..n, a < b,
             Good(a, Middle(a, b)), Good(Middle(a, b) + 1, b)
      PROVE  Good(a, b)
  <2> DEFINE c == Middle(a, b)
             f == tree[<<a, c>>]
             g == tree[<<c + 1, b>>]
             F == PolyEval(f, x)
             G == PolyEval(g, x)
             df == Slope(f, x)
             dg == Slope(g, x)
  <2>1. c \in a..(b - 1)
    BY <1>1, <1>4, MiddleInside
  <2>2. tree[<<a, b>>] = PolyMul(f, g)
    BY <1>1, <1>2, <1>4 DEF NodeOver
  <2>a. Good(a, c) /\ Good(c + 1, b)
    BY <1>4
  <2> HIDE DEF c
  <2>3. c \in 1..n /\ c + 1 \in 1..n /\ a <= c /\ c + 1 <= b
    BY <1>1, <2>1
  <2>4. /\ f \in Polys /\ f \in Coeffs /\ g \in Coeffs
        /\ \A k \in a..c : PolyEval(f, xs[k]) = 0
        /\ \A k \in (c + 1)..b : PolyEval(g, xs[k]) = 0
    BY <1>3, <2>3
  <2>5. i \in a..c /\ j \in a..c => df = 0
    BY <2>a
  <2>6. i \in (c + 1)..b /\ j \in (c + 1)..b => dg = 0
    BY <2>a
  <2> HIDE DEF f, g
  <2>7. F \in Field /\ G \in Field /\ df \in Field /\ dg \in Field
    BY <1>x, <2>4, PolyEvalType, SlopeType
  <2>8. Slope(PolyMul(f, g), x) = FAdd(FMul(df, G), FMul(F, dg))
    BY <1>x, <2>4, ProductRule
  <2>9. i \in a..c \/ j \in a..c => F = 0
    BY <1>x, <2>4 DEF x
  <2>10. i \in (c + 1)..b \/ j \in (c + 1)..b => G = 0
    BY <1>x, <2>4 DEF x
  <2> HIDE DEF F, G, df, dg
  <2>11. FMul(df, 0) = 0 /\ FMul(F, 0) = 0 /\ FAdd(0, 0) = 0
    BY <2>7, FieldRing
  <2>12. FMul(0, G) = 0 /\ FMul(0, dg) = 0
    BY <2>7, FieldZero
  <2>13. ASSUME i \in a..b, j \in a..b
         PROVE  FAdd(FMul(df, G), FMul(F, dg)) = 0
    <3>1. i \in a..c \/ i \in (c + 1)..b
      BY <1>1, <2>1, <2>13
    <3>2. j \in a..c \/ j \in (c + 1)..b
      BY <1>1, <2>1, <2>13
    <3>3. QED
      BY <2>5, <2>6, <2>9, <2>10, <2>11, <2>12, <3>1, <3>2
  <2>14. QED
    BY <2>2, <2>8, <2>13
<1>5. ASSUME NEW a \in 1..n PROVE Good(a, a)
  BY <1>1, <1>x
<1> HIDE DEF Good
<1>6. 0 \in T
  <2>1. \A a, b \in 1..n : a <= b /\ b - a <= 0 => a = b
    BY <1>1
  <2>2. QED
    BY <1>1, <1>5, <2>1
<1>7. ASSUME NEW m \in 0..(n - 1), m \in T PROVE m + 1 \in T
  <2>1. ASSUME NEW a \in 1..n, NEW b \in 1..n, a <= b, b - a <= m + 1 PROVE Good(a, b)
    <3> DEFINE c == Middle(a, b)
    <3>1. CASE a = b
      BY <1>5, <3>1
    <3>2. CASE a < b
      <4>1. c \in a..(b - 1)
        <5>1. a \in Nat /\ b \in Nat
          BY <1>1
        <5>2. QED
          BY <3>2, <5>1, MiddleInside
      <4> HIDE DEF c
      <4>2. /\ c \in 1..n /\ c + 1 \in 1..n /\ a <= c /\ c + 1 <= b
            /\ c - a <= m /\ b - (c + 1) <= m
        BY <1>1, <2>1, <4>1
      <4>3. Good(a, c) /\ Good(c + 1, b)
        BY <1>7, <4>2
      <4>4. QED
        BY <1>4, <3>2, <4>3 DEF c
    <3>3. QED
      BY <1>1, <2>1, <3>1, <3>2
  <2>2. m + 1 \in 0..n
    BY <1>1
  <2>3. QED
    BY <2>1, <2>2
<1>8. 0..n \subseteq T
  <2> HIDE DEF T
  <2>1. QED
    BY <1>1, <1>6, <1>7, UpToInduction
<1>9. Good(lo, hi)
  <2>1. n \in T /\ lo \in 1..n /\ hi \in 1..n /\ hi - lo <= n /\ lo <= hi
    BY <1>1, <1>8 DEF n
  <2>2. QED
    BY <2>1
<1>10. QED
  BY <1>9 DEF Good, tree, x

\* The denominators of repeated points, and of no others, vanish: the check of
\* QueryContext::new is the check that the points differ.
LEMMA DefinedIsDistinct ==
    ASSUME NEW xs \in Coeffs
    PROVE  LagrangeDefined(xs) = IsInjective(xs)
<1> DEFINE n == Len(xs)
           z == ProductFromRoots(xs)
<1>1. n \in Nat /\ DOMAIN xs = 1..n /\ \A i \in 1..n : xs[i] \in Field
  BY DEF Coeffs
<1>2. /\ z \in Polys /\ z # <<>> /\ Len(z) = n + 1
      /\ \A i \in 1..n : PolyEval(z, xs[i]) = 0
  BY ProductVanishes
<1>3. CASE xs = <<>>
  <2>1. LagrangeDefined(xs)
    BY <1>3 DEF LagrangeDefined
  <2>2. IsInjective(xs)
    BY <1>3 DEF IsInjective
  <2>3. LagrangeDefined(xs) \in BOOLEAN /\ IsInjective(xs) \in BOOLEAN
    BY DEF LagrangeDefined, IsInjective
  <2>4. QED
    BY <2>1, <2>2, <2>3
<1>4. CASE xs # <<>>
  <2>1. ASSUME IsInjective(xs), NEW j \in 1..n PROVE Denominators(xs)[j] # 0
    <3> SUFFICES ASSUME Denominators(xs)[j] = 0 PROVE FALSE
      OBVIOUS
    <3> DEFINE x == xs[j]
               q == Without(z, x)
    <3>1. x \in Field /\ PolyEval(z, x) = 0
      BY <1>1, <1>2
    <3>2. q \in Polys /\ q # <<>> /\ Len(q) = Len(z) - 1
      BY <1>2, <3>1, RootDivides
    <3>3. PolyEval(q, x) = 0
      BY <1>4, DenominatorIsRest
    <3>4. Len(q) <= n
      BY <1>1, <1>2, <3>2
    <3>5. ASSUME NEW i \in 1..n PROVE PolyEval(q, xs[i]) = 0
      <4>1. CASE xs[i] = x
        BY <3>3, <4>1
      <4>2. CASE xs[i] # x
        <5> DEFINE y == xs[i]
        <5>1. y \in Field /\ y # x /\ PolyEval(z, y) = 0
          BY <1>1, <1>2, <4>2
        <5> HIDE DEF x, y, z
        <5>2. PolyEval(Without(z, x), y) = 0
          BY <1>2, <3>1, <5>1, OtherRoots
        <5>3. QED
          BY <5>2 DEF y
      <4>3. QED
        BY <4>1, <4>2
    <3> HIDE DEF q
    <3>6. q = <<>>
      BY <2>1, <3>2, <3>4, <3>5, RootCount
    <3>7. QED
      BY <3>2, <3>6
  <2>2. ASSUME NEW i \in 1..n, NEW j \in 1..n, i < j, xs[i] = xs[j] PROVE Denominators(xs)[i] = 0
    <3>1. z = SubproductTree(xs)[<<1, n>>]
      BY <1>4 DEF ProductFromRoots
    <3>2. 1 \in 1..n /\ n \in 1..n
      BY <1>1
    <3>3. Slope(SubproductTree(xs)[<<1, n>>], xs[i]) = 0
      BY <2>2, <3>2, DoubleRoot
    <3>4. QED
      BY <1>4, <3>1, <3>3, DenominatorIsRest
  <2>3. IsInjective(xs) => LagrangeDefined(xs)
    BY <1>1, <2>1 DEF LagrangeDefined
  <2>4. ASSUME LagrangeDefined(xs), NEW i \in 1..n, NEW j \in 1..n, xs[i] = xs[j] PROVE i = j
    <3>1. Denominators(xs)[i] # 0 /\ Denominators(xs)[j] # 0
      BY <1>1, <1>4, <2>4 DEF LagrangeDefined
    <3>2. ~(i < j) /\ ~(j < i)
      BY <2>2, <2>4, <3>1
    <3>3. QED
      BY <1>1, <3>2
  <2>5. LagrangeDefined(xs) => IsInjective(xs)
    BY <1>1, <2>4 DEF IsInjective
  <2>6. LagrangeDefined(xs) \in BOOLEAN /\ IsInjective(xs) \in BOOLEAN
    BY DEF LagrangeDefined, IsInjective
  <2>7. QED
    BY <2>3, <2>5, <2>6
<1>5. QED
  BY <1>3, <1>4

\* The polynomials of the Lagrange basis are 1 at their own point and 0 at the
\* others.
LEMMA BasisValues ==
    ASSUME NEW xs \in Coeffs, xs # <<>>, IsInjective(xs), NEW i \in 1..Len(xs), NEW j \in 1..Len(xs)
    PROVE  PolyEval(LagrangeBasis(xs)[j], xs[i]) = IF j = i THEN 1 ELSE 0
<1> DEFINE z == ProductFromRoots(xs)
           x == xs[j]
           y == xs[i]
           q == Without(z, x)
           den == Denominators(xs)[j]
           inv == InvOf(den)
<1>1. /\ z \in Polys /\ z # <<>> /\ x \in Field /\ y \in Field
      /\ PolyEval(z, x) = 0 /\ PolyEval(z, y) = 0
  BY ProductVanishes DEF Coeffs
<1>2. DOMAIN xs = 1..Len(xs) /\ Len(xs) \in Nat
  BY DEF Coeffs
<1>3. LagrangeBasis(xs)[j] = PolyScale(q, inv)
  BY <1>2 DEF LagrangeBasis, LagrangeBasisFrom, Without
<1>4. den \in Field /\ den # 0
  <2>1. LagrangeDefined(xs)
    BY DefinedIsDistinct
  <2>2. den # 0
    BY <1>2, <2>1 DEF LagrangeDefined
  <2>3. QED
    BY <2>2, DenominatorsType
<1>5. inv \in Field /\ FMul(den, inv) = 1
  BY <1>4, InverseInField
<1>6. PolyEval(q, x) = den
  BY DenominatorIsRest
<1>7. y = x <=> i = j
  BY <1>2 DEF IsInjective
<1> HIDE DEF z, x, y, inv, den
<1>8. q \in Coeffs
  BY <1>1, RootDivides
<1>9. y # x => PolyEval(q, y) = 0
  BY <1>1, OtherRoots
<1> HIDE DEF q
<1>10. PolyEval(PolyScale(q, inv), y) = FMul(inv, PolyEval(q, y))
  BY <1>1, <1>5, <1>8, PolyEvalScale
<1>11. FMul(inv, den) = 1 /\ FMul(inv, 0) = 0
  BY <1>4, <1>5, FieldRing
<1>12. QED
  BY <1>3, <1>6, <1>7, <1>9, <1>10, <1>11 DEF y

\* A linear combination at a point where one of what it combines is 1 and the
\* others are 0.
LEMMA CombinationAt ==
    ASSUME NEW ys \in Coeffs, NEW fs, NEW x \in Field, NEW k \in 1..Len(ys),
           \A j \in 1..Len(ys) : fs[j] \in Coeffs /\ PolyEval(fs[j], x) = IF j = k THEN 1 ELSE 0
    PROVE  PolyEval(LinearCombination(ys, fs), x) = ys[k]
<1> DEFINE n == Len(ys)
<1>1. n \in Nat /\ k \in 1..n /\ \A j \in 1..n : ys[j] \in Field
  BY DEF Coeffs
<1>2. PICK p : IsCombination(p, ys, fs) /\ LinearCombination(ys, fs) = p[n]
  BY LinearCombinationDef
<1>3. p[0] = <<>> /\ \A j \in 1..n : p[j] = PolyAdd(p[j - 1], PolyScale(fs[j], ys[j]))
  BY <1>2 DEF IsCombination
<1>4. \A j \in 1..n : fs[j] \in Coeffs /\ PolyEval(fs[j], x) = IF j = k THEN 1 ELSE 0
  OBVIOUS
<1> DEFINE v == ys[k]
<1>5. v \in Field
  BY <1>1
<1> HIDE DEF n
<1> DEFINE At(m) == IF k <= m THEN v ELSE 0
           T == {m \in 0..n : p[m] \in Coeffs /\ PolyEval(p[m], x) = At(m)}
<1>6. 0 \in T
  <2>1. <<>> \in Coeffs /\ PolyEval(<<>>, x) = 0
    BY PolyEvalType
  <2>2. At(0) = 0 /\ 0 \in 0..n
    BY <1>1
  <2>3. QED
    BY <1>3, <2>1, <2>2
<1>7. ASSUME NEW m \in 0..(n - 1), m \in T PROVE m + 1 \in T
  <2> DEFINE a == p[m]
             e == fs[m + 1]
             c == ys[m + 1]
             b == PolyScale(e, c)
  <2>1. m + 1 \in 1..n /\ m + 1 - 1 = m /\ m + 1 \in 0..n
    BY <1>1
  <2>2. p[m + 1] = PolyAdd(a, b)
    BY <1>3, <2>1
  <2>3. a \in Coeffs /\ PolyEval(a, x) = At(m)
    BY <1>7
  <2>4. e \in Coeffs /\ PolyEval(e, x) = (IF m + 1 = k THEN 1 ELSE 0) /\ c \in Field
    BY <1>1, <1>4, <2>1
  <2>5. m + 1 = k => c = v
    OBVIOUS
  <2> HIDE DEF a, e, c
  <2>6. b \in Coeffs /\ PolyEval(b, x) = FMul(c, PolyEval(e, x))
    BY <2>4, PolyScaleCoeffs, PolyEvalScale
  <2> HIDE DEF b
  <2>7. PolyAdd(a, b) \in Coeffs /\ PolyEval(PolyAdd(a, b), x) = FAdd(PolyEval(a, x), PolyEval(b, x))
    BY <2>3, <2>6, PolyAddCoeffs, PolyEvalAdd
  <2>8. FMul(c, 1) = c /\ FMul(c, 0) = 0 /\ FAdd(v, 0) = v /\ FAdd(0, 0) = 0
    BY <1>5, <2>4, FieldRing
  <2>9. FAdd(0, v) = v
    BY <1>5, FieldZero
  <2>10. PolyEval(PolyAdd(a, b), x) = At(m + 1)
    <3>1. CASE m + 1 = k
      <4>1. At(m) = 0 /\ At(m + 1) = v
        BY <1>1, <3>1
      <4>2. QED
        BY <2>3, <2>4, <2>5, <2>6, <2>7, <2>8, <2>9, <3>1, <4>1
    <3>2. CASE m + 1 # k
      <4>1. At(m + 1) = At(m) /\ (At(m) = v \/ At(m) = 0)
        BY <1>1, <2>1, <3>2
      <4> HIDE DEF At
      <4>2. PolyEval(b, x) = 0
        BY <2>4, <2>6, <2>8, <3>2
      <4>3. QED
        BY <2>3, <2>7, <2>8, <4>1, <4>2
    <3>3. QED
      BY <3>1, <3>2
  <2> HIDE DEF At
  <2>11. QED
    BY <2>1, <2>2, <2>7, <2>10
<1>8. 0..n \subseteq T
  <2> HIDE DEF T
  <2>1. QED
    BY <1>1, <1>6, <1>7, UpToInduction
<1>9. n \in T /\ At(n) = v
  BY <1>1, <1>8
<1>10. QED
  BY <1>2, <1>9

\* QueryContext::interpolate at distinct points: a polynomial with the given
\* values, no longer than there are points.
THEOREM InterpolationIsExact ==
    ASSUME NEW xs \in Coeffs, IsInjective(xs), NEW ys \in Coeffs, Len(ys) = Len(xs)
    PROVE  /\ Interpolate(xs, ys) \in Coeffs
           /\ Len(Interpolate(xs, ys)) <= Len(xs)
           /\ \A i \in 1..Len(xs) : PolyEval(Interpolate(xs, ys), xs[i]) = ys[i]
<1> DEFINE n == Len(xs)
           basis == LagrangeBasis(xs)
<1>1. n \in Nat /\ Len(ys) = n /\ \A i \in 1..n : xs[i] \in Field
  BY DEF Coeffs
<1>2. Interpolate(xs, ys) = LinearCombination(ys, basis)
  BY DEF Interpolate
<1>3. xs # <<>> => \A j \in 1..n : basis[j] \in Coeffs /\ Len(basis[j]) <= n
  BY DefinedIsDistinct, LagrangeBasisType
<1>4. xs # <<>> => \A i, j \in 1..n : PolyEval(basis[j], xs[i]) = IF j = i THEN 1 ELSE 0
  BY BasisValues
<1>5. xs = <<>> => 1..n = {}
  BY <1>1
<1> HIDE DEF n, basis
<1>6. \A j \in 1..n : basis[j] \in Coeffs /\ Len(basis[j]) <= n
  BY <1>3, <1>5
<1>7. LinearCombination(ys, basis) \in Coeffs /\ Len(LinearCombination(ys, basis)) <= n
  BY <1>1, <1>6, LinearCombinationType
<1>8. ASSUME NEW i \in 1..n PROVE PolyEval(LinearCombination(ys, basis), xs[i]) = ys[i]
  <2>1. \A j \in 1..n : basis[j] \in Coeffs /\ PolyEval(basis[j], xs[i]) = IF j = i THEN 1 ELSE 0
    BY <1>4, <1>5, <1>6
  <2>2. QED
    BY <1>1, <2>1, CombinationAt
<1>9. QED
  BY <1>2, <1>7, <1>8 DEF n

\* What the opening of an update rests on: a polynomial less the interpolation
\* of its values at distinct points divides by the product of the points.
THEOREM InterpolationDivides ==
    ASSUME NEW f \in Coeffs, NEW xs \in Coeffs, IsInjective(xs), NEW ys \in Coeffs, Len(ys) = Len(xs),
           \A i \in 1..Len(xs) : ys[i] = PolyEval(f, xs[i])
    PROVE  DividesExactly(PolySub(f, Interpolate(xs, ys)), ProductFromRoots(xs))
<1> DEFINE g == Interpolate(xs, ys)
           d == PolySub(f, g)
<1>1. g \in Coeffs /\ \A i \in 1..Len(xs) : PolyEval(g, xs[i]) = ys[i]
  BY InterpolationIsExact
<1>2. \A i \in 1..Len(xs) : xs[i] \in Field
  BY DEF Coeffs
<1> HIDE DEF g
<1>3. d \in Polys
  BY <1>1, PolyEvalSub
<1>4. ASSUME NEW i \in 1..Len(xs) PROVE PolyEval(d, xs[i]) = 0
  <2> DEFINE a == PolyEval(f, xs[i])
  <2>1. xs[i] \in Field /\ a \in Field /\ PolyEval(g, xs[i]) = a
    BY <1>1, <1>2, PolyEvalType
  <2>2. PolyEval(d, xs[i]) = FAdd(a, FMul(P - 1, PolyEval(g, xs[i])))
    BY <1>1, <2>1, PolyEvalSub
  <2> HIDE DEF a
  <2>3. FAdd(a, FMul(P - 1, a)) = 0
    BY <2>1, MinusOne
  <2>4. QED
    BY <2>1, <2>2, <2>3
<1> HIDE DEF d
<1>5. DividesExactly(d, ProductFromRoots(xs))
  BY <1>3, <1>4, VanishingDivides
<1>6. QED
  BY <1>5 DEF d, g
=============================================================================
