-------------------------- MODULE FixedSetOpsProofs --------------------------
(***************************************************************************)
(* What the operations of module FixedSetOps compute, for every prime      *)
(* field, encoding of addresses, SRS, reserve lists and windows: what a    *)
(* window opens, what an update adds and what a proof that verifies means. *)
(***************************************************************************)
EXTENDS FixedSetOps, AlgebraProofs, FiniteSetTheorems

\* What an update sums, the deltas of the roots, is integers.
LEMMA RootDeltasType ==
    ASSUME NEW d \in Windows, NEW y
    PROVE  OrZero(RootDeltas(y, d)) \in [Address -> Int]
<1> DEFINE S == {b \in DOMAIN d : y[b] = 0}
<1>1. DOMAIN d \subseteq Address /\ d \in [DOMAIN d -> Int]
  BY ListAssumption
<1>2. S \in SUBSET Address /\ RootDeltas(y, d) \in [S -> Int]
  BY <1>1 DEF RootDeltas
<1>3. QED
  BY <1>2, OrZeroType

\* The aggregate delta is an i128.
LEMMA DValueType ==
    ASSUME NEW d \in Windows, NEW y
    PROVE  DValue(y, d) \in Int /\ InI128(DValue(y, d))
<1>1. Total(OrZero(RootDeltas(y, d))) \in Int
  BY RootDeltasType, TotalType
<1>2. QED
  BY <1>1, WrapType, WrapIsInRange DEF DValue

\* What `init` sums is integers.
LEMMA ReservesType ==
    ASSUME NEW r \in Reserves
    PROVE  OrZero(r) \in [Address -> Int] /\ Total(OrZero(r)) \in Int
<1>1. DOMAIN r \subseteq Address /\ r \in [DOMAIN r -> Int]
  BY ListAssumption
<1>2. OrZero(r) \in [Address -> Int]
  BY <1>1, OrZeroType
<1>3. QED
  BY <1>2, TotalType

-----------------------------------------------------------------------------
(* States *)

\* What a state holds: a total in i128, and a commitment with its blind.
Carries(s) ==
    /\ s.total \in Int /\ InI128(s.total)
    /\ s.commitment.value \in Field
    /\ s.commitment.blind = s.blind

\* What `init` makes is a state.
LEMMA InitialStateCarries ==
    ASSUME NEW r \in Reserves, NEW label, NEW srs
    PROVE  Carries(InitialState(r, label, srs)) /\ InitialState(r, label, srs).label = label
<1> DEFINE t == Wrap(Total(OrZero(r)))
<1>1. t \in Int /\ InI128(t)
  BY ReservesType, WrapType, WrapIsInRange
<1> HIDE DEF t
<1>2. t % P \in Field
  BY <1>1, ResidueInField
<1>3. /\ InitialState(r, label, srs).label = label
      /\ InitialState(r, label, srs).total = t
      /\ InitialState(r, label, srs).blind = InitialBlind(r)
      /\ InitialState(r, label, srs).commitment = CommitBalance(t, InitialBlind(r))
  BY DEF InitialState, t
<1>4. QED
  BY <1>1, <1>2, <1>3 DEF Carries, CommitBalance

\* The fields of a proof that the next state is made from.
FieldsOK(proof, label) ==
    /\ proof.newLabel = label
    /\ proof.dValue \in Int
    /\ proof.cD = [value |-> proof.dValue % P, blind |-> SetToBag({proof.rD})]

\* A proof that apply_update makes has these fields.
LEMMA UpdateProofFields ==
    ASSUME NEW s, NEW d \in Windows, NEW label
    PROVE  FieldsOK(UpdateProof(s, d, label), label)
<1> DEFINE dValue == DValue(Evaluations(s.poly, d), d)
           rD == <<label, dValue>>
           cD == CommitBalance(dValue, SetToBag({rD}))
           v == Witness(s.poly, d)
           opening == Opening[s.poly][d]
           proof == ProofFrom(s, d, label, v, opening, dValue, rD, cD)
<1>1. dValue \in Int
  BY DValueType
<1>2. cD = [value |-> dValue % P, blind |-> SetToBag({rD})]
  BY DEF CommitBalance
<1>3. UpdateProof(s, d, label) = proof
  BY DEF UpdateProof
<1> HIDE DEF dValue, rD, cD, v, opening
<1>4. proof.newLabel = label /\ proof.dValue = dValue /\ proof.cD = cD /\ proof.rD = rD
  BY DEF ProofFrom
<1> HIDE DEF proof
<1>5. FieldsOK(proof, label)
  BY <1>1, <1>2, <1>4 DEF FieldsOK
<1>6. QED
  BY <1>3, <1>5

\* What an update makes of a state is a state.
LEMMA NextStateCarries ==
    ASSUME NEW s, Carries(s), NEW d \in Windows, NEW label
    PROVE  /\ Carries(NextState(s, UpdateProof(s, d, label)))
           /\ NextState(s, UpdateProof(s, d, label)).label = label
<1> SUFFICES ASSUME NEW proof, FieldsOK(proof, label) PROVE Carries(NextState(s, proof)) /\ NextState(s, proof).label = label
  BY UpdateProofFields
<1> DEFINE n == NextState(s, proof)
<1>1. proof.newLabel = label /\ proof.dValue \in Int
  BY DEF FieldsOK
<1>2. proof.cD = [value |-> proof.dValue % P, blind |-> SetToBag({proof.rD})]
  BY DEF FieldsOK
<1>2a. n = [label |-> proof.newLabel, degree |-> s.degree, poly |-> s.poly,
            total |-> Wrap(s.total + proof.dValue),
            blind |-> s.blind (+) SetToBag({proof.rD}),
            commitment |-> AddCommitments(s.commitment, proof.cD)]
  BY DEF NextState
<1>3. n.label = label /\ n.total = Wrap(s.total + proof.dValue)
  <2> HIDE DEF n
  <2>1. n.label = proof.newLabel /\ n.total = Wrap(s.total + proof.dValue)
    BY <1>2a
  <2>2. QED
    BY <1>1, <2>1
<1>4. n.total \in Int /\ InI128(n.total)
  <2>1. s.total + proof.dValue \in Int
    BY <1>1 DEF Carries
  <2>2. QED
    BY <1>3, <2>1, WrapType, WrapIsInRange
<1>5. n.commitment = [value |-> (s.commitment.value + (proof.dValue % P)) % P,
                      blind |-> s.blind (+) SetToBag({proof.rD})]
  BY <1>2 DEF NextState, AddCommitments, Carries
<1>6. n.commitment.value \in Field
  <2>1. s.commitment.value \in Int /\ proof.dValue % P \in Int
    BY <1>1, ResidueInField, OrderAssumption DEF Carries, Field
  <2>2. s.commitment.value + (proof.dValue % P) \in Int
    BY <2>1
  <2>3. QED
    BY <1>5, <2>2, ResidueInField
<1>7. n.blind = s.blind (+) SetToBag({proof.rD})
  BY DEF NextState
<1>8. QED
  BY <1>1, <1>3, <1>4, <1>5, <1>6, <1>7 DEF Carries

\* The aggregate delta a proof reports is the one computed from the roots.
LEMMA UpdateProofDelta ==
    ASSUME NEW s, NEW d, NEW label
    PROVE  UpdateProof(s, d, label).dValue = DValue(Evaluations(s.poly, d), d)
<1> DEFINE dValue == DValue(Evaluations(s.poly, d), d)
           rD == <<label, dValue>>
           cD == CommitBalance(dValue, SetToBag({rD}))
           v == Witness(s.poly, d)
           opening == Opening[s.poly][d]
           proof == ProofFrom(s, d, label, v, opening, dValue, rD, cD)
<1>1. UpdateProof(s, d, label) = proof
  BY DEF UpdateProof
<1> HIDE DEF dValue, rD, cD, v, opening
<1>2. proof.dValue = dValue
  BY DEF ProofFrom
<1>3. QED
  BY <1>1, <1>2 DEF dValue

\* Adding residues, and reducing, is reducing the sum.
LEMMA ResidueOfSum ==
    ASSUME NEW a \in Int, NEW b \in Int
    PROVE  ((a % P) + (b % P)) % P = (a + b) % P
<1>1. P \in Nat /\ P > 1
  BY OrderAssumption
<1>2. ASSUME NEW x \in Int PROVE \E q \in Int : x = P * q + (x % P) /\ x % P \in Int
  <2>1. x \div P \in Int /\ x % P \in Int /\ x = P * (x \div P) + (x % P)
    BY <1>1, <1>2
  <2>2. QED
    BY <2>1
<1>3. PICK qa \in Int : a = P * qa + (a % P) /\ a % P \in Int
  BY <1>2
<1>4. PICK qb \in Int : b = P * qb + (b % P) /\ b % P \in Int
  BY <1>2
<1> DEFINE c == a + b
           x == c % P
           e == (a % P) + (b % P)
<1>5. c \in Int /\ e \in Int
  BY <1>3, <1>4
<1>6. PICK qc \in Int : c = P * qc + (c % P) /\ c % P \in Int
  BY <1>2, <1>5
<1>7. x \in Field
  BY <1>5, ResidueInField
<1>8. x - e = (qa + qb - qc) * P
  <2>1. (qa + qb - qc) * P = P * qa + P * qb - P * qc
    BY <1>1
  <2>2. QED
    BY <1>1, <1>3, <1>4, <1>6, <2>1
<1>9. (x - e) % P = 0
  <2> DEFINE k == qa + qb - qc
  <2>1. k \in Int
    OBVIOUS
  <2> HIDE DEF k
  <2>2. (k * P) % P = 0
    BY <1>1, <2>1
  <2>3. QED
    BY <1>8, <2>2 DEF k
<1> HIDE DEF x, e, c
<1>10. x = e % P
  BY <1>5, <1>7, <1>9, ResidueOfDifference
<1>11. QED
  BY <1>10 DEF x, e, c

-----------------------------------------------------------------------------
(* The points of a window *)

\* InOrder lists every address once.
LEMMA InOrderLists ==
    ASSUME NEW S \in SUBSET Address
    PROVE  /\ Cardinality(S) \in Nat
           /\ DOMAIN InOrder(S) = 1..Cardinality(S)
           /\ \A i \in 1..Cardinality(S) : InOrder(S)[i] \in S
           /\ \A a \in S : \E i \in 1..Cardinality(S) : InOrder(S)[i] = a
           /\ \A i, j \in 1..Cardinality(S) : InOrder(S)[i] = InOrder(S)[j] => i = j
<1> DEFINE n == Cardinality(S)
           Below(a) == {b \in S : b <= a}
           rank == [a \in S |-> Cardinality(Below(a))]
<1>1. IsFiniteSet(S) /\ n \in Nat /\ S \subseteq Int
  <2>1. N \in Int /\ 1 \in Int
    BY NAssumption
  <2>2. IsFiniteSet(Address)
    BY <2>1, FS_Interval DEF Address
  <2>3. IsFiniteSet(S)
    BY <2>2, FS_Subset
  <2>4. QED
    BY <2>1, <2>3, FS_CardinalityType DEF Address
<1>2. ASSUME NEW a \in S
      PROVE  IsFiniteSet(Below(a)) /\ rank[a] = Cardinality(Below(a)) /\ rank[a] \in 1..n
  <2> DEFINE B == Below(a)
  <2>1. B \in SUBSET S /\ a \in B
    BY <1>1
  <2>2. rank[a] = Cardinality(B)
    OBVIOUS
  <2> HIDE DEF B, n, rank
  <2>3. IsFiniteSet(B) /\ Cardinality(B) <= Cardinality(S)
    BY <1>1, <2>1, FS_Subset
  <2>4. Cardinality(B) \in Nat /\ Cardinality(B) # 0
    BY <2>1, <2>3, FS_CardinalityType, FS_EmptySet
  <2>5. QED
    BY <1>1, <2>2, <2>3, <2>4 DEF B, n
<1>3. ASSUME NEW a \in S, NEW b \in S, a < b PROVE rank[a] < rank[b]
  <2> DEFINE A == Below(a)
             B == Below(b)
  <2>1. A \in SUBSET B /\ b \in B /\ b \notin A
    <3>1. a \in Int /\ b \in Int /\ a < b
      BY <1>1, <1>3
    <3>2. \A x \in S : x \in Int /\ (x <= a => x <= b)
      BY <1>1, <3>1
    <3>3. ~(b <= a) /\ b <= b
      BY <3>1
    <3>4. QED
      BY <3>2, <3>3
  <2>2. /\ IsFiniteSet(A) /\ rank[a] = Cardinality(A) /\ rank[a] \in 1..n
        /\ IsFiniteSet(B) /\ rank[b] = Cardinality(B) /\ rank[b] \in 1..n
    BY <1>2
  <2> HIDE DEF A, B, rank, n
  <2>3. Cardinality(A) <= Cardinality(B) /\ (Cardinality(B) = Cardinality(A) => B = A)
    BY <2>1, <2>2, FS_Subset
  <2>4. B # A
    BY <2>1
  <2>5. QED
    BY <1>1, <2>2, <2>3, <2>4
<1> HIDE DEF rank
<1>4. ASSUME NEW a \in S, NEW b \in S, rank[a] = rank[b] PROVE a = b
  <2>1. rank[a] \in Int /\ rank[b] \in Int
    <3>1. n \in Nat /\ rank[a] \in 1..n /\ rank[b] \in 1..n
      BY <1>1, <1>2
    <3> HIDE DEF n
    <3>2. QED
      BY <3>1
  <2>2. ~(a < b) /\ ~(b < a)
    BY <1>3, <1>4, <2>1
  <2>3. QED
    BY <1>1, <2>2
<1>5. rank \in Injection(S, 1..n)
  <2>1. rank \in [S -> 1..n]
    <3>1. DOMAIN rank = S /\ rank = [a \in S |-> rank[a]]
      BY DEF rank
    <3>2. QED
      BY <1>2, <3>1
  <2>2. QED
    BY <1>4, <2>1 DEF Injection, IsInjective
<1>6. IsFiniteSet(1..n) /\ Cardinality(1..n) = n
  <2>1. 1 \in Int /\ n \in Int
    BY <1>1
  <2> HIDE DEF n
  <2>2. IsFiniteSet(1..n) /\ Cardinality(1..n) = IF 1 > n THEN 0 ELSE n - 1 + 1
    BY <2>1, FS_Interval
  <2>3. QED
    BY <1>1, <2>2
<1>7. \A i \in 1..n : \E a \in S : rank[a] = i
  <2>1. rank \in Surjection(S, 1..n)
    BY <1>5, <1>6, FS_Injection
  <2>2. QED
    BY <2>1 DEF Surjection
<1>8. ASSUME NEW i \in 1..n PROVE InOrder(S)[i] \in S /\ rank[InOrder(S)[i]] = i
  <2>1. InOrder(S)[i] = CHOOSE a \in S : Cardinality(Below(a)) = i
    BY DEF InOrder
  <2>2. \E a \in S : Cardinality(Below(a)) = i
    BY <1>2, <1>7
  <2> HIDE DEF Below
  <2>3. InOrder(S)[i] \in S /\ Cardinality(Below(InOrder(S)[i])) = i
    BY <2>1, <2>2
  <2>4. QED
    BY <1>2, <2>3
<1>9. DOMAIN InOrder(S) = 1..n
  BY DEF InOrder
<1>10. ASSUME NEW a \in S PROVE \E i \in 1..n : InOrder(S)[i] = a
  <2>1. rank[a] \in 1..n
    BY <1>2
  <2>2. InOrder(S)[rank[a]] = a
    BY <1>4, <1>8, <2>1
  <2>3. QED
    BY <2>1, <2>2
<1>11. QED
  BY <1>1, <1>8, <1>9, <1>10

\* The points of a window are the encodings of its addresses, each once.
LEMMA PointsOfWindow ==
    ASSUME NEW d, DOMAIN d \subseteq Address
    PROVE  LET n == Cardinality(DOMAIN d)
           IN /\ n \in Nat
              /\ Points(d) \in Coeffs /\ Len(Points(d)) = n /\ DOMAIN Points(d) = 1..n
              /\ \A i \in 1..n : Points(d)[i] = Encode[InOrder(DOMAIN d)[i]]
              /\ IsInjective(Points(d))
              /\ Points(d) = <<>> <=> DOMAIN d = {}
<1> DEFINE S == DOMAIN d
           n == Cardinality(S)
           order == InOrder(S)
           points == [i \in 1..n |-> Encode[order[i]]]
<1>1. S \in SUBSET Address
  OBVIOUS
<1> HIDE DEF S
<1>2. /\ n \in Nat /\ DOMAIN order = 1..n
      /\ \A i \in 1..n : order[i] \in S
      /\ \A a \in S : \E i \in 1..n : order[i] = a
      /\ \A i, j \in 1..n : order[i] = order[j] => i = j
  BY <1>1, InOrderLists
<1>3. Points(d) = points
  BY <1>2 DEF Points, S
<1> HIDE DEF n, order
<1>4. points \in [1..n -> Field]
  BY <1>1, <1>2, EncodeAssumption
<1>5. points \in Seq(Field) /\ Len(points) = n
  <2> HIDE DEF points
  <2>1. QED
    BY <1>2, <1>4, FunctionIsSequence
<1>6. IsInjective(points)
  <2> SUFFICES ASSUME NEW i \in 1..n, NEW j \in 1..n, points[i] = points[j] PROVE i = j
    BY DEF IsInjective
  <2>1. order[i] \in Address /\ order[j] \in Address /\ Encode[order[i]] = Encode[order[j]]
    BY <1>1, <1>2
  <2>2. order[i] = order[j]
    BY <2>1, EncodeAssumption
  <2>3. QED
    BY <1>2, <2>2
<1>7. points = <<>> <=> S = {}
  <2>1. ASSUME points = <<>> PROVE S = {}
    <3>1. n = 0
      BY <1>5, <2>1, EmptySeq
    <3>2. QED
      BY <1>2, <3>1
  <2>2. ASSUME S = {} PROVE points = <<>>
    <3>1. n = 0
      <4>1. QED
        BY <2>2, FS_EmptySet DEF n
    <3> HIDE DEF points
    <3>2. QED
      BY <1>5, <3>1, EmptySeq
  <2>3. QED
    BY <2>1, <2>2
<1>8. \A i \in 1..n : points[i] = Encode[order[i]]
  OBVIOUS
<1>9. DOMAIN points = 1..n
  OBVIOUS
<1> HIDE DEF points
<1>10. QED
  BY <1>2, <1>3, <1>5, <1>6, <1>7, <1>8, <1>9 DEF n, order, S, Coeffs

-----------------------------------------------------------------------------
(* Openings *)

\* The polynomials of states are polynomials over the field.
LEMMA PolynomialsType ==
    ASSUME NEW f \in Polynomials PROVE f \in Polys /\ f \in Coeffs
<1>1. PICK r \in Reserves : f = PolyScale(ProductFromRoots(Points(r)), Alpha)
  BY DEF Polynomials
<1>2. Points(r) \in Coeffs
  <2>1. DOMAIN r \subseteq Address
    BY ListAssumption
  <2>2. QED
    BY <2>1, PointsOfWindow
<1>3. ProductFromRoots(Points(r)) \in Coeffs
  BY <1>2, ProductVanishes DEF Polys
<1>4. Alpha \in Field
  BY ScalarAssumption
<1>5. QED
  BY <1>1, <1>3, <1>4, PolyScaleCoeffs

\* The values listed for a window are the values at the encoded addresses.
LEMMA ValuesArePointwise ==
    ASSUME NEW f \in Polynomials, NEW d \in Windows, DOMAIN d # {}
    PROVE  LET n == Cardinality(DOMAIN d)
           IN /\ n \in Nat
              /\ Values[f][d] \in Coeffs /\ Len(Values[f][d]) = n
              /\ \A i \in 1..n : Values[f][d][i] = PolyEval(f, Encode[InOrder(DOMAIN d)[i]])
              /\ Values[f][d] = [i \in 1..n |-> PolyEval(f, Encode[InOrder(DOMAIN d)[i]])]
<1> DEFINE n == Cardinality(DOMAIN d)
           xs == Points(d)
           ys == [j \in DOMAIN xs |-> PolyEval(f, xs[j])]
<1>1. DOMAIN d \subseteq Address
  BY ListAssumption
<1>2. /\ n \in Nat /\ xs \in Coeffs /\ DOMAIN xs = 1..n
      /\ \A i \in 1..n : xs[i] = Encode[InOrder(DOMAIN d)[i]]
      /\ xs # <<>>
  BY <1>1, PointsOfWindow
<1>3. f \in Coeffs
  BY PolynomialsType
<1>4. Values[f][d] = MultiEvaluate(f, xs)
  BY DEF Values
<1> HIDE DEF xs, n
<1>5. Values[f][d] = ys
  BY <1>2, <1>3, <1>4, EvaluationIsPointwise
<1>6. \A i \in 1..n : xs[i] \in Field
  BY <1>2 DEF Coeffs
<1>7. ys = [i \in 1..n |-> PolyEval(f, Encode[InOrder(DOMAIN d)[i]])]
  BY <1>2
<1>8. ys \in [1..n -> Field]
  BY <1>2, <1>3, <1>6, PolyEvalType
<1>9. ys \in Seq(Field) /\ Len(ys) = n
  <2> HIDE DEF ys
  <2>1. QED
    BY <1>2, <1>8, FunctionIsSequence
<1>10. \A i \in 1..n : ys[i] = PolyEval(f, Encode[InOrder(DOMAIN d)[i]])
  BY <1>2
<1> HIDE DEF ys
<1>11. QED
  BY <1>2, <1>5, <1>7, <1>9, <1>10 DEF n, Coeffs

\* The values by address are the values at the encoded addresses.
LEMMA EvaluationsArePointwise ==
    ASSUME NEW f \in Polynomials, NEW d \in Windows
    PROVE  /\ Evaluations(f, d) = [a \in DOMAIN d |-> PolyEval(f, Encode[a])]
           /\ Evaluations(f, d) \in [DOMAIN d -> Field]
<1> DEFINE n == Cardinality(DOMAIN d)
           order == InOrder(DOMAIN d)
           ys == [a \in DOMAIN d |-> PolyEval(f, Encode[a])]
<1>1. DOMAIN d \in SUBSET Address
  BY ListAssumption
<1>2. /\ n \in Nat /\ DOMAIN order = 1..n
      /\ \A a \in DOMAIN d : \E i \in 1..n : order[i] = a
  BY <1>1, InOrderLists
<1>3. ASSUME NEW a \in DOMAIN d
      PROVE  Values[f][d][CHOOSE i \in 1..n : order[i] = a] = PolyEval(f, Encode[a])
  <2> DEFINE i == CHOOSE j \in 1..n : order[j] = a
  <2>1. \E j \in 1..n : order[j] = a
    BY <1>2
  <2> HIDE DEF n, order
  <2>2. i \in 1..n /\ order[i] = a
    BY <2>1
  <2>3. \A j \in 1..n : Values[f][d][j] = PolyEval(f, Encode[order[j]])
    BY <1>3, ValuesArePointwise DEF n, order
  <2> HIDE DEF i
  <2>4. Values[f][d][i] = PolyEval(f, Encode[a])
    BY <2>2, <2>3
  <2>5. QED
    BY <2>4 DEF i
<1>4. Evaluations(f, d) = [a \in DOMAIN d |-> Values[f][d][CHOOSE i \in 1..n : order[i] = a]]
  <2> DEFINE By(D) == [a \in DOMAIN d |-> Values[f][d][CHOOSE i \in D : order[i] = a]]
  <2>1. Evaluations(f, d) = By(DOMAIN order)
    BY DEF Evaluations
  <2>2. By(DOMAIN order) = By(1..n)
    <3> HIDE DEF By
    <3>1. QED
      BY <1>2
  <2>3. QED
    BY <2>1, <2>2
<1> HIDE DEF n, order
<1>5. Evaluations(f, d) = ys
  BY <1>3, <1>4
<1>6. \A a \in DOMAIN d : PolyEval(f, Encode[a]) \in Field
  BY <1>1, EncodeAssumption, PolynomialsType, PolyEvalType
<1>7. QED
  BY <1>5, <1>6

\* The vanishing polynomial of a window.
LEMMA WindowProduct ==
    ASSUME NEW d \in Windows
    PROVE  /\ Context[d].zPoly \in Polys /\ Context[d].zPoly \in Coeffs
           /\ Context[d].zPoly # <<>>
           /\ Cardinality(DOMAIN d) \in Nat
           /\ Len(Context[d].zPoly) = Cardinality(DOMAIN d) + 1
<1>1. DOMAIN d \subseteq Address
  BY ListAssumption
<1>2. /\ Points(d) \in Coeffs /\ Len(Points(d)) = Cardinality(DOMAIN d)
      /\ Cardinality(DOMAIN d) \in Nat
  BY <1>1, PointsOfWindow
<1>3. Context[d].zPoly = ProductFromRoots(Points(d))
  BY DEF Context
<1>4. QED
  BY <1>2, <1>3, ProductVanishes DEF Polys

\* The empty window has no interpolation: one value comes back for no point.
LEMMA EmptyWindowDoesNotOpen ==
    ASSUME NEW f \in Polynomials, NEW d \in Windows, DOMAIN d = {}
    PROVE  ~Opening[f][d].ok
<1>1. DOMAIN d \subseteq Address
  BY ListAssumption
<1>2. Points(d) = <<>>
  BY <1>1, PointsOfWindow
<1>3. Len(Values[f][d]) = 1
  <2>1. Values[f][d] = MultiEvaluate(f, <<>>)
    BY <1>2 DEF Values
  <2>2. Values[f][d] = <<PolyEval(f, P - 1)>>
    BY <2>1 DEF MultiEvaluate
  <2>3. QED
    BY <2>2
<1>4. Len(Context[d].basis) = 0
  <2>1. Context[d].basis = LagrangeBasis(<<>>)
    BY <1>2 DEF Context
  <2> DEFINE E(j) == PolyScale(PolyDivRem(ProductFromRoots(<<>>), LinearFactor(<<>>[j])).q,
                               InvOf(Denominators(<<>>)[j]))
  <2>2. LagrangeBasis(<<>>) = [j \in DOMAIN <<>> |-> E(j)]
    BY DEF LagrangeBasis, LagrangeBasisFrom
  <2> HIDE DEF E
  <2>3. DOMAIN LagrangeBasis(<<>>) = {}
    BY <2>2
  <2>4. LagrangeBasis(<<>>) = <<>>
    BY <2>2
  <2>5. QED
    BY <2>1, <2>4
<1>5. ~Interpolates(Values[f][d], Context[d])
  BY <1>3, <1>4 DEF Interpolates
<1>6. Opening[f][d] = OpenAt(f, Values[f][d], Context[d])
  BY DEF Opening
<1>7. Opening[f][d] = [ok |-> FALSE]
  BY <1>5, <1>6 DEF OpenAt
<1>8. QED
  BY <1>7

\* An opening that succeeds: the blinded interpolation is a polynomial with a
\* coefficient more than the window has addresses, and the quotient by the
\* vanishing polynomial is exact.
LEMMA OpeningIsExact ==
    ASSUME NEW f \in Polynomials, NEW d \in Windows, Opening[f][d].ok
    PROVE  LET o == Opening[f][d]
           IN /\ DOMAIN d # {}
              /\ Interpolates(Values[f][d], Context[d])
              /\ o.jY = BlindedOpening(Values[f][d], Context[d])
              /\ o.jY \in Coeffs /\ Len(o.jY) <= Cardinality(DOMAIN d) + 1
              /\ PolyMul(o.quotient, Context[d].zPoly) = PolySub(f, o.jY)
<1> DEFINE o == Opening[f][d]
           n == Cardinality(DOMAIN d)
           ys == Values[f][d]
           ctx == Context[d]
           z == Context[d].zPoly
           l == LinearCombination(ys, ctx.basis)
           b == PolyScale(z, Rho)
           j == BlindedOpening(ys, ctx)
           div == PolyDivRem(PolySub(f, j), z)
<1>1. DOMAIN d # {}
  BY EmptyWindowDoesNotOpen
<1>2. o = OpenAt(f, ys, ctx)
  BY DEF Opening
<1>3. Interpolates(ys, ctx) /\ o = Divided(j, div)
  <2>1. CASE ~Interpolates(ys, ctx)
    <3>1. o = [ok |-> FALSE]
      BY <1>2, <2>1 DEF OpenAt
    <3>2. QED
      BY <3>1
  <2>2. CASE Interpolates(ys, ctx)
    BY <1>2, <2>2 DEF OpenAt
  <2>3. QED
    BY <2>1, <2>2
<1>4. j = PolyAdd(l, b)
  BY DEF BlindedOpening
<1>5. o.jY = j /\ o.quotient = div.q /\ div.r = <<>>
  <2> HIDE DEF o, j, div
  <2>1. o.jY = j /\ o.quotient = div.q
    BY <1>3 DEF Divided
  <2>2. o.ok = (div.r = <<>>)
    BY <1>3, Zenon DEF Divided
  <2>3. o.ok
    BY DEF o
  <2>4. QED
    BY <2>1, <2>2, <2>3
<1>6. /\ n \in Nat /\ z \in Polys /\ z \in Coeffs /\ z # <<>> /\ Len(z) = n + 1
  BY WindowProduct
<1>7. ys \in Coeffs /\ Len(ys) = n
  BY <1>1, ValuesArePointwise
<1>8. \A i \in 1..n : ctx.basis[i] \in Coeffs /\ Len(ctx.basis[i]) <= n
  <2>1. DOMAIN d \subseteq Address
    BY ListAssumption
  <2>2. Points(d) \in Coeffs /\ Points(d) # <<>> /\ Len(Points(d)) = n
    BY <1>1, <2>1, PointsOfWindow
  <2>3. LagrangeDefined(Points(d)) /\ ctx.basis = LagrangeBasis(Points(d))
    BY <1>3 DEF Interpolates, Context
  <2> HIDE DEF n, ctx
  <2>4. QED
    BY <2>2, <2>3, LagrangeBasisType
<1> HIDE DEF o, n, ys, ctx, z, j, l, b, div
<1>9. l \in Coeffs /\ Len(l) <= n
  <2>1. \A i \in 1..Len(ys) : ctx.basis[i] \in Coeffs /\ Len(ctx.basis[i]) <= n
    BY <1>7, <1>8
  <2>2. QED
    BY <1>6, <1>7, <2>1, LinearCombinationType DEF l
<1>10. b \in Coeffs /\ Len(b) <= n + 1
  <2>1. Rho \in Field
    BY ScalarAssumption
  <2>2. Len(b) <= Len(z) /\ b \in Coeffs
    BY <1>6, <2>1, PolyScaleCoeffs DEF b
  <2>3. QED
    BY <1>6, <2>2
<1>11. j \in Coeffs /\ Len(j) <= n + 1
  <2>1. LongerLen(l, b) \in Nat /\ Len(j) <= LongerLen(l, b) /\ j \in Coeffs
    BY <1>4, <1>9, <1>10, PolyAddCoeffs
  <2>2. LongerLen(l, b) = Len(l) \/ LongerLen(l, b) = Len(b)
    BY DEF LongerLen
  <2>3. Len(l) \in Nat /\ Len(b) \in Nat /\ Len(j) \in Nat
    BY <1>9, <1>10, <2>1 DEF Coeffs
  <2>4. QED
    BY <1>6, <1>9, <1>10, <2>1, <2>2, <2>3
<1>12. PolySub(f, j) \in Polys
  BY <1>11, PolynomialsType, PolyEvalSub
<1>13. PolyMul(div.q, z) = PolySub(f, j)
  BY <1>5, <1>6, <1>12, QuotientTimesDivisor DEF div
<1>14. QED
  BY <1>1, <1>3, <1>5, <1>11, <1>13 DEF o, n, ys, ctx, z, j

\* What is subtracted from two polynomials tells them apart no better.
LEMMA SameDifference ==
    ASSUME NEW f \in Coeffs, NEW g \in Coeffs, NEW h \in Coeffs,
           PolySub(f, h) = PolySub(g, h), NEW x \in Field
    PROVE  PolyEval(f, x) = PolyEval(g, x)
<1> DEFINE a == PolyEval(f, x)
           b == PolyEval(g, x)
           c == PolyEval(h, x)
           m == FMul(P - 1, c)
<1>1. a \in Field /\ b \in Field /\ c \in Field
  BY PolyEvalType
<1>2. FAdd(a, m) = FAdd(b, m)
  <2>1. PolyEval(PolySub(f, h), x) = FAdd(a, m)
    BY PolyEvalSub
  <2>2. PolyEval(PolySub(g, h), x) = FAdd(b, m)
    BY PolyEvalSub
  <2>3. QED
    BY <2>1, <2>2
<1> HIDE DEF a, b, c
<1>3. m \in Field /\ FAdd(c, m) = 0
  BY <1>1, MinusOne, FieldRing
<1> HIDE DEF m
<1>4. ASSUME NEW u \in Field PROVE FAdd(FAdd(u, m), c) = u
  <2>1. FAdd(FAdd(u, m), c) = FAdd(u, FAdd(m, c))
    BY <1>1, <1>3, FieldRing
  <2>2. FAdd(m, c) = FAdd(c, m)
    BY <1>1, <1>3, FieldRing
  <2>3. FAdd(u, 0) = u
    BY FieldRing
  <2>4. QED
    BY <1>3, <2>1, <2>2, <2>3
<1>5. a = b
  BY <1>1, <1>2, <1>4
<1>6. QED
  BY <1>5 DEF a, b

-----------------------------------------------------------------------------
(* Updates and their proofs *)

\* An update that was made: the window applied to the state with some SRS, and
\* the proof and the next state are what came of it.
Made(x, label, srs) ==
    /\ Applies(x.old, x.window, srs)
    /\ x.proof = UpdateProof(x.old, x.window, label)
    /\ x.new = NextState(x.old, x.proof)
Honest(x) ==
    /\ x.window \in Windows /\ x.old.poly \in Polynomials
    /\ \E label, srs : Made(x, label, srs)

\* What a window owes is what its roots sum to in the witness.
LEMMA OwedIsRootSum ==
    ASSUME NEW s, s.poly \in Polynomials, NEW d \in Windows
    PROVE  /\ Total(OrZero(RootDeltas(Evaluations(s.poly, d), d))) = Owed(s, d)
           /\ Owed(s, d) \in Int
           /\ DValue(Evaluations(s.poly, d), d) = Wrap(Owed(s, d))
<1> DEFINE y == Evaluations(s.poly, d)
           e == [a \in DOMAIN d |-> PolyEval(s.poly, Encode[a])]
<1>1. y = e
  BY EvaluationsArePointwise
<1>2. RootDeltas(e, d) = [a \in {b \in DOMAIN d : PolyEval(s.poly, Encode[b]) = 0} |-> d[a]]
  <2>1. {b \in DOMAIN d : e[b] = 0} = {b \in DOMAIN d : PolyEval(s.poly, Encode[b]) = 0}
    OBVIOUS
  <2> HIDE DEF e
  <2>2. QED
    BY <2>1 DEF RootDeltas
<1> HIDE DEF y, e
<1>3. Total(OrZero(RootDeltas(y, d))) = Owed(s, d)
  BY <1>1, <1>2 DEF Owed
<1>4. Total(OrZero(RootDeltas(y, d))) \in Int
  BY RootDeltasType, TotalType
<1>5. QED
  BY <1>3, <1>4 DEF y, DValue

\* The witness of a window assigns the relation its values, with the flags and
\* the advice that build_update_witness computes.
LEMMA WitnessFacts ==
    ASSUME NEW s, s.poly \in Polynomials, NEW d \in Windows
    PROVE  LET v == Witness(s.poly, d)
               y == Evaluations(s.poly, d)
           IN /\ v \in Assignments(DOMAIN d)
              /\ v.y = y /\ v.d = DValue(y, d) % P
              /\ DOMAIN v.u = DOMAIN d
              /\ \A a \in DOMAIN d : v.u[a] = IF v.y[a] = 0 THEN 1 ELSE 0
              /\ HonestAdvice(v, d)
<1> DEFINE y == Evaluations(s.poly, d)
           w == WitnessOf(y, d)
<1>1. Witness(s.poly, d) = w
  BY DEF Witness
<1>2. y \in [DOMAIN d -> Field]
  BY EvaluationsArePointwise
<1>3. DValue(y, d) % P \in Field
  BY DValueType, ResidueInField
<1> HIDE DEF y
<1> DEFINE inv(a) == InverseOrZero(y[a])
           u == [a \in DOMAIN d |-> IF y[a] = 0 THEN 1 ELSE 0]
           z == [a \in DOMAIN d |-> inv(a)]
           p == [a \in DOMAIN d |-> (y[a] * inv(a)) % P]
           e == DValue(y, d) % P
<1>4. w = [u |-> u, y |-> y, z |-> z, w |-> p, d |-> e]
  BY DEF WitnessOf
<1>5. 0 \in Field /\ 1 \in Field
  BY FieldRing
<1>6. u \in [DOMAIN d -> Field]
  BY <1>5
<1>7. \A a \in DOMAIN d : inv(a) \in Field
  <2> SUFFICES ASSUME NEW a \in DOMAIN d PROVE inv(a) \in Field
    OBVIOUS
  <2>1. y[a] \in Field
    BY <1>2
  <2>2. QED
    BY <1>5, <2>1, InverseInField DEF InverseOrZero
<1> HIDE DEF inv
<1>8. z \in [DOMAIN d -> Field]
  BY <1>7
<1>9. p \in [DOMAIN d -> Field]
  <2>1. \A a \in DOMAIN d : FMul(y[a], inv(a)) \in Field
    BY <1>2, <1>7, FieldRing
  <2>2. QED
    BY <2>1 DEF FMul
<1>10. \A a \in DOMAIN d :
          /\ z[a] = IF y[a] = 0 THEN 0 ELSE InvOf(y[a])
          /\ p[a] = (y[a] * z[a]) % P
          /\ u[a] = IF y[a] = 0 THEN 1 ELSE 0
  BY DEF inv, InverseOrZero
<1>11. DOMAIN u = DOMAIN d
  OBVIOUS
<1> HIDE DEF u, z, p, e, w
<1>12. /\ w.u = u /\ w.y = y /\ w.z = z /\ w.w = p /\ w.d = e
  BY <1>4
<1>13. w \in Assignments(DOMAIN d)
  BY <1>2, <1>3, <1>4, <1>6, <1>8, <1>9 DEF Assignments, e
<1>14. HonestAdvice(w, d)
  BY <1>10, <1>12 DEF HonestAdvice
<1>15. QED
  BY <1>1, <1>10, <1>11, <1>12, <1>13, <1>14 DEF y, e

\* The parts of the proof for a window applied to a state.
HasParts(proof, s, d, label) ==
    LET v == Witness(s.poly, d)
        dValue == DValue(Evaluations(s.poly, d), d)
        cD == CommitBalance(dValue, SetToBag({proof.rD}))
        statement == Statement(v.u, Opening[s.poly][d].jY, cD, d)
    IN /\ proof.oldLabel = s.label /\ proof.newLabel = label
       /\ proof.cU = v.u /\ proof.cY = Opening[s.poly][d].jY
       /\ proof.opening = Opening[s.poly][d].quotient
       /\ proof.dValue = dValue /\ proof.cD = cD
       /\ proof.gates = 4 * Cardinality(DOMAIN d)
       /\ proof.logic.commitments = v
       /\ proof.logic.r1cs = [opens |-> v, statement |-> statement]
       /\ proof.logic.link = [opens |-> v, statement |-> statement]

\* UpdateProof has them.
LEMMA ProofParts ==
    ASSUME NEW s, NEW d, NEW label
    PROVE  HasParts(UpdateProof(s, d, label), s, d, label)
<1> DEFINE dValue == DValue(Evaluations(s.poly, d), d)
           rD == <<label, dValue>>
           cD == CommitBalance(dValue, SetToBag({rD}))
           v == Witness(s.poly, d)
           opening == Opening[s.poly][d]
           statement == Statement(v.u, opening.jY, cD, d)
           logic == LogicProof(v, statement)
           proof == ProofFrom(s, d, label, v, opening, dValue, rD, cD)
<1>1. UpdateProof(s, d, label) = proof
  BY DEF UpdateProof
<1>2. cD = CommitBalance(dValue, SetToBag({rD}))
  OBVIOUS
<1>3. statement = Statement(v.u, opening.jY, cD, d)
  OBVIOUS
<1> HIDE DEF dValue, rD, cD, v, opening, statement
<1>4. /\ logic.commitments = v
      /\ logic.r1cs = [opens |-> v, statement |-> statement]
      /\ logic.link = [opens |-> v, statement |-> statement]
  BY DEF LogicProof, LinkProof
<1>5. logic = LogicProof(v, Statement(v.u, opening.jY, cD, d))
  BY <1>3
<1> HIDE DEF logic
<1>6. /\ proof.oldLabel = s.label /\ proof.newLabel = label
      /\ proof.cU = v.u /\ proof.cY = opening.jY
      /\ proof.opening = opening.quotient
      /\ proof.dValue = dValue /\ proof.cD = cD /\ proof.rD = rD
      /\ proof.gates = 4 * Cardinality(DOMAIN d)
      /\ proof.logic = logic
  BY <1>5 DEF ProofFrom
<1> HIDE DEF proof
<1>7. QED
  BY <1>1, <1>2, <1>3, <1>4, <1>6 DEF HasParts, dValue, v, opening

\* An update that was made has an exact opening.
LEMMA MadeOpens ==
    ASSUME NEW x, NEW label, NEW srs, Made(x, label, srs)
    PROVE  /\ Opening[x.old.poly][x.window].ok
           /\ Opens(x.old.poly, x.window, srs)
           /\ HasParts(x.proof, x.old, x.window, label)
<1>1. Opening[x.old.poly][x.window].ok /\ Opens(x.old.poly, x.window, srs)
  BY DEF Made, Applies, Opens, OpensWith
<1>2. x.proof = UpdateProof(x.old, x.window, label)
  BY DEF Made
<1>3. HasParts(UpdateProof(x.old, x.window, label), x.old, x.window, label)
  BY ProofParts
<1>4. QED
  BY <1>1, <1>2, <1>3

-----------------------------------------------------------------------------
(* What verification means *)

\* A proof that verifies is about the window it is verified with, and about
\* an accumulator with the values of the one it was made for.
LEMMA VerifiedMatches ==
    ASSUME NEW x, Honest(x), NEW srs, NEW old, old.poly \in Polynomials, NEW d \in Windows, NEW new,
           VerifyUpdate(srs, old, d, new, x.proof)
    PROVE  /\ d = x.window
           /\ Owed(old, d) = Owed(x.old, d)
<1>1. PICK label, made : Made(x, label, made)
  BY DEF Honest
<1> DEFINE proof == x.proof
           v == Witness(x.old.poly, x.window)
           o == Opening[x.old.poly][x.window]
           c == CommitBalance(DValue(Evaluations(x.old.poly, x.window), x.window),
                              SetToBag({proof.rD}))
<1>2. HasParts(proof, x.old, x.window, label)
  BY <1>1, MadeOpens
<1>3. /\ proof.cY = o.jY /\ proof.opening = o.quotient
      /\ proof.logic.commitments = v
      /\ proof.logic.r1cs = [opens |-> v, statement |-> Statement(v.u, o.jY, c, x.window)]
  BY <1>2 DEF HasParts
<1>4. x.old.poly \in Polynomials /\ x.window \in Windows
  BY DEF Honest
<1>5. o.ok
  BY <1>1, MadeOpens
<1>6. LogicVerifies(srs, d, proof) /\ BatchVerifies(old.poly, d, proof)
  BY DEF VerifyUpdate
<1>7. d = x.window
  <2>1. proof.logic.r1cs = [opens |-> v, statement |-> Statement(proof.cU, proof.cY, proof.cD, d)]
    BY <1>3, <1>6 DEF LogicVerifies
  <2> HIDE DEF v, o, c, proof
  <2>2. Statement(proof.cU, proof.cY, proof.cD, d) = Statement(v.u, o.jY, c, x.window)
    BY <1>3, <2>1
  <2>3. QED
    BY <2>2 DEF Statement
<1>8. PolySub(old.poly, o.jY) = PolySub(x.old.poly, o.jY)
  <2>1. PolySub(old.poly, o.jY) = PolyMul(o.quotient, Context[d].zPoly)
    BY <1>3, <1>6 DEF BatchVerifies
  <2>2. PolyMul(o.quotient, Context[x.window].zPoly) = PolySub(x.old.poly, o.jY)
    BY <1>4, <1>5, OpeningIsExact
  <2>3. QED
    BY <1>7, <2>1, <2>2
<1>9. \A p \in Field : PolyEval(old.poly, p) = PolyEval(x.old.poly, p)
  <2>1. o.jY \in Coeffs
    BY <1>4, <1>5, OpeningIsExact
  <2>2. old.poly \in Coeffs /\ x.old.poly \in Coeffs
    BY <1>4, PolynomialsType
  <2> HIDE DEF o
  <2>3. QED
    BY <1>8, <2>1, <2>2, SameDifference
<1>10. {b \in DOMAIN d : PolyEval(old.poly, Encode[b]) = 0}
         = {b \in DOMAIN d : PolyEval(x.old.poly, Encode[b]) = 0}
  <2>1. \A b \in DOMAIN d : Encode[b] \in Field
    BY ListAssumption, EncodeAssumption
  <2>2. QED
    BY <1>9, <2>1
<1>11. Owed(old, d) = Owed(x.old, d)
  BY <1>10 DEF Owed
<1>12. QED
  BY <1>7, <1>11

\* The relation makes the committed delta the residue of what the window owes.
LEMMA RelationMeansOwed ==
    ASSUME NEW s, s.poly \in Polynomials, NEW d \in Windows, UpdateRelation(Witness(s.poly, d), d)
    PROVE  DValue(Evaluations(s.poly, d), d) % P = Owed(s, d) % P
<1> DEFINE v == Witness(s.poly, d)
           y == Evaluations(s.poly, d)
<1>1. v \in Assignments(DOMAIN d) /\ v.y = y /\ v.d = DValue(y, d) % P
  BY WitnessFacts
<1>2. DOMAIN d \in SUBSET Address /\ d \in [DOMAIN d -> Int]
  BY ListAssumption
<1>3. UpdateRelation(v, d)
  OBVIOUS
<1>4. Total(OrZero(RootDeltas(y, d))) = Owed(s, d)
  BY OwedIsRootSum
<1> HIDE DEF v, y
<1>5. MembershipRelation(v, d)
  BY <1>1, <1>2, <1>3, RelationSound
<1>6. v.d = Total(OrZero(RootDeltas(v.y, d))) % P
  BY <1>5 DEF MembershipRelation
<1>7. QED
  BY <1>1, <1>4, <1>6 DEF v, y

\* What is added to a commitment, and to a total, when a proof verifies.
WindowMoved(old, d, new) ==
    /\ new.poly = old.poly
    /\ new.total = Wrap(old.total + Owed(old, d))
    /\ new.commitment.value = (old.commitment.value + Owed(old, d)) % P

\* Two states between which an honest proof verifies, though it may have been made for
\* others, are apart by what the window owes.
LEMMA VerifiedMoves ==
    ASSUME NEW x, Honest(x), NEW srs, NEW old, old.poly \in Polynomials, old.total \in Int, old.commitment.value \in Field,
           NEW d \in Windows, NEW new, VerifyUpdate(srs, old, d, new, x.proof)
    PROVE  WindowMoved(old, d, new)
<1> DEFINE dValue == DValue(Evaluations(x.old.poly, x.window), x.window)
           owed == Owed(old, d)
<1>1. d = x.window /\ owed = Owed(x.old, d) /\ x.old.poly \in Polynomials
  BY VerifiedMatches DEF Honest
<1>2. PICK label, made : Made(x, label, made)
  BY DEF Honest
<1>3. HasParts(x.proof, x.old, x.window, label)
  BY <1>2, MadeOpens
<1>4. /\ x.proof.dValue = dValue
      /\ x.proof.cD = CommitBalance(dValue, SetToBag({x.proof.rD}))
      /\ x.proof.logic.commitments = Witness(x.old.poly, x.window)
  BY <1>3 DEF HasParts
<1>5. dValue = Wrap(owed) /\ owed \in Int
  <2>1. DValue(Evaluations(x.old.poly, d), d) = Wrap(Owed(x.old, d)) /\ Owed(x.old, d) \in Int
    BY <1>1, OwedIsRootSum
  <2>2. QED
    BY <1>1, <2>1
<1>6. dValue % P = owed % P
  <2>1. UpdateRelation(Witness(x.old.poly, d), d)
    BY <1>1, <1>4 DEF VerifyUpdate, LogicVerifies
  <2>2. DValue(Evaluations(x.old.poly, d), d) % P = Owed(x.old, d) % P
    BY <1>1, <2>1, RelationMeansOwed
  <2>3. QED
    BY <1>1, <2>2
<1> HIDE DEF dValue, owed
<1>7. old.total \in Int /\ old.commitment.value \in Int
  BY FieldIsInt
<1>8. new.total = Wrap(old.total + owed)
  <2>1. new.total = Wrap(old.total + Wrap(owed))
    BY <1>4, <1>5 DEF VerifyUpdate
  <2>2. Wrap(owed) \in Int
    BY <1>5, WrapType
  <2>3. old.total + Wrap(owed) = Wrap(owed) + old.total /\ owed + old.total = old.total + owed
    BY <1>5, <1>7, <2>2
  <2>4. Wrap(Wrap(owed) + old.total) = Wrap(owed + old.total)
    BY <1>5, <1>7, WrapAdds
  <2>5. QED
    BY <2>1, <2>3, <2>4
<1>9. new.commitment.value = (old.commitment.value + owed) % P
  <2>1. x.proof.cD.value = owed % P
    BY <1>4, <1>6 DEF CommitBalance
  <2>2. new.commitment.value = (old.commitment.value + (owed % P)) % P
    BY <2>1 DEF VerifyUpdate, AddCommitments
  <2>3. owed % P \in Int
    BY <1>5, ResidueInField, FieldIsInt
  <2> DEFINE c == old.commitment.value
             e == owed % P
  <2>4. c \in Int /\ e \in Int
    BY <1>7, <2>3
  <2>5. (e + c) % P = (owed + c) % P
    BY <1>5, <1>7, ReduceFirst
  <2> HIDE DEF c, e
  <2>6. c + e = e + c /\ c + owed = owed + c
    BY <1>5, <2>4
  <2>7. (c + e) % P = (c + owed) % P
    BY <2>5, <2>6
  <2>8. QED
    BY <2>2, <2>7 DEF c, e
<1>10. new.poly = old.poly
  BY DEF VerifyUpdate
<1>11. QED
  BY <1>8, <1>9, <1>10 DEF owed, WindowMoved

-----------------------------------------------------------------------------
(* Updates that were made verify *)

\* The values that the verifier lists are the ones that were interpolated.
LEMMA ListedValues ==
    ASSUME NEW s, s.poly \in Polynomials, NEW d \in Windows, DOMAIN d # {}
    PROVE  LET v == Witness(s.poly, d)
               order == InOrder(DOMAIN d)
           IN [i \in DOMAIN order |-> v.y[order[i]]] = Values[s.poly][d]
<1> DEFINE f == s.poly
           v == Witness(f, d)
           order == InOrder(DOMAIN d)
           n == Cardinality(DOMAIN d)
<1>1. v.y = [a \in DOMAIN d |-> PolyEval(f, Encode[a])]
  BY WitnessFacts, EvaluationsArePointwise
<1>2. Values[f][d] = [i \in 1..n |-> PolyEval(f, Encode[order[i]])]
  BY ValuesArePointwise
<1>3. DOMAIN d \in SUBSET Address
  BY ListAssumption
<1>4. DOMAIN order = 1..n /\ \A i \in 1..n : order[i] \in DOMAIN d
  BY <1>3, InOrderLists
<1> HIDE DEF f, v, order, n
<1>5. \A i \in 1..n : v.y[order[i]] = PolyEval(f, Encode[order[i]])
  BY <1>1, <1>4
<1>6. [i \in 1..n |-> v.y[order[i]]] = Values[f][d]
  BY <1>2, <1>5
<1>7. [i \in DOMAIN order |-> v.y[order[i]]] = Values[f][d]
  BY <1>4, <1>6
<1>8. QED
  BY <1>7 DEF f, v, order

\* The relation holds of the witness when the sum of the roots' deltas is an
\* i128.
LEMMA WitnessSatisfies ==
    ASSUME NEW s, s.poly \in Polynomials, NEW d \in Windows, InI128(Owed(s, d))
    PROVE  UpdateRelation(Witness(s.poly, d), d)
<1> DEFINE v == Witness(s.poly, d)
           y == Evaluations(s.poly, d)
<1>1. /\ v \in Assignments(DOMAIN d) /\ v.y = y /\ v.d = DValue(y, d) % P
      /\ \A a \in DOMAIN d : v.u[a] = IF v.y[a] = 0 THEN 1 ELSE 0
      /\ HonestAdvice(v, d)
  BY WitnessFacts
<1>2. DOMAIN d \in SUBSET Address /\ d \in [DOMAIN d -> Int]
  BY ListAssumption
<1>3. /\ Total(OrZero(RootDeltas(y, d))) = Owed(s, d) /\ Owed(s, d) \in Int
      /\ DValue(y, d) = Wrap(Owed(s, d))
  BY OwedIsRootSum
<1> HIDE DEF v, y
<1>4. DValue(y, d) = Total(OrZero(RootDeltas(v.y, d)))
  BY <1>1, <1>3, WrapInRange
<1>5. MembershipRelation(v, d)
  BY <1>1, <1>4 DEF MembershipRelation
<1>6. UpdateRelation(v, d)
  BY <1>1, <1>2, <1>5, RelationComplete
<1>7. QED
  BY <1>6 DEF v

\* An SRS in memory with the powers for polynomials of n + 1 coefficients.
Suffices(srs, n) ==
    /\ srs.degree \in Nat /\ srs.g1 \in Nat /\ srs.g2 \in Nat
    /\ Stored(srs)
    /\ n + 1 <= srs.g1 /\ n + 1 <= srs.g2

\* They can be committed to.
LEMMA SufficientCommits ==
    ASSUME NEW n \in Nat, NEW srs, Suffices(srs, n), NEW f \in Coeffs, Len(f) <= n + 1
    PROVE  Commits(f, srs, srs.g1) = "ok" /\ Commits(f, srs, srs.g2) = "ok"
<1>1. Len(f) \in Nat
  BY DEF Coeffs
<1>2. Degree(f) = 0 \/ Degree(f) = Len(f) - 1
  BY DEF Degree
<1>3. ~(Degree(f) > srs.degree)
  BY <1>1, <1>2 DEF Suffices, Stored
<1>4. ~(Len(f) > srs.g1) /\ ~(Len(f) > srs.g2)
  BY <1>1 DEF Suffices
<1>5. QED
  BY <1>3, <1>4 DEF Commits

\* The whole SRS suffices for what is within its degree.
LEMMA WholeSuffices ==
    ASSUME NEW m \in Nat, NEW n \in Nat, n <= m PROVE Suffices(WholeSrs(m), n)
<1>1. WholeSrs(m).degree = m /\ WholeSrs(m).g1 = m + 1 /\ WholeSrs(m).g2 = m + 1
  BY DEF WholeSrs
<1>2. QED
  BY <1>1 DEF Suffices, Stored

\* The prefix that the verifier loads suffices for a window that was applied.
LEMMA PrefixSufficesToVerify ==
    ASSUME NEW s, s.poly \in Polynomials, s.degree \in Nat, NEW d \in Windows, NEW srs,
           Applies(s, d, srs)
    PROVE  Suffices(PrefixForVerify(s.degree, d), Cardinality(DOMAIN d))
<1> DEFINE n == Cardinality(DOMAIN d)
           z == Context[d].zPoly
           short == PrefixForVerify(s.degree, d)
<1>1. z # <<>> /\ n \in Nat /\ Len(z) = n + 1
  BY WindowProduct
<1>2. Commits(z, srs, srs.g2) = "ok" /\ s.degree = srs.degree
  BY DEF Applies, Opens, OpensWith
<1>3. short.degree = s.degree /\ short.g1 = n + 1 /\ short.g2 = n + 1
  BY DEF PrefixForVerify
<1> HIDE DEF n, z, short
<1>4. Degree(z) = n
  BY <1>1 DEF Degree
<1>5. ~(n > s.degree)
  BY <1>2, <1>4 DEF Commits
<1>6. Suffices(short, n)
  BY <1>1, <1>3, <1>5 DEF Suffices, Stored
<1>7. QED
  BY <1>6 DEF short, n

\* An update verifies when what it owes is an i128.
LEMMA MadeIsAccepted ==
    ASSUME NEW x, Honest(x), InI128(Owed(x.old, x.window)),
           NEW short, Suffices(short, Cardinality(DOMAIN x.window))
    PROVE  VerifyUpdate(short, x.old, x.window, x.new, x.proof)
<1> DEFINE old == x.old
           d == x.window
           proof == x.proof
           f == x.old.poly
           v == Witness(old.poly, d)
           o == Opening[old.poly][d]
           z == Context[d].zPoly
           n == Cardinality(DOMAIN d)
           dValue == DValue(Evaluations(old.poly, d), d)
           cD == CommitBalance(dValue, SetToBag({proof.rD}))
<1>1. d \in Windows /\ old.poly \in Polynomials
  BY DEF Honest
<1>2. PICK label, srs : Made(x, label, srs)
  BY DEF Honest
<1>3. o.ok /\ Opens(old.poly, d, srs) /\ HasParts(proof, old, d, label)
  BY <1>2, MadeOpens
<1>4. /\ proof.oldLabel = old.label /\ proof.newLabel = label
      /\ proof.cU = v.u /\ proof.cY = o.jY /\ proof.opening = o.quotient
      /\ proof.dValue = dValue /\ proof.cD = cD /\ proof.gates = 4 * n
      /\ proof.logic.commitments = v
      /\ proof.logic.r1cs = [opens |-> v, statement |-> Statement(v.u, o.jY, cD, d)]
      /\ proof.logic.link = [opens |-> v, statement |-> Statement(v.u, o.jY, cD, d)]
  BY <1>3 DEF HasParts
<1>5. /\ Applies(old, d, srs) /\ x.new = NextState(old, proof)
  BY <1>2 DEF Made
<1>6. /\ DOMAIN d # {} /\ Interpolates(Values[old.poly][d], Context[d])
      /\ o.jY = BlindedOpening(Values[old.poly][d], Context[d])
      /\ o.jY \in Coeffs /\ Len(o.jY) <= n + 1
      /\ PolyMul(o.quotient, z) = PolySub(old.poly, o.jY)
  BY <1>1, <1>3, OpeningIsExact
<1>7. z \in Coeffs /\ z # <<>> /\ n \in Nat /\ Len(z) = n + 1
  BY <1>1, WindowProduct
<1>8. /\ Commits(o.jY, srs, srs.g1) = "ok" /\ Commits(z, srs, srs.g2) = "ok"
      /\ IsInjective(Points(d))
  BY <1>3 DEF Opens, OpensWith
<1>9. /\ x.new.label = label /\ x.new.poly = old.poly
      /\ x.new.total = Wrap(old.total + dValue)
      /\ x.new.blind = old.blind (+) SetToBag({proof.rD})
      /\ x.new.commitment = AddCommitments(old.commitment, cD)
  <2> HIDE DEF old, proof, dValue, cD
  <2>1. QED
    BY <1>4, <1>5 DEF NextState
<1>10. OverflowPanics => InI128(old.total + dValue)
  BY <1>5 DEF Applies
<1>11. UpdateRelation(v, d)
  BY <1>1, WitnessSatisfies
<1>12. [i \in DOMAIN InOrder(DOMAIN d) |-> v.y[InOrder(DOMAIN d)[i]]] = Values[old.poly][d]
  BY <1>1, <1>6, ListedValues
<1>13. DOMAIN v.u = DOMAIN d /\ v.d = dValue % P
  BY <1>1, WitnessFacts
<1>14. Suffices(short, n)
  OBVIOUS
<1> HIDE DEF old, d, proof, v, o, z, n, dValue, cD
<1>15. Commits(o.jY, short, short.g1) = "ok"
  BY <1>6, <1>7, <1>14, SufficientCommits
<1>16. Commits(z, short, short.g2) = "ok" /\ Stored(short)
  <2>1. Len(z) <= n + 1
    BY <1>7
  <2>2. QED
    BY <1>7, <1>14, <2>1, SufficientCommits DEF Suffices
<1>17. LinkVerifies(short, d, proof)
  <2>1. v.d = cD.value
    BY <1>13 DEF CommitBalance, cD
  <2>2. QED
    BY <1>4, <1>6, <1>12, <1>15, <2>1 DEF LinkVerifies
<1>18. LogicVerifies(short, d, proof)
  BY <1>4, <1>11, <1>13, <1>17 DEF LogicVerifies
<1>19. BatchVerifies(old.poly, d, proof)
  BY <1>4, <1>6 DEF BatchVerifies, z
<1>20. VerifyUpdate(short, old, d, x.new, proof)
  BY <1>4, <1>8, <1>9, <1>10, <1>16, <1>18, <1>19 DEF VerifyUpdate, n, z
<1>21. QED
  BY <1>20 DEF old, d, proof

-----------------------------------------------------------------------------
(* Which windows open *)

\* A window of one address or more opens every polynomial of a state, and the
\* quotient is no longer than the polynomial or the window.
LEMMA NonemptyWindowOpens ==
    ASSUME NEW f \in Polynomials, NEW d \in Windows, DOMAIN d # {},
           NEW k \in Nat, Len(f) <= k + 1, Cardinality(DOMAIN d) <= k
    PROVE  LET o == Opening[f][d]
           IN /\ o.ok
              /\ o.jY \in Coeffs /\ Len(o.jY) <= k + 1
              /\ o.quotient \in Coeffs /\ Len(o.quotient) <= k + 1
<1> DEFINE o == Opening[f][d]
           n == Cardinality(DOMAIN d)
           xs == Points(d)
           ys == Values[f][d]
           ctx == Context[d]
           z == Context[d].zPoly
           basis == Context[d].basis
           l == LinearCombination(ys, basis)
           b == PolyScale(z, Rho)
           j == BlindedOpening(ys, ctx)
           g == PolySub(f, j)
           div == PolyDivRem(g, z)
<1>1. DOMAIN d \subseteq Address
  BY ListAssumption
<1>2. /\ xs \in Coeffs /\ xs # <<>> /\ Len(xs) = n /\ n \in Nat /\ IsInjective(xs)
      /\ \A i \in 1..n : xs[i] = Encode[InOrder(DOMAIN d)[i]]
  BY <1>1, PointsOfWindow
<1>3. ctx.distinct = LagrangeDefined(xs) /\ basis = LagrangeBasis(xs) /\ z = ProductFromRoots(xs)
  BY DEF Context
<1>4. /\ ys \in Coeffs /\ Len(ys) = n
      /\ \A i \in 1..n : ys[i] = PolyEval(f, Encode[InOrder(DOMAIN d)[i]])
  BY ValuesArePointwise
<1>5. f \in Polys /\ f \in Coeffs
  BY PolynomialsType
<1>6. /\ z \in Polys /\ z \in Coeffs /\ z # <<>> /\ Len(z) = n + 1
      /\ \A i \in 1..n : PolyEval(z, xs[i]) = 0
  BY <1>2, <1>3, ProductVanishes DEF Polys
<1>7. o = OpenAt(f, ys, ctx)
  BY DEF Opening
<1>8. j = PolyAdd(l, b) /\ l = Interpolate(xs, ys)
  BY <1>3 DEF BlindedOpening, Interpolate
<1>9. Len(basis) = n /\ LagrangeDefined(xs)
  <2>1. LagrangeDefined(xs)
    BY <1>2, DefinedIsDistinct
  <2>2. QED
    BY <1>2, <1>3, <2>1, LagrangeBasisType
<1>10. Interpolates(ys, ctx)
  BY <1>3, <1>4, <1>9 DEF Interpolates
<1>11. o = Divided(j, div)
  BY <1>7, <1>10 DEF OpenAt
<1> HIDE DEF o, n, xs, ys, ctx, z, basis, l, b, j, g, div
<1>12. l \in Coeffs /\ Len(l) <= n /\ \A i \in 1..n : PolyEval(l, xs[i]) = ys[i]
  <2>1. Len(ys) = Len(xs)
    BY <1>2, <1>4
  <2>2. /\ Interpolate(xs, ys) \in Coeffs
        /\ Len(Interpolate(xs, ys)) <= Len(xs)
        /\ \A i \in 1..Len(xs) : PolyEval(Interpolate(xs, ys), xs[i]) = ys[i]
    BY <1>2, <1>4, <2>1, InterpolationIsExact
  <2>3. QED
    BY <1>2, <1>8, <2>2
<1>13. Rho \in Field
  BY ScalarAssumption
<1>14. b \in Coeffs /\ Len(b) <= n + 1
  <2>1. Len(b) <= Len(z) /\ b \in Coeffs
    BY <1>6, <1>13, PolyScaleCoeffs DEF b
  <2>2. QED
    BY <1>6, <2>1
<1>15. j \in Coeffs /\ Len(j) <= n + 1
  <2>1. LongerLen(l, b) \in Nat /\ Len(j) <= LongerLen(l, b) /\ j \in Coeffs
    BY <1>8, <1>12, <1>14, PolyAddCoeffs
  <2>2. LongerLen(l, b) = Len(l) \/ LongerLen(l, b) = Len(b)
    BY DEF LongerLen
  <2>3. Len(l) \in Nat /\ Len(b) \in Nat /\ Len(j) \in Nat
    BY <1>12, <1>14, <2>1 DEF Coeffs
  <2>4. QED
    BY <1>2, <1>12, <1>14, <2>1, <2>2, <2>3
<1>16. g \in Polys /\ g \in Coeffs
  BY <1>5, <1>15, PolyEvalSub DEF g
<1>17. ASSUME NEW i \in 1..n PROVE PolyEval(g, xs[i]) = 0
  <2> DEFINE x == xs[i]
             y == ys[i]
  <2>1. x \in Field /\ y \in Field
    BY <1>2, <1>4 DEF Coeffs
  <2>2. PolyEval(f, x) = y /\ PolyEval(l, x) = y /\ PolyEval(z, x) = 0
    BY <1>2, <1>4, <1>6, <1>12
  <2> HIDE DEF x, y
  <2>3. PolyEval(b, x) = FMul(Rho, 0)
    BY <1>6, <1>13, <2>1, <2>2, PolyEvalScale DEF b
  <2>4. PolyEval(j, x) = FAdd(y, FMul(Rho, 0))
    BY <1>8, <1>12, <1>14, <2>1, <2>2, <2>3, PolyEvalAdd
  <2>5. FMul(Rho, 0) = 0 /\ FAdd(y, 0) = y
    BY <1>13, <2>1, FieldRing
  <2>6. PolyEval(g, x) = FAdd(y, FMul(P - 1, y))
    BY <1>5, <1>15, <2>1, <2>2, <2>4, <2>5, PolyEvalSub DEF g
  <2>7. FAdd(y, FMul(P - 1, y)) = 0
    BY <2>1, MinusOne
  <2>8. QED
    BY <2>6, <2>7 DEF x
<1>18. div.r = <<>>
  BY <1>2, <1>3, <1>16, <1>17, VanishingDivides DEF DividesExactly, div
<1>19. o.ok /\ o.jY = j /\ o.quotient = div.q
  <2>1. o.ok = (div.r = <<>>)
    BY <1>11, Zenon DEF Divided
  <2>2. o.jY = j /\ o.quotient = div.q
    BY <1>11 DEF Divided
  <2>3. QED
    BY <1>18, <2>1, <2>2
<1>20. Len(g) <= k + 1
  <2> DEFINE m == PolyScale(j, P - 1)
  <2>1. m \in Coeffs /\ Len(m) <= Len(j)
    BY <1>15, MinusOne, PolyScaleCoeffs
  <2>2. g = PolyAdd(f, m)
    BY DEF g, PolySub
  <2> HIDE DEF m
  <2>3. LongerLen(f, m) \in Nat /\ Len(g) <= LongerLen(f, m)
    BY <1>5, <2>1, <2>2, PolyAddCoeffs
  <2>4. LongerLen(f, m) = Len(f) \/ LongerLen(f, m) = Len(m)
    BY DEF LongerLen
  <2>5. Len(f) \in Nat /\ Len(m) \in Nat /\ Len(j) \in Nat /\ Len(g) \in Nat
    BY <1>5, <1>15, <1>16, <2>1 DEF Coeffs
  <2>6. n <= k
    BY DEF n
  <2>7. QED
    BY <1>2, <1>15, <2>1, <2>3, <2>4, <2>5, <2>6
<1>21. div.q \in Coeffs /\ Len(div.q) <= k + 1
  <2>1. /\ div.q \in Coeffs
        /\ Len(div.q) = 0 \/ Len(div.q) <= Len(g) - Len(z) + 1
    BY <1>6, <1>16, DivisionIsExact DEF div, IsQuotient, Polys
  <2>2. Len(div.q) \in Nat /\ Len(g) \in Nat
    BY <1>16, <2>1 DEF Coeffs
  <2>3. QED
    BY <1>2, <1>6, <1>20, <2>1, <2>2
<1>22. Len(j) <= k + 1
  <2>1. n <= k /\ Len(j) \in Nat
    BY <1>15 DEF n, Coeffs
  <2>2. QED
    BY <1>2, <1>15, <2>1
<1>23. QED
  BY <1>15, <1>19, <1>21, <1>22 DEF o

\* A window within the degree of the SRS can be applied to a polynomial that the
\* SRS has the powers for, unless it is empty.
LEMMA WindowOpens ==
    ASSUME NEW m \in Nat, NEW f \in Polynomials, Len(f) <= m + 1,
           NEW d \in Windows, Cardinality(DOMAIN d) <= m
    PROVE  Opens(f, d, WholeSrs(m)) <=> DOMAIN d # {}
<1> DEFINE srs == WholeSrs(m)
           o == Opening[f][d]
           z == Context[d].zPoly
<1>1. Opens(f, d, srs) <=> /\ IsInjective(Points(d))
                           /\ o.ok
                           /\ Commits(o.jY, srs, srs.g1) = "ok"
                           /\ Commits(o.quotient, srs, srs.g1) = "ok"
                           /\ Commits(z, srs, srs.g2) = "ok"
  BY DEF Opens, OpensWith
<1>2. DOMAIN d = {} => ~o.ok
  BY EmptyWindowDoesNotOpen
<1>3. ASSUME DOMAIN d # {}
      PROVE  /\ o.ok
             /\ o.jY \in Coeffs /\ Len(o.jY) <= m + 1
             /\ o.quotient \in Coeffs /\ Len(o.quotient) <= m + 1
  BY <1>3, NonemptyWindowOpens
<1>4. IsInjective(Points(d))
  <2>1. DOMAIN d \subseteq Address
    BY ListAssumption
  <2>2. QED
    BY <2>1, PointsOfWindow
<1>5. z \in Coeffs /\ Len(z) <= m + 1
  <2>1. z \in Coeffs /\ Cardinality(DOMAIN d) \in Nat /\ Len(z) = Cardinality(DOMAIN d) + 1
    BY WindowProduct
  <2>2. QED
    BY <2>1
<1>6. Suffices(srs, m)
  BY WholeSuffices
<1> HIDE DEF o, z, srs
<1>7. Commits(z, srs, srs.g2) = "ok"
  BY <1>5, <1>6, SufficientCommits
<1>8. ASSUME DOMAIN d # {}
      PROVE  Commits(o.jY, srs, srs.g1) = "ok" /\ Commits(o.quotient, srs, srs.g1) = "ok"
  BY <1>3, <1>6, <1>8, SufficientCommits
<1>9. Opens(f, d, srs) <=> DOMAIN d # {}
  BY <1>1, <1>2, <1>3, <1>4, <1>7, <1>8
<1>10. QED
  BY <1>9 DEF srs

-----------------------------------------------------------------------------
(* The reserves are the roots *)

\* The polynomial of a reserve list, with a coefficient for each of its addresses
\* and one more.
ReservePoly(r) == PolyScale(ProductFromRoots(Points(r)), Alpha)

\* It is a polynomial of degree at most the number of accounts.
LEMMA ReservePolyType ==
    ASSUME NEW r \in Reserves
    PROVE  /\ ReservePoly(r) \in Polynomials
           /\ Cardinality(DOMAIN r) \in Nat
           /\ Len(ReservePoly(r)) <= Cardinality(DOMAIN r) + 1
<1>1. DOMAIN r \subseteq Address
  BY ListAssumption
<1>2. Points(r) \in Coeffs /\ Len(Points(r)) = Cardinality(DOMAIN r) /\ Cardinality(DOMAIN r) \in Nat
  BY <1>1, PointsOfWindow
<1>3. ProductFromRoots(Points(r)) \in Coeffs /\ Len(ProductFromRoots(Points(r))) = Len(Points(r)) + 1
  BY <1>2, ProductVanishes DEF Polys
<1>4. Len(ReservePoly(r)) <= Len(ProductFromRoots(Points(r)))
  BY <1>3, ScalarAssumption, PolyScaleCoeffs DEF ReservePoly
<1>5. QED
  BY <1>2, <1>3, <1>4 DEF Polynomials, ReservePoly

\* It vanishes at the encodings of the reserve addresses and of no others: a root
\* besides them would be one more than the polynomial can have.
LEMMA RootsAreReserves ==
    ASSUME NEW r \in Reserves, NEW a \in Address
    PROVE  PolyEval(ReservePoly(r), Encode[a]) = 0 <=> a \in DOMAIN r
<1> DEFINE xs == Points(r)
           n == Cardinality(DOMAIN r)
           z == ProductFromRoots(xs)
           e == Encode[a]
           order == InOrder(DOMAIN r)
<1>1. DOMAIN r \in SUBSET Address
  BY ListAssumption
<1>2. /\ xs \in Coeffs /\ Len(xs) = n /\ n \in Nat /\ IsInjective(xs) /\ DOMAIN xs = 1..n
      /\ \A i \in 1..n : xs[i] = Encode[order[i]]
  BY <1>1, PointsOfWindow
<1>3. /\ \A i \in 1..n : order[i] \in DOMAIN r
      /\ \A b \in DOMAIN r : \E i \in 1..n : order[i] = b
  BY <1>1, InOrderLists
<1>4. /\ z \in Polys /\ z \in Coeffs /\ z # <<>> /\ Len(z) = n + 1
      /\ \A i \in 1..n : PolyEval(z, xs[i]) = 0
  BY <1>2, ProductVanishes DEF Polys
<1>5. e \in Field /\ Alpha \in Field /\ Alpha # 0
  BY EncodeAssumption, ScalarAssumption
<1>6. ReservePoly(r) = PolyScale(z, Alpha)
  BY DEF ReservePoly
<1> HIDE DEF xs, n, z, order
<1>7. PolyEval(ReservePoly(r), e) = FMul(Alpha, PolyEval(z, e)) /\ PolyEval(z, e) \in Field
  BY <1>4, <1>5, <1>6, PolyEvalScale, PolyEvalType
<1>8. PolyEval(ReservePoly(r), e) = 0 <=> PolyEval(z, e) = 0
  <2> DEFINE v == PolyEval(z, e)
  <2>1. v \in Field
    BY <1>7
  <2> HIDE DEF v
  <2>2. FMul(Alpha, v) = 0 => v = 0
    BY <1>5, <2>1, NoZeroDivisors DEF FMul
  <2>3. FMul(Alpha, 0) = 0
    BY <1>5, FieldRing
  <2>4. QED
    BY <1>7, <2>2, <2>3 DEF v
<1>9. ASSUME a \in DOMAIN r PROVE PolyEval(z, e) = 0
  <2>1. PICK i \in 1..n : order[i] = a
    BY <1>3, <1>9
  <2>2. xs[i] = e
    BY <1>2, <2>1
  <2>3. QED
    BY <1>4, <2>2
<1>10. ASSUME a \notin DOMAIN r, PolyEval(z, e) = 0 PROVE FALSE
  <2> DEFINE ys == Append(xs, e)
  <2>1. /\ ys \in Seq(Field) /\ Len(ys) = n + 1 /\ ys[n + 1] = e
        /\ \A i \in 1..n : ys[i] = xs[i]
    BY <1>2, <1>5 DEF Coeffs
  <2>2. DOMAIN ys = 1..(n + 1) /\ ys \in Coeffs
    BY <2>1 DEF Coeffs
  <2> HIDE DEF ys
  <2>3. \A i \in 1..n : xs[i] # e
    <3> SUFFICES ASSUME NEW i \in 1..n, xs[i] = e PROVE FALSE
      OBVIOUS
    <3>1. order[i] \in DOMAIN r /\ order[i] \in Address
      BY <1>1, <1>3
    <3>2. Encode[order[i]] = Encode[a]
      BY <1>2
    <3>3. order[i] = a
      BY <3>1, <3>2, EncodeAssumption
    <3>4. QED
      BY <1>10, <3>1, <3>3
  <2>4. IsInjective(ys)
    <3> SUFFICES ASSUME NEW i \in 1..(n + 1), NEW j \in 1..(n + 1), ys[i] = ys[j] PROVE i = j
      BY <2>2 DEF IsInjective
    <3>1. CASE i \in 1..n /\ j \in 1..n
      BY <1>2, <2>1, <3>1 DEF IsInjective
    <3>2. CASE i \in 1..n /\ j = n + 1
      BY <2>1, <2>3, <3>2
    <3>3. CASE i = n + 1 /\ j \in 1..n
      BY <2>1, <2>3, <3>3
    <3>4. CASE i = n + 1 /\ j = n + 1
      BY <3>4
    <3>5. (i \in 1..n \/ i = n + 1) /\ (j \in 1..n \/ j = n + 1)
      BY <1>2
    <3>6. QED
      BY <3>1, <3>2, <3>3, <3>4, <3>5
  <2>5. \A i \in 1..Len(ys) : PolyEval(z, ys[i]) = 0
    <3> SUFFICES ASSUME NEW i \in 1..(n + 1) PROVE PolyEval(z, ys[i]) = 0
      BY <2>1
    <3>1. CASE i \in 1..n
      BY <1>4, <2>1, <3>1
    <3>2. CASE i = n + 1
      BY <1>10, <2>1, <3>2
    <3>3. QED
      BY <1>2, <3>1, <3>2
  <2>6. Len(z) <= Len(ys)
    BY <1>2, <1>4, <2>1
  <2>7. z = <<>>
    BY <1>4, <2>2, <2>4, <2>5, <2>6, RootCount
  <2>8. QED
    BY <1>4, <2>7
<1>11. PolyEval(ReservePoly(r), e) = 0 <=> a \in DOMAIN r
  BY <1>8, <1>9, <1>10
<1>12. QED
  BY <1>11 DEF e

\* So a window owes to a state of these reserves the deltas of theirs that it lists.
LEMMA OwedToReserves ==
    ASSUME NEW r \in Reserves, NEW s, s.poly = ReservePoly(r), NEW d \in Windows
    PROVE  Owed(s, d) = Total(OrZero([a \in DOMAIN d \cap DOMAIN r |-> d[a]]))
<1>1. DOMAIN d \subseteq Address
  BY ListAssumption
<1>2. {b \in DOMAIN d : PolyEval(s.poly, Encode[b]) = 0} = DOMAIN d \cap DOMAIN r
  BY <1>1, RootsAreReserves
<1>3. QED
  BY <1>2 DEF Owed

\* and those are what the update sums.
LEMMA RootDeltasOfReserves ==
    ASSUME NEW r \in Reserves, NEW d \in Windows
    PROVE  RootDeltas(Evaluations(ReservePoly(r), d), d) = [a \in DOMAIN d \cap DOMAIN r |-> d[a]]
<1> DEFINE f == ReservePoly(r)
           y == Evaluations(f, d)
<1>1. DOMAIN d \subseteq Address
  BY ListAssumption
<1>2. y = [a \in DOMAIN d |-> PolyEval(f, Encode[a])]
  BY ReservePolyType, EvaluationsArePointwise
<1>3. \A a \in DOMAIN d : PolyEval(f, Encode[a]) = 0 <=> a \in DOMAIN r
  BY <1>1, RootsAreReserves
<1> HIDE DEF f, y
<1>4. {b \in DOMAIN d : y[b] = 0} = DOMAIN d \cap DOMAIN r
  BY <1>2, <1>3
<1>5. QED
  BY <1>4 DEF RootDeltas, y, f

\* A window of some addresses, applied to a state of these reserves with the whole
\* SRS, goes through where the sums fit, is accepted by a verifier with the whole
\* SRS, and moves the total by the deltas of the reserves.
GoesThrough(m, s, d, label, owed) ==
    LET proof == UpdateProof(s, d, label)
        new == NextState(s, proof)
    IN /\ Applies(s, d, WholeSrs(m))
       /\ VerifyUpdate(WholeSrs(m), s, d, new, proof)
       /\ new.label = label /\ new.poly = s.poly /\ new.degree = s.degree
       /\ new.total = s.total + owed

\* A window with deltas applies to a state whose roots are the reserves, verifies, and
\* leads to the state that it names.
LEMMA WindowGoesThrough ==
    ASSUME NEW m \in Nat, NEW r \in Reserves, Cardinality(DOMAIN r) <= m,
           NEW s, s.poly = ReservePoly(r), s.degree = m, s.total \in Int,
           NEW d \in Windows, DOMAIN d # {}, Cardinality(DOMAIN d) <= m, NEW label,
           NEW owed, owed = Total(OrZero([a \in DOMAIN d \cap DOMAIN r |-> d[a]])),
           SumFits(OrZero([a \in DOMAIN d \cap DOMAIN r |-> d[a]])),
           InI128(owed), InI128(s.total + owed)
    PROVE  GoesThrough(m, s, d, label, owed)
<1> DEFINE srs == WholeSrs(m)
           y == Evaluations(s.poly, d)
           dValue == DValue(y, d)
           proof == UpdateProof(s, d, label)
           new == NextState(s, proof)
           x == [old |-> s, window |-> d, new |-> new, proof |-> proof]
<1>1. s.poly \in Polynomials /\ Len(s.poly) <= m + 1
  <2>1. Len(s.poly) \in Nat
    BY ReservePolyType, PolynomialsType DEF Coeffs
  <2>2. QED
    BY <2>1, ReservePolyType
<1>2. Owed(s, d) = owed /\ owed \in Int
  BY <1>1, OwedToReserves, OwedIsRootSum
<1>3. dValue = owed
  <2>1. dValue = Wrap(owed)
    BY <1>1, <1>2, OwedIsRootSum
  <2>2. QED
    BY <1>2, <2>1, WrapInRange
<1>4. SumFits(OrZero(RootDeltas(y, d)))
  BY RootDeltasOfReserves
<1>5. Opens(s.poly, d, srs)
  BY <1>1, WindowOpens
<1>6. srs.degree = m /\ Stored(srs) /\ Suffices(srs, Cardinality(DOMAIN d))
  <2>1. Cardinality(DOMAIN d) \in Nat
    BY WindowProduct
  <2>2. Suffices(srs, Cardinality(DOMAIN d))
    BY <2>1, WholeSuffices
  <2>3. QED
    BY <2>2 DEF Suffices, WholeSrs
<1>7. FieldsOK(proof, label) /\ proof.dValue = dValue
  BY UpdateProofFields, UpdateProofDelta
<1> HIDE DEF srs, y, dValue, proof
<1>8. Applies(s, d, srs)
  BY <1>3, <1>4, <1>5, <1>6 DEF Applies, dValue, y
<1>9. new.label = label /\ new.poly = s.poly /\ new.degree = s.degree /\ new.total = Wrap(s.total + owed)
  BY <1>3, <1>7 DEF NextState, FieldsOK
<1>10. new.total = s.total + owed
  BY <1>2, <1>9, WrapInRange
<1>11. x.old = s /\ x.window = d /\ x.new = new /\ x.proof = proof
  OBVIOUS
<1> HIDE DEF x
<1>12. Made(x, label, srs)
  BY <1>8, <1>11 DEF Made, proof
<1>13. Honest(x)
  BY <1>1, <1>11, <1>12 DEF Honest
<1> HIDE DEF new
<1>14. VerifyUpdate(srs, s, d, new, proof)
  <2>1. VerifyUpdate(srs, x.old, x.window, x.new, x.proof)
    BY <1>2, <1>6, <1>11, <1>13, MadeIsAccepted
  <2>2. QED
    BY <1>11, <2>1
<1>15. QED
  BY <1>8, <1>9, <1>10, <1>14 DEF GoesThrough, srs, proof, new
=============================================================================
