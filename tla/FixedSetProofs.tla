--------------------------- MODULE FixedSetProofs ---------------------------
(***************************************************************************)
(* Theorems about module FixedSet, for every prime field, encoding of      *)
(* addresses, SRS, reserve lists and windows.                              *)
(***************************************************************************)
EXTENDS FixedSet, FixedSetOpsProofs

-----------------------------------------------------------------------------
(* Type correctness *)

\* What TypeOK says of one state.
StateOK(s) == s.label \in Labels /\ Carries(s)

\* TypeOK, state by state and update by update.
LEMMA TypeOKParts ==
    TypeOK <=> /\ \A s \in states : StateOK(s)
               /\ \A x \in updates : x.window \in Windows /\ {x.old, x.new} \subseteq states
<1> QED BY DEF TypeOK, StateOK, Carries

\* What every application of a window does, whatever SRS it was given.
LEMMA ApplyUpdateStep ==
    ASSUME NEW s, NEW d \in Windows, NEW label, NEW srs, ApplyUpdate(s, d, label, srs)
    PROVE  LET proof == UpdateProof(s, d, label)
               new == NextState(s, proof)
           IN /\ states' = states \cup {new}
              /\ updates' = updates \cup
                    {[old |-> s, window |-> d, new |-> new, proof |-> proof]}
              /\ OverflowPanics => InI128(s.total + proof.dValue)
              /\ OverflowPanics => SumFits(OrZero(RootDeltas(Evaluations(s.poly, d), d)))
<1> DEFINE proof == UpdateProof(s, d, label)
           new == NextState(s, proof)
<1>1. /\ states' = states \cup {new}
      /\ updates' = updates \cup {[old |-> s, window |-> d, new |-> new, proof |-> proof]}
  BY DEF ApplyUpdate, Record
<1>2. Applies(s, d, srs)
  BY DEF ApplyUpdate
<1>3. proof.dValue = DValue(Evaluations(s.poly, d), d)
  BY UpdateProofDelta
<1> HIDE DEF proof, new
<1>4. OverflowPanics => InI128(s.total + proof.dValue)
  BY <1>2, <1>3 DEF Applies
<1>5. OverflowPanics => SumFits(OrZero(RootDeltas(Evaluations(s.poly, d), d)))
  BY <1>2 DEF Applies
<1>6. QED
  BY <1>1, <1>4, <1>5 DEF proof, new

\* TypeOK is an invariant of the fixed-set states under every history of
\* initializations, updates and forks (init.rs, update.rs).
THEOREM FixedSetTypeCorrect == Spec => []TypeOK
<1>1. Init => TypeOK
  BY DEF Init, TypeOK
<1>2. TypeOK /\ [Next]_vars => TypeOK'
  <2> SUFFICES ASSUME TypeOK, [Next]_vars PROVE TypeOK'
    OBVIOUS
  <2>1. /\ \A s \in states : StateOK(s)
        /\ \A x \in updates : x.window \in Windows /\ {x.old, x.new} \subseteq states
    BY TypeOKParts
  <2>2. ASSUME NEW r \in Reserves, NEW label \in Labels, NEW srs, Initialize(r, label, srs)
        PROVE  TypeOK'
    <3>1. states' = states \cup {InitialState(r, label, srs)} /\ updates' = updates
      BY <2>2 DEF Initialize
    <3>2. \A s \in states' : StateOK(s)
      BY <2>1, <3>1, InitialStateCarries DEF StateOK
    <3>3. QED
      BY <2>1, <3>1, <3>2 DEF TypeOK, StateOK, Carries
  <2>3. ASSUME NEW s \in states, NEW d \in Windows, NEW label \in Labels, NEW srs,
               ApplyUpdate(s, d, label, srs)
        PROVE  TypeOK'
    <3> DEFINE proof == UpdateProof(s, d, label)
               new == NextState(s, proof)
    <3>1. states' = states \cup {new}
      BY <2>3, ApplyUpdateStep
    <3>2. updates' = updates \cup {[old |-> s, window |-> d, new |-> new, proof |-> proof]}
      BY <2>3, ApplyUpdateStep
    <3>3. StateOK(new)
      BY <2>1, NextStateCarries DEF StateOK
    <3> HIDE DEF new, proof
    <3>4. \A z \in states' : StateOK(z)
      BY <2>1, <3>1, <3>3
    <3>5. \A x \in updates' : x.window \in Windows /\ {x.old, x.new} \subseteq states'
      BY <2>1, <3>1, <3>2
    <3>6. QED
      BY <3>4, <3>5 DEF TypeOK, StateOK, Carries
  <2>4. CASE UNCHANGED vars
    BY <2>4 DEF vars, TypeOK
  <2>5. QED
    BY <2>2, <2>3, <2>4 DEF Next
<1>3. QED
  BY <1>1, <1>2, PTL DEF Spec

-----------------------------------------------------------------------------
(* Commitments open to totals *)

\* The committed value of every state is its total, as a field element.
CommitmentsOpen == \A s \in states : s.commitment.value = s.total % P

\* In a build that panics on overflow, homomorphically updated commitments
\* always open to the incrementally kept totals (update.rs:63-67, init.rs:43-45).
THEOREM CommitmentsCorrect ==
    ASSUME OverflowPanics
    PROVE  Spec => []CommitmentsOpen
<1> DEFINE Inv == TypeOK /\ CommitmentsOpen
<1>1. Init => Inv
  BY DEF Init, TypeOK, CommitmentsOpen
<1>2. Inv /\ TypeOK' /\ [Next]_vars => Inv'
  <2> SUFFICES ASSUME Inv, TypeOK', [Next]_vars PROVE CommitmentsOpen'
    OBVIOUS
  <2>1. ASSUME NEW r \in Reserves, NEW label \in Labels, NEW srs, Initialize(r, label, srs)
        PROVE  CommitmentsOpen'
    <3>1. states' = states \cup {InitialState(r, label, srs)}
      BY <2>1 DEF Initialize
    <3>2. InitialState(r, label, srs).commitment.value = InitialState(r, label, srs).total % P
      BY DEF InitialState, CommitBalance
    <3>3. QED
      BY <3>1, <3>2 DEF CommitmentsOpen
  <2>2. ASSUME NEW s \in states, NEW d \in Windows, NEW label \in Labels, NEW srs,
               ApplyUpdate(s, d, label, srs)
        PROVE  CommitmentsOpen'
    <3> DEFINE proof == UpdateProof(s, d, label)
               new == NextState(s, proof)
    <3>1. states' = states \cup {new} /\ InI128(s.total + proof.dValue)
      BY <2>2, ApplyUpdateStep
    <3>2. proof.dValue \in Int /\ proof.cD.value = proof.dValue % P
      <4>1. FieldsOK(proof, label)
        BY UpdateProofFields
      <4> HIDE DEF proof
      <4>2. QED
        BY <4>1 DEF FieldsOK
    <3> HIDE DEF proof
    <3>3. s.total \in Int /\ s.commitment.value = s.total % P
      BY DEF TypeOK, CommitmentsOpen
    <3>4. new.total = s.total + proof.dValue
      BY <3>1, <3>2, <3>3, WrapInRange DEF NextState
    <3>5. new.commitment.value = ((s.total % P) + (proof.dValue % P)) % P
      BY <3>2, <3>3 DEF NextState, AddCommitments
    <3>6. new.commitment.value = new.total % P
      BY <3>2, <3>3, <3>4, <3>5, ResidueOfSum
    <3>7. QED
      BY <3>1, <3>6 DEF CommitmentsOpen
  <2>3. CASE UNCHANGED vars
    BY <2>3 DEF vars, CommitmentsOpen
  <2>4. QED
    BY <2>1, <2>2, <2>3 DEF Next
<1>3. Spec => []TypeOK
  BY FixedSetTypeCorrect
<1>4. QED
  BY <1>1, <1>2, <1>3, PTL DEF Spec

-----------------------------------------------------------------------------
(* Updates that were made *)

\* Every state tracks the polynomial of a reserve list and was made with the SRS.
Tracked(s) == s.poly \in Polynomials /\ s.degree = MaxDegree
Recorded ==
    /\ \A s \in states : Tracked(s)
    /\ \A x \in updates : Honest(x) /\ x.old.degree = MaxDegree

\* Every state tracks the polynomial of a reserve list, every update is one
\* that was made.
LEMMA UpdatesRecorded == Spec => []Recorded
<1>1. Init => Recorded
  BY DEF Init, Recorded
<1>2. Recorded /\ [Next]_vars => Recorded'
  <2> SUFFICES ASSUME Recorded, [Next]_vars PROVE Recorded'
    OBVIOUS
  <2>1. ASSUME NEW r \in Reserves, NEW label \in Labels, Initialize(r, label, WholeSrs(MaxDegree))
        PROVE  Recorded'
    <3>1. states' = states \cup {InitialState(r, label, WholeSrs(MaxDegree))} /\ updates' = updates
      BY <2>1 DEF Initialize
    <3>2. Tracked(InitialState(r, label, WholeSrs(MaxDegree)))
      BY DEF Tracked, Polynomials, InitialState, WholeSrs
    <3>3. QED
      BY <3>1, <3>2 DEF Recorded
  <2>2. ASSUME NEW s \in states, NEW d \in Windows, NEW label \in Labels, NEW srs,
               ApplyUpdate(s, d, label, srs)
        PROVE  Recorded'
    <3> DEFINE proof == UpdateProof(s, d, label)
               new == NextState(s, proof)
               x == [old |-> s, window |-> d, new |-> new, proof |-> proof]
    <3>1. states' = states \cup {new} /\ updates' = updates \cup {x} /\ Applies(s, d, srs)
      BY <2>2 DEF ApplyUpdate, Record
    <3>2. Tracked(s)
      BY DEF Recorded
    <3>3. Tracked(new)
      <4> HIDE DEF proof
      <4>1. QED
        BY <3>2 DEF Tracked, NextState
    <3>4. x.old = s /\ x.window = d /\ x.new = new /\ x.proof = proof
      OBVIOUS
    <3> HIDE DEF x, new
    <3>5. Made(x, label, srs)
      BY <3>1, <3>4 DEF Made, new
    <3> HIDE DEF proof
    <3>6. Honest(x) /\ x.old.degree = MaxDegree
      BY <3>2, <3>4, <3>5 DEF Honest, Tracked
    <3>7. QED
      BY <3>1, <3>3, <3>6 DEF Recorded
  <2>3. CASE UNCHANGED vars
    BY <2>3 DEF vars, Recorded
  <2>4. QED
    BY <2>1, <2>2, <2>3 DEF Next
<1>3. QED
  BY <1>1, <1>2, PTL DEF Spec

\* Whatever states, windows and proofs are put together: if they verify, the
\* total and the committed value moved by exactly what the window owes to the
\* accounts of the accumulator (verify.rs:30-121).
THEOREM VerificationIsSound == Spec => []VerifiedMeansAdjusted
<1>1. TypeOK /\ Recorded => VerifiedMeansAdjusted
  <2> SUFFICES ASSUME TypeOK, Recorded,
                      NEW old \in states, NEW new \in states, NEW d \in Windows, NEW x \in updates,
                      VerifyUpdate(PrefixForVerify(MaxDegree, d), old, d, new, x.proof)
               PROVE  WindowMoved(old, d, new)
    BY DEF VerifiedMeansAdjusted, WindowMoved
  <2>1. StateOK(old) /\ old.poly \in Polynomials /\ Honest(x)
    BY TypeOKParts DEF Recorded, Tracked
  <2> DEFINE srs == PrefixForVerify(MaxDegree, d)
  <2>2. VerifyUpdate(srs, old, d, new, x.proof)
    OBVIOUS
  <2> HIDE DEF srs
  <2>3. QED
    <3>1. d \in Windows
      OBVIOUS
    <3>2. QED
      BY ONLY <2>1, <2>2, <3>1, VerifiedMoves, FieldIsInt DEF StateOK, Carries
<1>2. QED
  BY <1>1, FixedSetTypeCorrect, UpdatesRecorded, PTL

\* An update that verifies owes an i128, where wrapping shows in the field.
LEMMA AcceptedIsInRange ==
    ASSUME FieldShowsWraps, NEW x, Honest(x), NEW srs, NEW new,
           VerifyUpdate(srs, x.old, x.window, new, x.proof)
    PROVE  InI128(Owed(x.old, x.window))
<1> DEFINE s == x.old
           d == x.window
           S == {b \in DOMAIN d : PolyEval(s.poly, Encode[b]) = 0}
           t == Total(OrZero([a \in S |-> d[a]]))
<1>1. s.poly \in Polynomials /\ d \in Windows
  BY DEF Honest
<1>2. PICK label, made : Made(x, label, made)
  BY DEF Honest
<1>3. x.proof.logic.commitments = Witness(s.poly, d)
  <2>1. HasParts(x.proof, s, d, label)
    BY <1>2, MadeOpens
  <2>2. QED
    BY <2>1 DEF HasParts
<1>4. UpdateRelation(Witness(s.poly, d), d)
  BY <1>3 DEF VerifyUpdate, LogicVerifies
<1>5. Owed(s, d) = t
  BY DEF Owed
<1>6. S \in SUBSET DOMAIN d
  OBVIOUS
<1> HIDE DEF s, d, S
<1>7. DValue(Evaluations(s.poly, d), d) % P = Owed(s, d) % P
  BY <1>1, <1>4, RelationMeansOwed
<1>8. DValue(Evaluations(s.poly, d), d) = Wrap(Owed(s, d))
  BY <1>1, OwedIsRootSum
<1>9. Wrap(t) % P = t % P
  <2> HIDE DEF t
  <2>1. QED
    BY <1>5, <1>7, <1>8
<1>10. InI128(t)
  BY <1>1, <1>6, <1>9 DEF FieldShowsWraps
<1>11. QED
  BY <1>5, <1>10 DEF s, d

\* The powers that the verifier loads are enough for an update that was made.
LEMMA SrsFits ==
    ASSUME NEW x, Honest(x), x.old.degree = MaxDegree
    PROVE  Suffices(PrefixForVerify(MaxDegree, x.window), Cardinality(DOMAIN x.window))
<1>1. PICK label, srs : Made(x, label, srs)
  BY DEF Honest
<1>2. Applies(x.old, x.window, srs)
  BY <1>1 DEF Made
<1>3. QED
  BY <1>2, PrefixSufficesToVerify, SrsAssumption DEF Honest

\* An update that was made verifies against the two states it joins, with the
\* prefix of the SRS that the verifier loads, exactly when the sum of the roots'
\* deltas is an i128 (update.rs:27-80, verify.rs:30-121).
THEOREM HonestUpdatesAccepted ==
    ASSUME FieldShowsWraps
    PROVE  Spec => []HonestUpdatesVerify
<1>1. Recorded => HonestUpdatesVerify
  <2> SUFFICES ASSUME Recorded, NEW x \in updates
               PROVE  VerifyUpdate(PrefixForVerify(MaxDegree, x.window), x.old, x.window, x.new, x.proof)
                        = InI128(Owed(x.old, x.window))
    BY DEF HonestUpdatesVerify
  <2> DEFINE srs == PrefixForVerify(MaxDegree, x.window)
             accepted == VerifyUpdate(srs, x.old, x.window, x.new, x.proof)
             inRange == InI128(Owed(x.old, x.window))
  <2>1. Honest(x) /\ x.old.degree = MaxDegree
    BY DEF Recorded
  <2>2. inRange => accepted
    BY <2>1, MadeIsAccepted, SrsFits
  <2>3. accepted => inRange
    <3> HIDE DEF srs
    <3>1. QED
      BY <2>1, AcceptedIsInRange
  <2>4. accepted \in BOOLEAN
    BY DEF VerifyUpdate
  <2>5. inRange \in BOOLEAN
    BY DEF InI128
  <2> HIDE DEF accepted, inRange
  <2>6. accepted = inRange
    BY <2>2, <2>3, <2>4, <2>5
  <2>7. QED
    BY <2>6 DEF accepted, inRange, srs
<1>2. QED
  BY <1>1, UpdatesRecorded, PTL

\* In a field as wide as the implementation's, where all the addresses there
\* are cannot owe as much as the order of the field, wrapping always shows.
LEMMA WideFieldShowsWraps ==
    ASSUME \A d \in Windows : \A a \in DOMAIN d : InI128(d[a]),
           N * (MaxI128 + 1) + (MaxI128 + 1) < P
    PROVE  FieldShowsWraps
<1> SUFFICES ASSUME NEW d \in Windows, NEW S \in SUBSET DOMAIN d,
                    NEW t, t = Total(OrZero([a \in S |-> d[a]])), Wrap(t) % P = t % P
             PROVE  InI128(t)
  BY DEF FieldShowsWraps
<1> DEFINE b == MaxI128 + 1
           f == OrZero([a \in S |-> d[a]])
           w == Wrap(t)
<1>1. P \in Nat /\ P > 1 /\ MaxI128 \in Nat /\ b \in Nat /\ N \in Nat
  BY OrderAssumption, WidthAssumption, NAssumption
<1>2. DOMAIN d \subseteq Address /\ d \in [DOMAIN d -> Int]
  BY ListAssumption
<1>3. f \in [Address -> Int]
  <2>1. [a \in S |-> d[a]] \in [S -> Int] /\ S \in SUBSET Address
    BY <1>2
  <2>2. QED
    BY <2>1, OrZeroType
<1>4. \A a \in Address : -b <= f[a] /\ f[a] <= b
  <2> SUFFICES ASSUME NEW a \in Address PROVE -b <= f[a] /\ f[a] <= b
    OBVIOUS
  <2>1. CASE a \in S
    <3>1. f[a] = d[a] /\ d[a] \in Int /\ InI128(d[a])
      BY <1>2, <2>1 DEF OrZero
    <3>2. QED
      BY <1>1, <3>1 DEF InI128
  <2>2. CASE a \notin S
    <3>1. f[a] = 0
      BY <2>2 DEF OrZero
    <3>2. QED
      BY <1>1, <3>1
  <2>3. QED
    BY <2>1, <2>2
<1> HIDE DEF f
<1>5. t = Total(f) /\ t \in Int
  BY <1>3, TotalType DEF f
<1>6. -(N * b) <= t /\ t <= N * b
  <2> HIDE DEF b
  <2>1. QED
    BY <1>1, <1>3, <1>4, <1>5, TotalIsBounded
<1>7. w \in Int /\ InI128(w)
  BY <1>5, WrapType, WrapIsInRange
<1>8. -b <= w /\ w <= b
  BY <1>1, <1>7 DEF InI128
<1>9. w % P = t % P
  OBVIOUS
<1> HIDE DEF w
<1>10. PICK qw \in Int : w = qw * P + (w % P) /\ w % P \in Int
  BY <1>7, ResidueSplit
<1>11. PICK qt \in Int : t = qt * P + (t % P) /\ t % P \in Int
  BY <1>5, ResidueSplit
<1> DEFINE k == qw - qt
           c == N * b
<1>12. k \in Int /\ k * P = qw * P - qt * P
  BY <1>1
<1>13. w - t = k * P /\ k * P \in Int
  <2> DEFINE r == w % P
             x == qw * P
             y == qt * P
  <2>1. x \in Int /\ y \in Int /\ r \in Int /\ w = x + r /\ t = y + r /\ k * P = x - y
    BY <1>1, <1>9, <1>10, <1>11, <1>12
  <2> HIDE DEF r, x, y, k
  <2>2. QED
    BY <1>5, <1>7, <2>1
<1>14. c \in Int /\ c + b < P /\ -c <= t /\ t <= c
  BY <1>1, <1>6
<1> HIDE DEF k, c, b
<1>15. w - t < P /\ t - w < P
  BY <1>1, <1>5, <1>7, <1>8, <1>14
<1>16. k > 0 => k * P >= P
  BY <1>1, <1>12
<1>17. k < 0 => k * P <= -P
  BY <1>1, <1>12
<1>18. k = 0
  BY <1>1, <1>5, <1>7, <1>12, <1>13, <1>15, <1>16, <1>17
<1>19. w = t
  BY <1>1, <1>5, <1>7, <1>13, <1>18
<1>20. QED
  BY <1>7, <1>19

-----------------------------------------------------------------------------
(* Which windows open *)

\* A state's polynomial that the SRS has the powers for.
Fitting == \A s \in states : s.poly \in Polynomials /\ Len(s.poly) <= MaxDegree + 1

\* No state's polynomial outgrows the SRS it was committed to with.
LEMMA StatesFit == Spec => []Fitting
<1>1. Init => Fitting
  BY DEF Init, Fitting
<1>2. Fitting /\ [Next]_vars => Fitting'
  <2> SUFFICES ASSUME Fitting, [Next]_vars PROVE Fitting'
    OBVIOUS
  <2>1. ASSUME NEW r \in Reserves, NEW label \in Labels,
               Initialize(r, label, WholeSrs(MaxDegree))
        PROVE  Fitting'
    <3> DEFINE s == InitialState(r, label, WholeSrs(MaxDegree))
    <3>1. states' = states \cup {s}
      BY <2>1 DEF Initialize
    <3>2. Commits(s.poly, WholeSrs(MaxDegree), WholeSrs(MaxDegree).g1) = "ok"
      BY <2>1 DEF Initialize, Initializes
    <3>3. s.poly \in Polynomials
      BY DEF InitialState, Polynomials
    <3> HIDE DEF s
    <3>4. ~(Len(s.poly) > WholeSrs(MaxDegree).g1)
      BY <3>2 DEF Commits
    <3>5. Len(s.poly) \in Nat /\ MaxDegree \in Nat /\ WholeSrs(MaxDegree).g1 = MaxDegree + 1
      BY <3>3, PolynomialsType, SrsAssumption DEF Coeffs, WholeSrs
    <3>6. Len(s.poly) <= MaxDegree + 1
      BY <3>4, <3>5
    <3>7. QED
      BY <3>1, <3>3, <3>6 DEF Fitting
  <2>2. ASSUME NEW s \in states, NEW d \in Windows, NEW label \in Labels, NEW srs,
               ApplyUpdate(s, d, label, srs)
        PROVE  Fitting'
    <3> DEFINE new == NextState(s, UpdateProof(s, d, label))
    <3>1. states' = states \cup {new}
      BY <2>2, ApplyUpdateStep
    <3>2. new.poly = s.poly
      BY DEF NextState
    <3> HIDE DEF new
    <3>3. QED
      BY <3>1, <3>2 DEF Fitting
  <2>3. CASE UNCHANGED vars
    BY <2>3 DEF vars, Fitting
  <2>4. QED
    BY <2>1, <2>2, <2>3 DEF Next
<1>3. QED
  BY <1>1, <1>2, PTL DEF Spec

\* A window within the degree of the SRS can be applied to any state, and to no
\* state if it is empty (update.rs, polynomial.rs: QueryContext).
THEOREM NonemptyWindowsApply == Spec => []WindowsOpen
<1>1. Fitting => WindowsOpen
  <2> SUFFICES ASSUME Fitting, NEW s \in states, NEW d \in Windows,
                      Cardinality(DOMAIN d) <= MaxDegree
               PROVE  Opens(s.poly, d, WholeSrs(MaxDegree)) <=> DOMAIN d # {}
    BY DEF WindowsOpen
  <2>1. s.poly \in Polynomials /\ Len(s.poly) <= MaxDegree + 1 /\ MaxDegree \in Nat
    BY SrsAssumption DEF Fitting
  <2>2. QED
    BY <2>1, WindowOpens
<1>2. QED
  BY <1>1, StatesFit, PTL
=============================================================================
