---------------------------- MODULE FixedSetOps ----------------------------
(***************************************************************************)
(* The operations of the fixed-set route (crates/nizk-fixed-set) on states *)
(* as values: the reserve addresses are the roots of a polynomial that     *)
(* never changes; a window of deltas is opened at its addresses and moves  *)
(* the committed total by the deltas of the roots.                         *)
(*                                                                         *)
(* Cryptography is symbolic.  A KZG commitment is the polynomial, so the   *)
(* pairing equation is an identity of polynomials; a Pedersen commitment   *)
(* is a field value with the bag of blinds added to it; a committed-R1CS   *)
(* proof and its link proof each carry the assignment they know and the    *)
(* statement their transcripts were fed.  Scalars derived by hashing are   *)
(* constants or, for blinds, the tuple that is hashed.                     *)
(***************************************************************************)
EXTENDS Poly, LogicRelation, Bags, SequencesExt

CONSTANTS
    Encode,     \* address -> field element (encode_address)
    Alpha, Rho, \* derive_alpha and rho_y
    Reserves,   \* reserve lists of `init`
    Windows     \* canonical delta lists, the empty one included

ASSUME EncodeAssumption ==
    Encode \in [Address -> Field] /\ \A a, b \in Address : Encode[a] = Encode[b] => a = b
ASSUME ScalarAssumption == Alpha \in Field \ {0} /\ Rho \in Field \ {0}
ASSUME ListAssumption ==
    \A r \in Reserves \cup Windows : DOMAIN r \subseteq Address /\ r \in [DOMAIN r -> Int]

\* The addresses of a window in ascending order: the i-th has i up to it.
InOrder(S) == [i \in 1..Cardinality(S) |-> CHOOSE a \in S : Cardinality({b \in S : b <= a}) = i]

Points(d) == LET order == InOrder(DOMAIN d) IN [i \in DOMAIN order |-> Encode[order[i]]]

CommitBalance(value, blind) == [value |-> value % P, blind |-> blind]
AddCommitmentsKeepingBlind(c, e) == [c EXCEPT !.value = (@ + e.value) % P]
AddCommitments(c, e) == [value |-> (c.value + e.value) % P, blind |-> c.blind (+) e.blind]

\* An SRS in memory: the degree of its file, and the powers loaded from it.
\* Every file has the powers of the one tau that its fixed seed hashes to.
WholeSrs(degree) == [degree |-> degree, g1 |-> degree + 1, g2 |-> degree + 1]
PrefixForUpdate(degree, s, d) ==
    [degree |-> degree, g1 |-> Len(s.poly), g2 |-> Cardinality(DOMAIN d) + 1]
PrefixForVerify(degree, d) ==
    [degree |-> degree, g1 |-> Cardinality(DOMAIN d) + 1, g2 |-> Cardinality(DOMAIN d) + 1]
Stored(srs) == srs.g1 <= srs.degree + 1 /\ srs.g2 <= srs.degree + 1

\* commit_g1 and commit_g2: the guard compares with the degree of the whole
\* SRS, the slice with the powers loaded from it.
CommitsBelowDegree(f, srs, powers) ==
    IF Degree(f) >= srs.degree THEN "error" ELSE IF Len(f) > powers THEN "panic" ELSE "ok"
Commits(f, srs, powers) == IF Degree(f) > srs.degree THEN "error"
                           ELSE IF Len(f) > powers THEN "panic" ELSE "ok"

-----------------------------------------------------------------------------
(* initialize *)

InitialBlind(r) == SetToBag({<<"balance-blind", Wrap(Total(OrZero(r))), Cardinality(DOMAIN r)>>})

InitialState(r, label, srs) ==
    LET total == Wrap(Total(OrZero(r)))
    IN [label |-> label, degree |-> srs.degree,
        poly |-> PolyScale(ProductFromRoots(Points(r)), Alpha),
        total |-> total, blind |-> InitialBlind(r),
        commitment |-> CommitBalance(total, InitialBlind(r))]

Initializes(r, label, srs) ==
    /\ DOMAIN r # {}
    /\ OverflowPanics => SumFits(OrZero(r))
    /\ Commits(InitialState(r, label, srs).poly, srs, srs.g1) = "ok"

-----------------------------------------------------------------------------
(* apply_update *)

\* What depends on the polynomial and the window alone is tabulated: the
\* QueryContext of a window and the evaluations at its addresses.
Polynomials == {PolyScale(ProductFromRoots(Points(r)), Alpha) : r \in Reserves}

Context ==
    [d \in Windows |->
        [zPoly |-> ProductFromRoots(Points(d)),
         distinct |-> LagrangeDefined(Points(d)),
         basis |-> LagrangeBasis(Points(d))]]

Values == [f \in Polynomials |-> [d \in Windows |-> MultiEvaluate(f, Points(d))]]

\* The values by address (the lists of the code run over the window's order).
Evaluations(f, d) ==
    LET order == InOrder(DOMAIN d)
    IN [a \in DOMAIN d |-> Values[f][d][CHOOSE i \in DOMAIN order : order[i] = a]]

DValue(y, d) == Wrap(Total(OrZero(RootDeltas(y, d))))

\* build_update_witness: the values, the flags, the advice and the sum.
InverseOrZero(x) == IF x = 0 THEN 0 ELSE InvOf(x)
WitnessOf(y, d) ==
    [u |-> [a \in DOMAIN d |-> IF y[a] = 0 THEN 1 ELSE 0],
     y |-> y,
     z |-> [a \in DOMAIN d |-> InverseOrZero(y[a])],
     w |-> [a \in DOMAIN d |-> (y[a] * InverseOrZero(y[a])) % P],
     d |-> DValue(y, d) % P]
Witness(f, d) == WitnessOf(Evaluations(f, d), d)

\* J_Y: the interpolation of the values, blinded by a multiple of Z.
BlindedOpening(values, ctx) ==
    PolyAdd(LinearCombination(values, ctx.basis), PolyScale(ctx.zPoly, Rho))

\* interpolate insists on distinct points and on one value for each of them.
Interpolates(values, ctx) == ctx.distinct /\ Len(values) = Len(ctx.basis)

\* J_Y and the quotient by Z.
Divided(jY, division) == [ok |-> division.r = <<>>, jY |-> jY, quotient |-> division.q]
OpenAtUnblindedQuotient(f, values, ctx) ==
    IF ~Interpolates(values, ctx) THEN [ok |-> FALSE]
    ELSE Divided(BlindedOpening(values, ctx),
                 PolyDivRem(PolySub(f, LinearCombination(values, ctx.basis)), ctx.zPoly))
OpenAt(f, values, ctx) ==
    IF ~Interpolates(values, ctx) THEN [ok |-> FALSE]
    ELSE Divided(BlindedOpening(values, ctx),
                 PolyDivRem(PolySub(f, BlindedOpening(values, ctx)), ctx.zPoly))
Opening ==
    [f \in Polynomials |-> [d \in Windows |-> OpenAt(f, Values[f][d], Context[d])]]

\* Every step of apply_update up to its commitments succeeds with this SRS.
OpensWith(opening, zPoly, srs) ==
    /\ opening.ok
    /\ Commits(opening.jY, srs, srs.g1) = "ok"
    /\ Commits(opening.quotient, srs, srs.g1) = "ok"
    /\ Commits(zPoly, srs, srs.g2) = "ok"
Opens(f, d, srs) ==
    /\ IsInjective(Points(d))
    /\ OpensWith(Opening[f][d], Context[d].zPoly, srs)

\* append_public_to_transcript, and what link_challenge hashes besides.
Statement(cU, cY, cD, d) == <<cU, cY, cD, d>>

\* prove_link: the committed values are the ones inside C_U, C_Y and C_D.
LinkProof(v, statement) == [opens |-> v, statement |-> statement]

\* prove_logic: commitments to all values, the R1CS proof, the link proof.
LogicProof(v, statement) ==
    [commitments |-> v, r1cs |-> [opens |-> v, statement |-> statement],
     link |-> LinkProof(v, statement)]

ProofFrom(s, d, label, v, opening, dValue, rD, cD) ==
    [oldLabel |-> s.label, newLabel |-> label,
     cU |-> v.u, cY |-> opening.jY, cD |-> cD, opening |-> opening.quotient,
     dValue |-> dValue, rD |-> rD, gates |-> 4 * Cardinality(DOMAIN d),
     logic |-> LogicProof(v, Statement(v.u, opening.jY, cD, d))]
UpdateProof(s, d, label) ==
    LET dValue == DValue(Evaluations(s.poly, d), d)
        rD == <<label, dValue>>
    IN ProofFrom(s, d, label, Witness(s.poly, d), Opening[s.poly][d],
                 dValue, rD, CommitBalance(dValue, SetToBag({rD})))

NextState(s, proof) ==
    [label |-> proof.newLabel, degree |-> s.degree, poly |-> s.poly,
     total |-> Wrap(s.total + proof.dValue),
     blind |-> s.blind (+) SetToBag({proof.rD}),
     commitment |-> AddCommitments(s.commitment, proof.cD)]

\* apply_update returns a next state and a proof: the SRS has the degree the
\* state was made with, the powers suffice, and no i128 sum panics.
Applies(s, d, srs) ==
    /\ s.degree = srs.degree
    /\ Stored(srs)
    /\ Opens(s.poly, d, srs)
    /\ OverflowPanics => SumFits(OrZero(RootDeltas(Evaluations(s.poly, d), d)))
    /\ OverflowPanics => InI128(s.total + DValue(Evaluations(s.poly, d), d))

-----------------------------------------------------------------------------
(* verify_update *)

BatchNotChecked(accumulator, d, proof) == proof.cY # <<>> \/ accumulator # <<>>
BatchVerifies(accumulator, d, proof) ==
    PolySub(accumulator, proof.cY) = PolyMul(proof.opening, Context[d].zPoly)

\* verify_link: the commitments open to the values in C_U, C_Y and C_D.
LinkVerifies(srs, d, proof) ==
    LET v == proof.logic.commitments
        order == InOrder(DOMAIN d)
        values == [i \in DOMAIN order |-> v.y[order[i]]]
        openedY == BlindedOpening(values, Context[d])
    IN /\ proof.logic.link.opens = v
       /\ proof.logic.link.statement = Statement(proof.cU, proof.cY, proof.cD, d)
       /\ v.u = proof.cU
       /\ Interpolates(values, Context[d])
       /\ Commits(openedY, srs, srs.g1) = "ok"
       /\ openedY = proof.cY
       /\ v.d = proof.cD.value

\* verify_logic: the constraints hold of the committed values.
LogicVerifies(srs, d, proof) ==
    LET v == proof.logic.commitments
    IN /\ Cardinality(DOMAIN v.u) = Cardinality(DOMAIN d)
       /\ proof.logic.r1cs = [opens |-> v, statement |-> Statement(proof.cU, proof.cY, proof.cD, d)]
       /\ UpdateRelation(v, d)
       /\ LinkVerifies(srs, d, proof)

VerifyUpdate(srs, old, d, new, proof) ==
    /\ Stored(srs)
    /\ proof.oldLabel = old.label
    /\ proof.newLabel = new.label
    /\ old.poly = new.poly
    /\ new.commitment = AddCommitments(old.commitment, proof.cD)
    /\ proof.gates = 4 * Cardinality(DOMAIN d)
    /\ IsInjective(Points(d))
    /\ Commits(Context[d].zPoly, srs, srs.g2) = "ok"
    /\ BatchVerifies(old.poly, d, proof)
    /\ LogicVerifies(srs, d, proof)
    /\ OverflowPanics => InI128(old.total + proof.dValue)
    /\ Wrap(old.total + proof.dValue) = new.total
    /\ old.blind (+) SetToBag({proof.rD}) = new.blind

\* The exact sum of the deltas of the accounts a state's polynomial tracks.
Owed(s, d) ==
    Total(OrZero([a \in {b \in DOMAIN d : PolyEval(s.poly, Encode[b]) = 0} |-> d[a]]))
=============================================================================
