----------------------------- MODULE MCAlgebra -----------------------------
(***************************************************************************)
(* The pure algorithms of the fixed-set route and the reader of delta      *)
(* files over enumerated inputs: one initial state per polynomial and list *)
(* of points, one per assignment to the variables of the committed         *)
(* relation, and one per file.                                             *)
(***************************************************************************)
EXTENDS Poly, LogicRelation, Csv

CONSTANTS MaxCoeffs, MaxPoints, MaxLines

\* The inputs below are addresses and field elements.
ASSUME BoundsAssumption ==
    /\ MaxCoeffs \in Nat /\ MaxPoints \in Nat /\ MaxLines \in Nat
    /\ N >= 3 /\ P > 3

VARIABLE input

SmallPolys == {Trim(cs) : cs \in [1..MaxCoeffs -> Field]}
PointLists == UNION {[1..n -> Field] : n \in 0..MaxPoints}

\* Address 1 takes every value, address 2 a few.
TwoFlags == {[u |-> <<u1, u2>>, y |-> <<y1, y2>>, z |-> <<z1, z2>>, w |-> <<w1, w2>>, d |-> d] :
                u1 \in Field, y1 \in Field, z1 \in Field, w1 \in Field, d \in Field,
                u2 \in {0, 1, 2}, y2 \in {0, 2}, z2 \in {0, 3}, w2 \in {0, 1}}
DeltaPairs == {<<1, -1>>, <<-3, 2>>}

\* Address 1 is another spelling of address 3; two of the largest amounts
\* overflow, of either sign, and a third one or the rest brings the sum back.
SpelledNormal == <<3, 2, 3>>
Lines == {1, 2, 3} \X {-8, -3, 3, 7}
LineLists == UNION {[1..n -> Lines] : n \in 0..MaxLines}

Init ==
    \/ \E f \in SmallPolys, xs \in PointLists : input = [kind |-> "poly", f |-> f, xs |-> xs]
    \/ \E v \in TwoFlags, ds \in DeltaPairs : input = [kind |-> "relation", v |-> v, delta |-> ds]
    \/ \E lines \in LineLists : input = [kind |-> "csv", lines |-> lines]
Next == UNCHANGED input
Spec == Init /\ [][Next]_input

-----------------------------------------------------------------------------
(* Properties *)

ValuesAt(f, xs) == [j \in DOMAIN xs |-> PolyEval(f, xs[j])]

\* evaluate_on_tree returns the value of the polynomial at every point, in the
\* order of the points, repeated points included.
MultiEvaluateIsPointwise ==
    input.kind = "poly" /\ input.xs # <<>>
        => MultiEvaluate(input.f, input.xs) = ValuesAt(input.f, input.xs)

\* Interpolating a polynomial's values at distinct points leaves a difference
\* that the vanishing polynomial of the points divides, and repeated points are
\* reported: the two facts the opening of an update rests on.
InterpolationOpens ==
    input.kind = "poly" =>
        LET f == input.f
            xs == input.xs
            values == ValuesAt(f, xs)
            interpolated == Interpolate(xs, values)
        IN /\ LagrangeDefined(xs) = IsInjective(xs)
           /\ IsInjective(xs) =>
                 /\ Len(interpolated) <= Len(xs)
                 /\ ValuesAt(interpolated, xs) = values
                 /\ DividesExactly(PolySub(f, interpolated), ProductFromRoots(xs))

\* The committed constraints hold for exactly the assignments that flag the
\* roots and sum their deltas; the prover's advice satisfies them.
RelationIsMembership ==
    input.kind = "relation" =>
        LET v == input.v
            delta == input.delta
        IN /\ UpdateRelation(v, delta) => MembershipRelation(v, delta)
           /\ MembershipRelation(v, delta) /\ HonestAdvice(v, delta) => UpdateRelation(v, delta)

\* The exact sum of an account's lines.
AccountSum(lines, a) ==
    LET sum[i \in 0..Len(lines)] ==
            IF i = 0 THEN 0
            ELSE IF Normal[lines[i][1]] = a THEN sum[i - 1] + lines[i][2] ELSE sum[i - 1]
    IN sum[Len(lines)]

\* A delta file is read as one nonzero delta per account, whatever the spelling
\* and the order of its lines: the exact sum of the account's lines where it
\* fits, also when a sum on the way there did not, and else the sum modulo the
\* width.  A build that panics on overflow reads the exact sums or nothing.
ReaderMerges ==
    input.kind = "csv" =>
        \A d \in ReadDeltas(input.lines), a \in Address :
            LET sum == AccountSum(input.lines, a)
            IN /\ OrZero(d)[a] = IF OverflowPanics THEN sum ELSE Wrap(sum)
               /\ a \in DOMAIN d => d[a] # 0 /\ Normal[a] = a
=============================================================================
