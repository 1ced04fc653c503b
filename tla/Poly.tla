-------------------------------- MODULE Poly --------------------------------
(***************************************************************************)
(* Dense polynomials over the field (crates/nizk-fixed-set/polynomial.rs): *)
(* products and multi-point evaluation by a tree that halves the points,   *)
(* Lagrange interpolation from the derivative of the vanishing polynomial. *)
(* A polynomial is the sequence of its coefficients, constant term first,  *)
(* without leading zeros; the zero polynomial is empty.                    *)
(***************************************************************************)
EXTENDS PrimeField, Sequences, FiniteSetsExt

CoeffOf(f, i) == IF i \in 1..Len(f) THEN f[i] ELSE 0

\* from_coefficients_vec: drop the leading zeros.
Trim(cs) ==
    LET nonzero == {i \in DOMAIN cs : cs[i] # 0}
    IN SubSeq(cs, 1, IF nonzero = {} THEN 0 ELSE Max(nonzero))

Degree(f) == IF f = <<>> THEN 0 ELSE Len(f) - 1

LongerLen(f, g) == IF Len(f) < Len(g) THEN Len(g) ELSE Len(f)
PolyAdd(f, g) ==
    Trim([i \in 1..LongerLen(f, g) |-> (CoeffOf(f, i) + CoeffOf(g, i)) % P])
PolyScale(f, c) == Trim([i \in DOMAIN f |-> (c * f[i]) % P])
PolySub(f, g) == PolyAdd(f, PolyScale(g, P - 1))

\* Horner's rule, coefficient by coefficient: the k-th after the i leading
\* coefficients of f have been taken in.
PolyMul(f, g) ==
    LET n == Len(f)
        size == n + Len(g) - 1
        coeff[at \in (0..n) \X (0..size)] ==
            LET i == at[1]
                k == at[2]
            IN IF i = 0 \/ k = 0 THEN 0
               ELSE (coeff[<<i - 1, k - 1>>] + f[n - i + 1] * CoeffOf(g, k)) % P
    IN Trim([k \in 1..size |-> coeff[<<n, k>>]])

PolyEval(f, x) ==
    LET horner[i \in 0..Len(f)] ==
            IF i = 0 THEN 0 ELSE (horner[i - 1] * x + f[Len(f) - i + 1]) % P
    IN horner[Len(f)]

\* divide_with_q_and_r: cancel the leading term until the degree is below g's.
Monomial(c, e) == [i \in 1..(e + 1) |-> IF i = e + 1 THEN c ELSE 0]
LeadingTerm(f, g) == Monomial((f[Len(f)] * InvOf(g[Len(g)])) % P, Len(f) - Len(g))
DivStep(div, g, term) ==
    [q |-> PolyAdd(div.q, term), r |-> PolySub(div.r, PolyMul(term, g))]
PolyDivRem(f, g) ==
    LET Advance(div) == IF Len(div.r) < Len(g) THEN div
                        ELSE DivStep(div, g, LeadingTerm(div.r, g))
        step[k \in 0..Len(f)] ==
            IF k = 0 THEN [q |-> <<>>, r |-> f] ELSE Advance(step[k - 1])
    IN step[Len(f)]

LinearFactor(x) == <<(P - x) % P, 1>>

\* Size of the left half of the points lo..hi.
HalfOf(lo, hi) == (hi - lo + 1) \div 2

\* The products over all intervals of points that halving can reach.
SubproductTree(xs) ==
    LET poly[node \in (1..Len(xs)) \X (1..Len(xs))] ==
            LET lo == node[1]
                hi == node[2]
                mid == lo + HalfOf(lo, hi) - 1
            IN IF lo >= hi THEN LinearFactor(xs[lo])
               ELSE PolyMul(poly[<<lo, mid>>], poly[<<mid + 1, hi>>])
    IN poly

\* product_from_roots, and the z_poly of a QueryContext.
ProductFromRoots(xs) ==
    IF xs = <<>> THEN <<1>> ELSE SubproductTree(xs)[<<1, Len(xs)>>]

\* One level down the tree, to the child whose points include point j; a leaf
\* stays.
MidOf(n) == n.lo + HalfOf(n.lo, n.hi) - 1
Descend(n, lo, hi, tree) ==
    [lo |-> lo, hi |-> hi, rem |-> PolyDivRem(n.rem, tree[<<lo, hi>>]).r]
ChildOfRightByLeft(n, tree, j) ==
    IF n.lo = n.hi THEN n
    ELSE IF j <= MidOf(n) THEN Descend(n, n.lo, MidOf(n), tree)
    ELSE [Descend(n, n.lo, MidOf(n), tree) EXCEPT !.lo = MidOf(n) + 1, !.hi = n.hi]
ChildWith(n, tree, j) ==
    IF n.lo = n.hi THEN n
    ELSE IF j <= MidOf(n) THEN Descend(n, n.lo, MidOf(n), tree)
    ELSE Descend(n, MidOf(n) + 1, n.hi, tree)

\* The remainder at the leaf of the tree that holds point j.
RemainderAt(f, xs, j) ==
    LET tree == SubproductTree(xs)
        node[k \in 0..Len(xs)] ==
            IF k = 0 THEN [lo |-> 1, hi |-> Len(xs), rem |-> f]
            ELSE ChildWith(node[k - 1], tree, j)
    IN node[Len(xs)].rem

\* evaluate_on_tree.  The tree of no points is a leaf with the polynomial 1,
\* so its "point" is -1 and one value comes back.
MultiEvaluate(f, xs) ==
    IF xs = <<>> THEN <<PolyEval(f, P - 1)>>
    ELSE [j \in DOMAIN xs |-> PolyEval(RemainderAt(f, xs, j), xs[j])]

DerivativeSkipThenEnumerate(f) == Trim([i \in 1..(Len(f) - 1) |-> ((i - 1) * f[i + 1]) % P])
Derivative(f) == Trim([i \in 1..(Len(f) - 1) |-> (i * f[i + 1]) % P])

\* The derivative of the vanishing polynomial, at the points.
Denominators(xs) == MultiEvaluate(Derivative(ProductFromRoots(xs)), xs)

LagrangeDefined(xs) == xs = <<>> \/ \A j \in DOMAIN xs : Denominators(xs)[j] # 0

LagrangeBasisFrom(xs, z, denominators) ==
    [j \in DOMAIN xs |-> PolyScale(PolyDivRem(z, LinearFactor(xs[j])).q, InvOf(denominators[j]))]
LagrangeBasis(xs) == LagrangeBasisFrom(xs, ProductFromRoots(xs), Denominators(xs))

\* QueryContext::interpolate, given one value per point.
LinearCombination(ys, fs) ==
    LET sum[j \in 0..Len(ys)] ==
            IF j = 0 THEN <<>> ELSE PolyAdd(sum[j - 1], PolyScale(fs[j], ys[j]))
    IN sum[Len(ys)]
Interpolate(xs, ys) == LinearCombination(ys, LagrangeBasis(xs))

DividesExactly(f, g) == PolyDivRem(f, g).r = <<>>
=============================================================================
