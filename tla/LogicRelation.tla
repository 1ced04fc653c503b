--------------------------- MODULE LogicRelation ---------------------------
(***************************************************************************)
(* The relation that an update proves in committed form (update_relation   *)
(* in crates/nizk-fixed-set/bp.rs): per address of the window a flag u,    *)
(* the evaluation y of the reserve polynomial, an advice value z, w = y*z; *)
(* and d, the aggregate delta as a field element.                          *)
(***************************************************************************)
EXTENDS Balances, PrimeField

Assignments(As) ==
    [u : [As -> Field], y : [As -> Field], z : [As -> Field], w : [As -> Field], d : Field]

FlaggedSum(v, delta) == Total(OrZero([a \in DOMAIN delta |-> delta[a] * v.u[a]]))

\* (1 - u)(w - 1) = 0 is what forces the flag of a root.
MemberConstraintOnW(u, w) == ((1 - u) * w) % P = 0
MemberConstraint(u, w) == ((1 - u) * (w - 1)) % P = 0

UpdateRelation(v, delta) ==
    /\ \A a \in DOMAIN delta :
          /\ (v.u[a] * v.u[a] - v.u[a]) % P = 0
          /\ (v.u[a] * v.y[a]) % P = 0
          /\ (v.y[a] * v.z[a] - v.w[a]) % P = 0
          /\ MemberConstraint(v.u[a], v.w[a])
    /\ (v.d - FlaggedSum(v, delta)) % P = 0

-----------------------------------------------------------------------------
(* What the relation is meant to say: the flags mark exactly the roots, and *)
(* d is the sum of the deltas of the roots.                                 *)

RootDeltas(y, delta) == [a \in {b \in DOMAIN delta : y[b] = 0} |-> delta[a]]

MembershipRelation(v, delta) ==
    /\ \A a \in DOMAIN delta : v.u[a] = IF v.y[a] = 0 THEN 1 ELSE 0
    /\ v.d = Total(OrZero(RootDeltas(v.y, delta))) % P

\* The prover's advice (build_update_witness): z inverts y away from the roots.
HonestAdvice(v, delta) ==
    \A a \in DOMAIN delta :
        /\ v.z[a] = IF v.y[a] = 0 THEN 0 ELSE InvOf(v.y[a])
        /\ v.w[a] = (v.y[a] * v.z[a]) % P
=============================================================================
