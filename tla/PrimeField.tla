----------------------------- MODULE PrimeField -----------------------------
(***************************************************************************)
(* The scalar field that the polynomials, the openings and the committed   *)
(* constraints are over: the integers modulo P (ark_bls12_381::Fr in the   *)
(* implementation, a small prime in the instances).                        *)
(***************************************************************************)
EXTENDS Integers

CONSTANT P

Field == 0..(P - 1)

ASSUME OrderAssumption == P \in Nat /\ P > 1
\* P is prime: there are no zero divisors, and nonzero elements have inverses.
ASSUME NoZeroDivisors == \A x, y \in Field : (x * y) % P = 0 => x = 0 \/ y = 0
ASSUME Invertible == \A x \in Field \ {0} : \E y \in Field : (x * y) % P = 1

InvOf(x) == CHOOSE y \in Field : (x * y) % P = 1
=============================================================================
