------------------------------ MODULE Balances ------------------------------
(***************************************************************************)
(* Addresses in string order, and i128 sums over them.                     *)
(*                                                                         *)
(* The implementation keeps its collections in BTreeMap<String, _> or in   *)
(* lists sorted by address, so only the ORDER of the address strings       *)
(* matters: they are numbered 1..N in that order.  A canonical delta list  *)
(* (strictly sorted, no zero delta) is a function from a set of addresses  *)
(* to nonzero integers.                                                    *)
(***************************************************************************)
EXTENDS Integers

CONSTANTS
    N,             \* number of address strings that occur
    MaxI128,       \* i128::MAX
    OverflowPanics \* overflow-checks: TRUE in the dev profile (a plain `+`
                   \* that overflows panics), FALSE in release (it wraps)

ASSUME NAssumption == N \in Nat
ASSUME WidthAssumption == MaxI128 \in Nat /\ OverflowPanics \in BOOLEAN

Address == 1..N

InI128(x) == -(MaxI128 + 1) <= x /\ x <= MaxI128

\* The value of an i128 expression whose exact result is x, in release mode.
Wrap(x) == IF InI128(x) THEN x
           ELSE ((x + MaxI128 + 1) % (2 * (MaxI128 + 1))) - (MaxI128 + 1)

\* PartialSums(f)[n]: the running sum of f over the first n addresses.
PartialSums(f) ==
    LET sum[n \in 0..N] == IF n = 0 THEN 0 ELSE sum[n - 1] + f[n] IN sum

Total(f) == PartialSums(f)[N]

\* No addition of the loop `for a in addresses { acc += f[a] }` overflows.
SumFits(f) == \A n \in 0..N : InI128(PartialSums(f)[n])

\* A partial function on addresses, extended by zero.
OrZero(f) == [a \in Address |-> IF a \in DOMAIN f THEN f[a] ELSE 0]

Smallest(S) == CHOOSE x \in S : \A y \in S : x <= y
Largest(S)  == CHOOSE x \in S : \A y \in S : y <= x
=============================================================================
