------------------------------- MODULE MCSp1 -------------------------------
(***************************************************************************)
(* Instances of Sp1Host for TLC.                                           *)
(***************************************************************************)
EXTENDS Sp1Host, MCSmt

\* Four-bit keys 0000, 0001, 1110: at depth 3 addresses 1 and 2 share their path.
DeepClashKeys ==
    KeysOf(<< <<0, 0, 0, 0>>, <<0, 0, 0, 1>>, <<1, 1, 1, 0>> >>)
\* smt-init accepts a negative reserve balance: address 2 may start at -1.
SignedReserves ==
    { [a \in {1, 2, 3} |-> 1], [a \in {1, 2} |-> 2 - 3 * (a - 1)],
      [a \in {2} |-> 0], [a \in {1, 3} |-> 0] }
=============================================================================
