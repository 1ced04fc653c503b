----------------------------- MODULE MCFixedSet -----------------------------
(***************************************************************************)
(* Instances of FixedSet for TLC.                                          *)
(***************************************************************************)
EXTENDS FixedSet, TLC

Encodings == <<2, 5, 11>>
ReserveLists == { (1 :> 1), (1 :> 3) @@ (2 :> 2) }

\* The last window has more addresses than either polynomial has roots; the
\* one before it overflows when both of its addresses are tracked.
DeltaWindows == { <<>>, (1 :> 1), (2 :> 1), (3 :> 2),
                  (1 :> 5) @@ (2 :> 5), (1 :> -2) @@ (2 :> 1) @@ (3 :> 1) }
TwoLabels == {"a", "b"}

ASSUME FieldShowsWraps
=============================================================================
