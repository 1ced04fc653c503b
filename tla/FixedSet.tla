------------------------------ MODULE FixedSet ------------------------------
(***************************************************************************)
(* All histories of fixed-set states over one SRS file: states are         *)
(* initialized, extended, forked and extended again, and any two of them   *)
(* may be given to the verifier with any window and proof.                 *)
(***************************************************************************)
EXTENDS FixedSetOps

CONSTANTS
    MaxDegree,  \* max_degree of the one SRS file
    Labels,     \* state-root labels that callers give
    MaxStates   \* bound: states initialized or produced

ASSUME SrsAssumption == MaxDegree \in Nat

VARIABLES
    states,  \* the states (state files) there are
    updates  \* the updates made, each with the proof written for it

vars == <<states, updates>>

Init == states = {} /\ updates = {}

Initialize(r, label, srs) ==
    /\ Initializes(r, label, srs)
    /\ Cardinality(states) < MaxStates
    /\ states' = states \cup {InitialState(r, label, srs)}
    /\ UNCHANGED updates

Record(s, d, new, proof) ==
    /\ states' = states \cup {new}
    /\ updates' = updates \cup {[old |-> s, window |-> d, new |-> new, proof |-> proof]}

ApplyUpdate(s, d, label, srs) ==
    /\ Applies(s, d, srs)
    /\ Cardinality(states) < MaxStates
    /\ \E proof \in {UpdateProof(s, d, label)} : Record(s, d, NextState(s, proof), proof)

Next ==
    \/ \E r \in Reserves, label \in Labels : Initialize(r, label, WholeSrs(MaxDegree))
    \/ \E s \in states, d \in Windows, label \in Labels :
          \/ ApplyUpdate(s, d, label, WholeSrs(MaxDegree))
          \/ ApplyUpdate(s, d, label, PrefixForUpdate(MaxDegree, s, d))

Spec == Init /\ [][Next]_vars

-----------------------------------------------------------------------------
(* Properties *)

\* Each state has a total in i128 and carries its commitment with its blind, and
\* an update joins two states there are (StoredState, StoredProof).
TypeOK ==
    /\ \A s \in states : /\ s.label \in Labels
                         /\ s.total \in Int /\ InI128(s.total)
                         /\ s.commitment.value \in Field
                         /\ s.commitment.blind = s.blind
    /\ \A x \in updates : /\ x.window \in Windows
                          /\ {x.old, x.new} \subseteq states

\* A sum of deltas outside i128 wraps to another element of the field.
FieldShowsWraps ==
    \A d \in Windows : \A S \in SUBSET DOMAIN d :
        LET t == Total(OrZero([a \in S |-> d[a]]))
        IN Wrap(t) % P = t % P => InI128(t)

\* An update that was made verifies against the two states it joins, whatever
\* prefix of the SRS either side loaded; the only exception is a sum of deltas
\* outside i128, which the field of the constraints does not wrap.
HonestUpdatesVerify ==
    \A x \in updates :
        VerifyUpdate(PrefixForVerify(MaxDegree, x.window), x.old, x.window, x.new, x.proof) = InI128(Owed(x.old, x.window))

\* Whatever states, windows and proofs are put together, out of order, from
\* forks or with repeated labels: if they verify, the accumulator is the same
\* and the total and the committed value moved by exactly what the window owes.
VerifiedMeansAdjusted ==
    \A old, new \in states, d \in Windows, x \in updates :
        VerifyUpdate(PrefixForVerify(MaxDegree, d), old, d, new, x.proof)
            => /\ new.poly = old.poly
               /\ new.total = Wrap(old.total + Owed(old, d))
               /\ new.commitment.value = (old.commitment.value + Owed(old, d)) % P

\* Of the windows within the degree of the SRS, the empty one alone cannot be
\* applied: the encodings of its addresses differ, and the interpolation of the
\* values there always leaves a difference that the vanishing polynomial divides.
WindowsOpen ==
    \A s \in states, d \in Windows :
        Cardinality(DOMAIN d) <= MaxDegree
            => (Opens(s.poly, d, WholeSrs(MaxDegree)) <=> DOMAIN d # {})

\* A window within the degree of the SRS can be applied to every state.
EveryWindowApplies ==
    \A s \in states, d \in Windows :
        Cardinality(DOMAIN d) <= MaxDegree => Opens(s.poly, d, WholeSrs(MaxDegree))

\* The powers that the update command loads are enough for the update.
PrefixSuffices ==
    \A s \in states, d \in Windows :
        Opens(s.poly, d, WholeSrs(MaxDegree)) => Opens(s.poly, d, PrefixForUpdate(MaxDegree, s, d))
=============================================================================
