------------------------------ MODULE Sp1Host ------------------------------
(***************************************************************************)
(* crates/sp1-host: an operation is applied by the library, replayed by    *)
(* the guest on inputs rebuilt from the old state, and kept only if the    *)
(* guest's public values are those of the applied operation.               *)
(***************************************************************************)
EXTENDS Smt, Sp1Guest

NoLeaf == <<>>

\* build_sp1_stdin: the proofs are taken anew from the tree, not from w.
UpdateStdin(w) ==
    LET multiproof == CompactMultiproof(ProofsFor(leaves, layers, DOMAIN w.delta))
    IN [oldRoot |-> Root(layers), oldTotal |-> total, frontier |-> multiproof.frontier,
        entries |-> [a \in DOMAIN w.delta |->
            [delta |-> w.delta[a],
             oldLeaf |-> IF a \in DOMAIN leaves THEN leaves[a] ELSE NoLeaf,
             proof |-> multiproof.entries[a]]]]

GuestConfirmsUpdate(w) ==
    LET pv == GuestUpdate(UpdateStdin(w))
    IN /\ pv.accepted
       /\ pv.oldRoot = Root(layers)
       /\ pv.newRoot = Root(UpdatedLayers(w))
       /\ pv.delta = Aggregate(w)
       /\ pv.members = MemberEntries(w)
       /\ pv.newTotal = UpdatedTotal(w)

ProveUpdate(w) == ApplyUpdate(w) /\ GuestConfirmsUpdate(w)

InsertStdin(w) ==
    LET multiproof == CompactMultiproof(ProofsFor(leaves, layers, {w.address}))
    IN [oldRoot |-> Root(layers), oldTotal |-> total, frontier |-> multiproof.frontier,
        address |-> w.address, balance |-> w.balance, salt |-> w.salt,
        proof |-> multiproof.entries[w.address]]

GuestConfirmsInsert(w) ==
    LET pv == GuestInsert(InsertStdin(w))
    IN /\ pv.accepted
       /\ pv.oldRoot = Root(layers)
       /\ pv.newRoot = Root(InsertedLayers(w))
       /\ pv.delta = w.balance
       /\ pv.newTotal = Wrap(total + w.balance)

ProveInsert(w) == ApplyInsert(w) /\ GuestConfirmsInsert(w)

ProverNext ==
    \/ \E d \in DeltaLists : BuildUpdateWitness(d)
    \/ \E a \in Address, b \in InsertBalances : BuildInsertWitness(a, b)
    \/ \E w \in held : Discard(w) \/ ProveUpdate(w) \/ ProveInsert(w)
    \/ Reload

ProverSpec == Init /\ [][ProverNext]_vars

-----------------------------------------------------------------------------
(* Properties *)

ExactUpdate(w) ==
    /\ SumFits(OrZero(MemberDelta(w)))
    /\ InI128(total + Total(OrZero(MemberDelta(w))))

\* The two implementations of the update agree: whatever update the library
\* accepts, the guest confirms with the same roots, flags, delta and total,
\* unless an i128 sum overflows, which only the guest notices in release mode.
GuestAgreesOnUpdates ==
    \A w \in held :
        w.op = "update" /\ UpdateVerifies(w) /\ UpdateDoesNotPanic(w)
            => GuestConfirmsUpdate(w) = ExactUpdate(w)

\* The two implementations of the insertion agree: an insertion that the
\* library accepts is confirmed by the guest.
GuestAgreesOnInserts ==
    \A w \in held :
        w.op = "insert" /\ InsertVerifies(w) /\ InI128(total + w.balance)
            => GuestConfirmsInsert(w)

\* How far the two insertions do agree: over a colliding leaf always, into a
\* default subtree exactly when the siblings of its path read the same in both
\* directions.
GuestConfirmsMirroredInserts ==
    \A w \in held :
        w.op = "insert" /\ InsertVerifies(w) /\ InI128(total + w.balance)
            => LET now == ProofFor(leaves, layers, w.address)
                   mirrored == \A o \in DOMAIN now.siblings :
                                  now.siblings[o] = now.siblings[now.depth - 1 - o]
               IN GuestConfirmsInsert(w) = (now.kind = "default" => mirrored)

\* Whatever addresses a compact multiproof is asked for, expanding it gives
\* back the proofs, every stored digest is stored once and is referred to.
MultiproofRoundTrips ==
    \A As \in SUBSET Address :
        LET proofs == ProofsFor(leaves, layers, As)
            compact == CompactMultiproof(proofs)
            Used(a) == {compact.entries[a].siblings[l].index :
                          l \in {m \in DOMAIN compact.entries[a].siblings :
                                    compact.entries[a].siblings[m].ref = "frontier"}}
        IN /\ [a \in As |-> ExpandProof(compact.frontier, compact.entries[a])] = proofs
           /\ IsInjective(compact.frontier)
           /\ UNION {Used(a) : a \in As} = DOMAIN compact.frontier
=============================================================================
