------------------------------ MODULE Sp1Guest ------------------------------
(***************************************************************************)
(* The two programs that run inside the SP1 zkVM (crates/sp1-programs):    *)
(* they see only their input, recompute the old root from compact proofs   *)
(* and derive the new root without the tree.  A failed assert! ends the    *)
(* program without public values: the result is Rejected.                  *)
(***************************************************************************)
EXTENDS Multiproof

Rejected == [accepted |-> FALSE]

\* The root that a leaf and its sibling path give.
GuestMembershipRoot(a, leaf, siblings) ==
    FoldUp(KeyOf(a), Depth, LeafHash(KeyOf(a), leaf.balance, leaf.salt), siblings)

GuestDefaultVerifies(root, a, proof) ==
    /\ proof.depth <= Depth
    /\ DOMAIN proof.siblings = 0..(proof.depth - 1)
    /\ FoldUp(KeyOf(a), proof.depth, DefaultHash[Depth - proof.depth], proof.siblings) = root

CollisionLeaf(proof) == [balance |-> proof.balance, salt |-> proof.salt]

GuestCollisionVerifies(root, a, proof) ==
    /\ KeyOf(proof.address) # KeyOf(a)
    /\ DOMAIN proof.siblings = 0..(Depth - 1)
    /\ GuestMembershipRoot(proof.address, CollisionLeaf(proof), proof.siblings) = root

-----------------------------------------------------------------------------
(* smt-update *)

\* checked_add over the deltas of the members.
GuestAggregateWrapping(delta) ==
    [fits |-> TRUE, sum |-> Wrap(Total(OrZero(delta)))]
GuestAggregate(delta) ==
    [fits |-> SumFits(OrZero(delta)), sum |-> Total(OrZero(delta))]

\* The changed nodes of level l and, where no node is, the siblings given for it.
WithSiblingsLastWins(nodes, siblings, l) ==
    LET given == {x[2] : x \in {y \in DOMAIN siblings : y[1] = l}}
    IN [i \in DOMAIN nodes \cup given |->
            IF i \in given THEN <<siblings[<<l, i>>], siblings[<<l, i>>]>> ELSE nodes[i]]
WithSiblings(nodes, siblings, l) ==
    LET given == {x[2] : x \in {y \in DOMAIN siblings : y[1] = l}}
    IN [i \in DOMAIN nodes \cup given |->
            IF i \in DOMAIN nodes THEN nodes[i]
            ELSE <<siblings[<<l, i>>], siblings[<<l, i>>]>>]

\* The level above: a node is a pair of its old and its new digest.
ParentPairs(nodes, l) ==
    LET Pair(i) == IF i \in DOMAIN nodes THEN nodes[i]
                   ELSE <<DefaultHash[l], DefaultHash[l]>>
        Join(i, age) == InternalHash(Depth - l - 1, Pair(2 * i)[age], Pair(2 * i + 1)[age])
    IN [i \in {j \div 2 : j \in DOMAIN nodes} |-> <<Join(i, 1), Join(i, 2)>>]

\* compute_updated_roots: old and new root at once, level by level, from the
\* changed leaves (index -> <<old, new>>) and the siblings (<<level, index>>).
UpdatedRoots(changed, siblings) ==
    LET level[l \in 0..Depth] ==
            IF l = 0 THEN changed
            ELSE ParentPairs(WithSiblings(level[l - 1], siblings, l - 1), l - 1)
    IN level[Depth][Smallest(DOMAIN level[Depth])]

\* The checks of one entry against the old root, on its expanded proof.
EntryVerifies(oldRoot, a, entry, proof) ==
    CASE proof.kind = "member" ->
            /\ entry.oldLeaf # <<>>
            /\ DOMAIN proof.siblings = 0..(Depth - 1)
            /\ GuestMembershipRoot(a, entry.oldLeaf, proof.siblings) = oldRoot
            /\ InI128(entry.oldLeaf.balance + entry.delta)
            /\ entry.oldLeaf.balance + entry.delta >= 0
      [] proof.kind = "default" -> GuestDefaultVerifies(oldRoot, a, proof)
      [] proof.kind = "collision" ->
            /\ CommonPrefixLen(KeyOf(a), KeyOf(proof.address)) = Depth
            /\ GuestCollisionVerifies(oldRoot, a, proof)

GuestUpdate(input) ==
    LET E == input.entries
        proofs == [a \in DOMAIN E |-> ExpandProof(input.frontier, E[a].proof)]
        Members == {a \in DOMAIN E : proofs[a].kind = "member"}
        Place(a, l) == <<l, SiblingIndex(PathIndex(KeyOf(a), Depth)[l])>>
        Places == {Place(a, l) : a \in Members, l \in 0..(Depth - 1)}
        GivenAt(p) == {proofs[a].siblings[p[1]] :
                          a \in {m \in Members : Place(m, p[1]) = p}}
        siblings == [p \in Places |-> CHOOSE h \in GivenAt(p) : TRUE]
        LeafPair(a) == << LeafHash(KeyOf(a), E[a].oldLeaf.balance, E[a].oldLeaf.salt),
                          LeafHash(KeyOf(a), E[a].oldLeaf.balance + E[a].delta,
                                   E[a].oldLeaf.salt) >>
        \* of two changed leaves with one index the later entry is kept
        changed == [i \in {LeafIndex(a) : a \in Members} |->
                        LeafPair(Largest({a \in Members : LeafIndex(a) = i}))]
        roots == IF Members = {} THEN <<input.oldRoot, input.oldRoot>>
                 ELSE UpdatedRoots(changed, siblings)
        aggregate == GuestAggregate([a \in Members |-> E[a].delta])
    IN IF /\ \A a \in DOMAIN E : /\ RefsInRange(input.frontier, E[a].proof)
                                 /\ EntryVerifies(input.oldRoot, a, E[a], proofs[a])
          /\ \A p \in Places : Cardinality(GivenAt(p)) = 1
          /\ aggregate.fits
          /\ roots[1] = input.oldRoot
          /\ InI128(input.oldTotal + aggregate.sum)
       THEN [accepted |-> TRUE, oldRoot |-> input.oldRoot, newRoot |-> roots[2],
             delta |-> aggregate.sum, members |-> Members,
             newTotal |-> input.oldTotal + aggregate.sum]
       ELSE Rejected

-----------------------------------------------------------------------------
(* smt-insert *)

ExpandDefaultToMembershipFlat(proof) ==
    LET height == Depth - proof.depth
    IN [l \in 0..(Depth - 1) |->
            IF l < height THEN DefaultHash[0]
            ELSE proof.siblings[proof.depth - 1 - (l - height)]]

\* The siblings of the whole path from those of a default subtree: defaults
\* below it, then the given ones from last to first.
ExpandDefaultToMembership(proof) ==
    LET height == Depth - proof.depth
    IN [l \in 0..(Depth - 1) |->
            IF l < height THEN DefaultHash[l]
            ELSE proof.siblings[proof.depth - 1 - (l - height)]]

GuestInsert(input) ==
    LET proof == ExpandProof(input.frontier, input.proof)
        siblings == IF proof.kind = "default" THEN ExpandDefaultToMembership(proof)
                    ELSE proof.siblings
        newLeaf == [balance |-> input.balance, salt |-> input.salt]
    IN IF /\ input.balance >= 0
          /\ RefsInRange(input.frontier, input.proof)
          /\ \/ proof.kind = "default" /\ GuestDefaultVerifies(input.oldRoot, input.address, proof)
             \/ proof.kind = "collision" /\ GuestCollisionVerifies(input.oldRoot, input.address, proof)
          /\ InI128(input.oldTotal + input.balance)
       THEN [accepted |-> TRUE, oldRoot |-> input.oldRoot,
             newRoot |-> GuestMembershipRoot(input.address, newLeaf, siblings),
             delta |-> input.balance, newTotal |-> input.oldTotal + input.balance]
       ELSE Rejected
=============================================================================
