----------------------------- MODULE Multiproof -----------------------------
(***************************************************************************)
(* The compact form of several address proofs (tree.rs compact_multiproof, *)
(* multiproof.rs): a sibling equal to the default of its level is not      *)
(* stored, and every other digest is stored once, in a shared frontier     *)
(* that the entries index.                                                 *)
(***************************************************************************)
EXTENDS SmtTree, Sequences, FiniteSets, Functions

\* The default digest of the level that sibling l of a proof belongs to.
DefaultAt(proof, l) ==
    DefaultHash[IF proof.kind = "default" THEN Depth - proof.depth + l ELSE l]

\* Sibling l of a proof has to be stored.
IsStored(proof, l) == l \in DOMAIN proof.siblings /\ proof.siblings[l] # DefaultAt(proof, l)

AddProofWithRepeats(frontier, proof) ==
    LET after[l \in 0..Depth] ==
            IF l = 0 THEN frontier
            ELSE IF IsStored(proof, l - 1)
                   THEN Append(after[l - 1], proof.siblings[l - 1])
                   ELSE after[l - 1]
    IN after[Depth]

\* The frontier after a proof: its stored siblings, each appended when it is first met.
AddProof(frontier, proof) ==
    LET after[l \in 0..Depth] ==
            IF l = 0 THEN frontier
            ELSE IF IsStored(proof, l - 1) /\ proof.siblings[l - 1] \notin Range(after[l - 1])
                   THEN Append(after[l - 1], proof.siblings[l - 1])
                   ELSE after[l - 1]
    IN after[Depth]

\* The frontier of proofs taken in address order.
Frontier(proofs) ==
    LET after[n \in 0..N] ==
            IF n = 0 THEN <<>>
            ELSE IF n \in DOMAIN proofs THEN AddProof(after[n - 1], proofs[n])
                   ELSE after[n - 1]
    IN after[N]

\* Sibling l of a proof in its compact form.
SiblingRef(frontier, proof, l) ==
    IF proof.siblings[l] = DefaultAt(proof, l) THEN [ref |-> "default"]
    ELSE [ref |-> "frontier",
          index |-> CHOOSE i \in DOMAIN frontier : frontier[i] = proof.siblings[l]]

CompactProof(frontier, proof) ==
    [proof EXCEPT !.siblings =
        [l \in DOMAIN proof.siblings |-> SiblingRef(frontier, proof, l)]]

CompactMultiproof(proofs) ==
    LET frontier == Frontier(proofs)
    IN [frontier |-> frontier,
        entries |-> [a \in DOMAIN proofs |-> CompactProof(frontier, proofs[a])]]

\* A reference past the end of the frontier is an error of the code.
RefsInRange(frontier, proof) ==
    \A l \in DOMAIN proof.siblings :
        proof.siblings[l].ref = "frontier" => proof.siblings[l].index \in DOMAIN frontier

ExpandProof(frontier, proof) ==
    [proof EXCEPT !.siblings =
        [l \in DOMAIN proof.siblings |->
            IF proof.siblings[l].ref = "default" THEN DefaultAt(proof, l)
            ELSE frontier[proof.siblings[l].index]]]

ProofsFor(leaves, layers, As) == [a \in As |-> ProofFor(leaves, layers, a)]
=============================================================================
