------------------------------ MODULE SmtTree ------------------------------
(***************************************************************************)
(* The salted sparse Merkle tree (crates/smt: tree, key, hash, proof and   *)
(* the proof verifiers of update.rs).                                      *)
(*                                                                         *)
(* Poseidon2 is symbolic: a digest is the tuple of what was hashed, so     *)
(* equal digests mean equal inputs.  What the code does to an address and  *)
(* to a balance before hashing them (32-bit words reduced modulo the       *)
(* field) is kept.  A Vec indexed from 0 is a function on 0..len-1.        *)
(***************************************************************************)
EXTENDS Balances, Sequences

CONSTANTS
    Depth,        \* SparseMerkleTree.depth
    KeyBits,      \* width of a key: 256
    IndexBits,    \* width of a node index: 128
    WordModulus,  \* 2^32, one word of a hashed i128
    FieldModulus, \* the SP1 field's prime
    Normal,       \* normalize_address, as a function on Address
    Words,        \* the bytes of an address, as its big-endian words
    KeyHash       \* Poseidon2 of reduced words, as a key: a sequence of
                  \* KeyBits bits, most significant first

ASSUME DepthAssumption ==
    Depth \in Nat /\ KeyBits \in Nat /\ IndexBits \in Nat /\ Depth <= KeyBits
ASSUME WordAssumption ==
    /\ FieldModulus \in Nat \ {0}
    /\ WordModulus \in Nat
    /\ FieldModulus <= WordModulus
ASSUME NormalAssumption ==
    /\ Normal \in [Address -> Address]
    /\ \A a \in Address : Normal[Normal[a]] = Normal[a]
ASSUME AddressWordsAssumption ==
    /\ Words \in [Address -> Seq(0..(WordModulus - 1))]
    /\ \A a, b \in Address : Words[Normal[a]] = Words[Normal[b]] => Normal[a] = Normal[b]

-----------------------------------------------------------------------------
(* Keys and paths *)

\* What key_hash hashes: the words of the normal form, each modulo the field.
\* Two normal forms whose words differ by the prime have one key.
KeyInput(a) ==
    [i \in DOMAIN Words[Normal[a]] |-> Words[Normal[a]][i] % FieldModulus]

KeyOf(a) == KeyHash[KeyInput(a)]

ASSUME KeyAssumption ==
    /\ \A a \in Address : KeyHash[KeyInput(a)] \in [1..KeyBits -> {0, 1}]
    /\ \A a, b \in Address : KeyOf(a) = KeyOf(b) => KeyInput(a) = KeyInput(b)

\* The bit that chooses the child below the node at depth d.
KeyBit(key, d) == key[d + 1]

\* The number of values of n bits.
Pow2(n) == LET pow[i \in 0..n] == IF i = 0 THEN 1 ELSE 2 * pow[i - 1] IN pow[n]
IndexLimit == Pow2(IndexBits)

\* The first len bits of a key, shifted into an index of IndexBits bits; those
\* shifted past its top are lost.
PrefixIndex(key, len) ==
    LET index[d \in 0..len] ==
            IF d = 0 THEN 0 ELSE (2 * index[d - 1] + KeyBit(key, d - 1)) % IndexLimit
    IN index[len]

\* The indices on the way up from depth len: index /= 2.
PathIndex(key, len) ==
    LET index[l \in 0..len] == IF l = 0 THEN PrefixIndex(key, len) ELSE index[l - 1] \div 2
    IN index

SiblingIndex(i) == IF i % 2 = 0 THEN i + 1 ELSE i - 1

CommonPrefixLen(k1, k2) ==
    Largest({n \in 0..Depth : \A d \in 0..(n - 1) : KeyBit(k1, d) = KeyBit(k2, d)})

-----------------------------------------------------------------------------
(* Digests *)

\* i128_to_fields, at two words: big-endian words, each taken modulo the field.
BalanceWords(b) == << ((b \div WordModulus) % WordModulus) % FieldModulus,
                      (b % WordModulus) % FieldModulus >>

LeafHash(key, balance, salt) == <<"leaf", key, BalanceWords(balance), salt>>
InternalHash(d, left, right) == <<"node", d, left, right>>

\* DefaultHash[h]: the root of an empty subtree of height h.
DefaultHash[h \in 0..Depth] ==
    IF h = 0 THEN <<"empty">>
    ELSE InternalHash(Depth - h, DefaultHash[h - 1], DefaultHash[h - 1])

HashOfLeaf(leaves, a) == LeafHash(KeyOf(a), leaves[a].balance, leaves[a].salt)

-----------------------------------------------------------------------------
(* The tree: leaves is the BTreeMap address -> leaf, layers[l] the map from  *)
(* node index to digest of the layer l levels above the leaves.              *)

Put(f, x, v) == [y \in DOMAIN f \cup {x} |-> IF y = x THEN v ELSE f[y]]

NodeAt(layers, l, i) ==
    IF i \in DOMAIN layers[l] THEN layers[l][i] ELSE DefaultHash[l]

Root(layers) == NodeAt(layers, Depth, 0)

LeafIndex(a) == PrefixIndex(KeyOf(a), Depth)

\* Of two leaves with one index the later address wins.
LeafLayer(leaves) ==
    [i \in {LeafIndex(a) : a \in DOMAIN leaves} |->
        HashOfLeaf(leaves, Largest({a \in DOMAIN leaves : LeafIndex(a) = i}))]

\* Layer l + 1 from layer l.
ParentLayer(layer, l) ==
    LET Child(i) == IF i \in DOMAIN layer THEN layer[i] ELSE DefaultHash[l]
    IN [i \in {j \div 2 : j \in DOMAIN layer} |->
            InternalHash(Depth - l - 1, Child(2 * i), Child(2 * i + 1))]

ComputeLayers(leaves) ==
    LET layer[l \in 0..Depth] ==
            IF l = 0 THEN LeafLayer(leaves) ELSE ParentLayer(layer[l - 1], l - 1)
    IN layer

UpsertLayersBelowRoot(layers, key, leafHash) ==
    [l \in 0..(Depth - 1) |-> Put(layers[l], PathIndex(key, Depth)[l], leafHash)]

UpsertLayersOnDefaults(layers, key, leafHash) ==
    LET index == PathIndex(key, Depth)
        path[l \in 0..Depth] ==
            IF l = 0 THEN leafHash
            ELSE IF index[l - 1] % 2 = 0
                   THEN InternalHash(Depth - l, path[l - 1], DefaultHash[l - 1])
                   ELSE InternalHash(Depth - l, DefaultHash[l - 1], path[l - 1])
    IN [l \in 0..Depth |-> Put(layers[l], index[l], path[l])]

\* upsert: write the leaf's slot and rehash its path, reading the siblings stored.
UpsertLayers(layers, key, leafHash) ==
    LET index == PathIndex(key, Depth)
        path[l \in 0..Depth] ==
            IF l = 0 THEN leafHash
            ELSE LET sibling == NodeAt(layers, l - 1, SiblingIndex(index[l - 1]))
                 IN IF index[l - 1] % 2 = 0
                      THEN InternalHash(Depth - l, path[l - 1], sibling)
                      ELSE InternalHash(Depth - l, sibling, path[l - 1])
    IN [l \in 0..Depth |-> Put(layers[l], index[l], path[l])]

\* The upserts of `written`, in address order, on layers.
UpsertAll(layers, leaves, written) ==
    LET after[n \in 0..N] ==
            IF n = 0 THEN layers
            ELSE IF n \in written
                   THEN UpsertLayers(after[n - 1], KeyOf(n), HashOfLeaf(leaves, n))
                   ELSE after[n - 1]
    IN after[N]

-----------------------------------------------------------------------------
(* Proofs of membership and of non-membership *)

MembershipSiblings(layers, key) ==
    LET index == PathIndex(key, Depth)
    IN [l \in 0..(Depth - 1) |-> NodeAt(layers, l, SiblingIndex(index[l]))]

DefaultSiblings(layers, key, d) ==
    LET index == PathIndex(key, d)
    IN [o \in 0..(d - 1) |-> NodeAt(layers, Depth - d + o, SiblingIndex(index[o]))]

SharesPath(leaves, key) ==
    {a \in DOMAIN leaves : CommonPrefixLen(KeyOf(a), key) = Depth}

DefaultSubtreeDepthAtPrefix(leaves, key) ==
    IF DOMAIN leaves = {} THEN 0
    ELSE Largest({CommonPrefixLen(KeyOf(a), key) : a \in DOMAIN leaves})

DefaultSubtreeDepth(leaves, key) ==
    IF DOMAIN leaves = {} THEN 0
    ELSE Smallest({Depth,
            Largest({CommonPrefixLen(KeyOf(a), key) : a \in DOMAIN leaves}) + 1})

MembershipProof(siblings) == [kind |-> "member", siblings |-> siblings]

\* proof_for: the leaf is looked up by the address as spelled, the rest by key.
ProofFor(leaves, layers, a) ==
    LET key == KeyOf(a)
        other == Smallest(SharesPath(leaves, key))
        d == DefaultSubtreeDepth(leaves, key)
    IN IF a \in DOMAIN leaves
         THEN MembershipProof(MembershipSiblings(layers, key))
       ELSE IF SharesPath(leaves, key) # {}
         THEN [kind |-> "collision", address |-> other,
               balance |-> leaves[other].balance, salt |-> leaves[other].salt,
               siblings |-> MembershipSiblings(layers, KeyOf(other))]
       ELSE [kind |-> "default", depth |-> d,
             siblings |-> DefaultSiblings(layers, key, d)]

\* The digest at the root of a path that starts d levels below it.
FoldUp(key, d, start, siblings) ==
    LET up[l \in 0..d] ==
            IF l = 0 THEN start
            ELSE IF KeyBit(key, d - l) = 1
                   THEN InternalHash(d - l, siblings[l - 1], up[l - 1])
                   ELSE InternalHash(d - l, up[l - 1], siblings[l - 1])
    IN up[d]

MembershipVerifies(root, key, balance, salt, siblings) ==
    /\ DOMAIN siblings = 0..(Depth - 1)
    /\ FoldUp(key, Depth, LeafHash(key, balance, salt), siblings) = root

DefaultVerifiesShapeOnly(root, key, proof) ==
    proof.depth <= Depth /\ DOMAIN proof.siblings = 0..(proof.depth - 1)

DefaultVerifies(root, key, proof) ==
    /\ proof.depth <= Depth
    /\ DOMAIN proof.siblings = 0..(proof.depth - 1)
    /\ FoldUp(key, proof.depth, DefaultHash[Depth - proof.depth], proof.siblings) = root

CollisionVerifiesSameKey(root, key, proof) ==
    /\ CommonPrefixLen(key, KeyOf(proof.address)) = Depth
    /\ MembershipVerifies(root, KeyOf(proof.address), proof.balance, proof.salt,
                          proof.siblings)

CollisionVerifiesPathOnly(root, key, proof) ==
    /\ KeyOf(proof.address) # key
    /\ CommonPrefixLen(key, KeyOf(proof.address)) = Depth

CollisionVerifies(root, key, proof) ==
    /\ KeyOf(proof.address) # key
    /\ CommonPrefixLen(key, KeyOf(proof.address)) = Depth
    /\ MembershipVerifies(root, KeyOf(proof.address), proof.balance, proof.salt,
                          proof.siblings)

NonMembershipVerifies(root, a, proof) ==
    \/ proof.kind = "default"   /\ DefaultVerifies(root, KeyOf(a), proof)
    \/ proof.kind = "collision" /\ CollisionVerifies(root, KeyOf(a), proof)

AddressProofVerifiesByLookup(leaves, layers, a, proof) ==
    \/ proof.kind = "member" /\ a \in DOMAIN leaves
    \/ NonMembershipVerifies(Root(layers), a, proof)

\* verify_address_proof: a membership proof is checked against the tree's own leaf.
AddressProofVerifies(leaves, layers, a, proof) ==
    \/ /\ proof.kind = "member"
       /\ a \in DOMAIN leaves
       /\ MembershipVerifies(Root(layers), KeyOf(a), leaves[a].balance,
                             leaves[a].salt, proof.siblings)
    \/ NonMembershipVerifies(Root(layers), a, proof)
=============================================================================
