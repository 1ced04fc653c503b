-------------------------------- MODULE Smt --------------------------------
(***************************************************************************)
(* An SmtState and the operations on it (crates/smt: state, update,        *)
(* insert): witnesses are built against the current tree, may be held      *)
(* while other operations change it, and are verified against the tree     *)
(* they are finally applied to.  The store/load pair is one operation.     *)
(*                                                                         *)
(* The balance commitment is Pedersen, C(total, blind): additive, so the   *)
(* comparison of a new commitment with old + C(delta, blind) says that     *)
(* the new total is EXACTLY the old one plus the delta.  Blinds, the       *)
(* state-root label and the two dummy strings of an insert witness are     *)
(* left out: no operation branches on them but to compare what it wrote.   *)
(***************************************************************************)
EXTENDS SmtTree, FiniteSets

CONSTANTS
    Reserves,       \* reserve lists a state may be created from
    DeltaLists,     \* canonical delta lists (nonzero, on normalized addresses)
    InsertBalances, \* balances of the insert witnesses asked for
    MaxBalance,     \* bound: no operation that would raise a balance above it
    MaxHeld         \* bound: witnesses built and not yet discarded

ASSUME ReservesAssumption ==
    \A r \in Reserves : DOMAIN r \subseteq Address /\ r \in [DOMAIN r -> Int]
ASSUME DeltaListsAssumption ==
    \A d \in DeltaLists : DOMAIN d \subseteq Address /\ d \in [DOMAIN d -> Int \ {0}]
ASSUME InsertBalancesAssumption == InsertBalances \subseteq Int

VARIABLES
    leaves, \* tree.leaves
    layers, \* tree.layers
    total,  \* balance_total
    held    \* the witnesses a caller holds

vars == <<leaves, layers, total, held>>

FreshSalt(label, a, b) == <<label, a, b>>
Salts == {"init", "insert"} \X Address \X Int

BalanceOf(lv) == [a \in DOMAIN lv |-> lv[a].balance]

-----------------------------------------------------------------------------
(* SmtState::new on the leaves of a reserve list *)

NewLeaves(r) ==
    [a \in DOMAIN r |-> [balance |-> r[a], salt |-> FreshSalt("init", a, r[a])]]

Init ==
    \E r \in Reserves :
        /\ OverflowPanics => SumFits(OrZero(r))
        /\ leaves = NewLeaves(r)
        /\ layers = ComputeLayers(NewLeaves(r))
        /\ total = Wrap(Total(OrZero(r)))
        /\ held = {}

-----------------------------------------------------------------------------
(* Building witnesses *)

UpdateWitness(d) ==
    [op |-> "update", delta |-> d,
     proof |-> [a \in DOMAIN d |-> ProofFor(leaves, layers, a)]]

BuildUpdateWitness(d) ==
    /\ Cardinality(held) < MaxHeld
    /\ held' = held \cup {UpdateWitness(d)}
    /\ UNCHANGED <<leaves, layers, total>>

InsertWitness(a, b) ==
    [op |-> "insert", address |-> a, balance |-> b,
     salt |-> FreshSalt("insert", a, b), proof |-> ProofFor(leaves, layers, a)]

BuildInsertWitness(a, b) ==
    /\ b >= 0
    /\ ProofFor(leaves, layers, a).kind # "member"
    /\ Cardinality(held) < MaxHeld
    /\ held' = held \cup {InsertWitness(a, b)}
    /\ UNCHANGED <<leaves, layers, total>>

Discard(w) ==
    /\ held' = held \ {w}
    /\ UNCHANGED <<leaves, layers, total>>

-----------------------------------------------------------------------------
(* Applying an update *)

MemberEntries(w) == {a \in DOMAIN w.delta : w.proof[a].kind = "member"}
MemberDeltaOfAll(w) == [a \in DOMAIN w.delta |-> w.delta[a]]
MemberDelta(w)   == [a \in MemberEntries(w) |-> w.delta[a]]

UpdateVerifiesNoFloor(w) ==
    \A a \in DOMAIN w.delta : AddressProofVerifies(leaves, layers, a, w.proof[a])

\* Every entry is verified against the old tree before anything is written.
UpdateVerifies(w) ==
    /\ \A a \in DOMAIN w.delta : AddressProofVerifies(leaves, layers, a, w.proof[a])
    /\ \A a \in MemberEntries(w) :
          LET new == leaves[a].balance + w.delta[a] IN InI128(new) /\ new >= 0

Aggregate(w) == Wrap(Total(OrZero(MemberDelta(w))))

UpdateDoesNotPanic(w) ==
    OverflowPanics => /\ SumFits(OrZero(MemberDelta(w)))
                      /\ InI128(total + Aggregate(w))

UpdatedLeaves(w) ==
    [a \in DOMAIN leaves |->
        IF a \in MemberEntries(w)
          THEN [balance |-> leaves[a].balance + w.delta[a], salt |-> leaves[a].salt]
          ELSE leaves[a]]
UpdatedLayers(w) == UpsertAll(layers, UpdatedLeaves(w), MemberEntries(w))
UpdatedTotalSaturating(w) ==
    IF total + Aggregate(w) > MaxI128 THEN MaxI128
    ELSE IF total + Aggregate(w) < -(MaxI128 + 1) THEN -(MaxI128 + 1)
    ELSE total + Aggregate(w)
UpdatedTotal(w)  == Wrap(total + Aggregate(w))

\* apply_update_in_place up to its commitment check.
WriteUpdate(w) ==
    /\ UpdateVerifies(w)
    /\ UpdateDoesNotPanic(w)
    /\ \A a \in MemberEntries(w) : leaves[a].balance + w.delta[a] <= MaxBalance
    /\ leaves' = UpdatedLeaves(w)
    /\ layers' = UpdatedLayers(w)
    /\ total' = UpdatedTotal(w)
    /\ UNCHANGED held

CommitmentMoves(delta) == total' = total + delta

ApplyUpdate(w) == w.op = "update" /\ WriteUpdate(w) /\ CommitmentMoves(Aggregate(w))

\* The in-place form has already written the state when the check fails.
LateRejectedUpdate(w) ==
    w.op = "update" /\ WriteUpdate(w) /\ ~CommitmentMoves(Aggregate(w))

-----------------------------------------------------------------------------
(* Applying an insertion *)

InsertVerifies(w) ==
    /\ w.address \notin DOMAIN leaves
    /\ NonMembershipVerifies(Root(layers), w.address, w.proof)
    /\ w.balance >= 0

InsertedLeaves(w) == Put(leaves, w.address, [balance |-> w.balance, salt |-> w.salt])
InsertedLayers(w) == UpsertAll(layers, InsertedLeaves(w), {w.address})

WriteInsert(w) ==
    /\ InsertVerifies(w)
    /\ OverflowPanics => InI128(total + w.balance)
    /\ leaves' = InsertedLeaves(w)
    /\ layers' = InsertedLayers(w)
    /\ total' = Wrap(total + w.balance)
    /\ UNCHANGED held

ApplyInsert(w) == w.op = "insert" /\ WriteInsert(w) /\ CommitmentMoves(w.balance)

LateRejectedInsert(w) ==
    w.op = "insert" /\ WriteInsert(w) /\ ~CommitmentMoves(w.balance)

-----------------------------------------------------------------------------
(* to_stored then from_stored: the tree is recomputed from the leaf list,   *)
(* the total from its balances, and both must reproduce what was stored.    *)

Reloadable ==
    /\ OverflowPanics => SumFits(OrZero(BalanceOf(leaves)))
    /\ Root(ComputeLayers(leaves)) = Root(layers)
    /\ Wrap(Total(OrZero(BalanceOf(leaves)))) = total

Reload ==
    /\ Reloadable
    /\ layers' = ComputeLayers(leaves)
    /\ UNCHANGED <<leaves, total, held>>

-----------------------------------------------------------------------------

Next ==
    \/ \E d \in DeltaLists : BuildUpdateWitness(d)
    \/ \E a \in Address, b \in InsertBalances : BuildInsertWitness(a, b)
    \/ \E w \in held : \/ Discard(w)
                       \/ ApplyUpdate(w)
                       \/ LateRejectedUpdate(w)
                       \/ ApplyInsert(w)
                       \/ LateRejectedInsert(w)
    \/ Reload

Spec == Init /\ [][Next]_vars

-----------------------------------------------------------------------------
(* Properties *)

\* Leaves are records of a balance and a salt under known addresses, there is
\* one layer per level of the tree, and a held witness is one that was asked
\* for: an entry per delta, or the leaf of an insertion (state.rs, update.rs,
\* insert.rs).
WitnessOK(w) ==
    \/ /\ w.op = "update"
       /\ w.delta \in DeltaLists
       /\ DOMAIN w.proof = DOMAIN w.delta
    \/ /\ w.op = "insert"
       /\ w.address \in Address
       /\ w.balance \in InsertBalances
       /\ w.salt \in Salts

TypeOK ==
    /\ DOMAIN leaves \subseteq Address
    /\ leaves \in [DOMAIN leaves -> [balance : Int, salt : Salts]]
    /\ DOMAIN layers = 0..Depth
    /\ total \in Int
    /\ \A w \in held : WitnessOK(w)

\* balance_total, which updates and insertions only ever adjust by a delta,
\* is the sum of the balances of all leaves.
TotalIsSum == total = Total(OrZero(BalanceOf(leaves)))

\* With wrapping addition the total is still the sum modulo the i128 range,
\* also after an operation that wrote the state and then reported an error.
TotalIsSumModWidth == total = Wrap(Total(OrZero(BalanceOf(leaves))))

\* The layers that upsert maintains path by path are the ones compute_layers
\* builds from the leaf list, so a state written to a file reads back.
StoredStateReloads == layers = ComputeLayers(leaves) /\ Reloadable

\* Whatever the history, the proof the tree hands out for an account of a delta
\* list (a normalized address) is one its own verifier accepts, and it is of
\* membership exactly when the account is tracked: no delta of a tracked
\* account blocks or is lost.
HonestProofsVerify ==
    \A c \in {Normal[a] : a \in Address} :
        LET proof == ProofFor(leaves, layers, c)
        IN /\ (proof.kind = "member") = (\E a \in DOMAIN leaves : Normal[a] = c)
           /\ AddressProofVerifies(leaves, layers, c, proof)

\* The tree hands out an acceptable proof that a name is not tracked exactly
\* when no leaf has the name's key: not for another spelling of a tracked
\* account, nor for an address whose words equal a tracked one's modulo the
\* field (proof_for answers with that very leaf, verify_collision refuses it).
AbsenceProvable ==
    \A c \in Address \ DOMAIN leaves :
        AddressProofVerifies(leaves, layers, c, ProofFor(leaves, layers, c))
            <=> \A a \in DOMAIN leaves : KeyOf(a) # KeyOf(c)

\* A proof of non-membership, from whatever earlier tree, is accepted only if
\* no leaf of the current tree has the account's key: a delta is skipped, and
\* an account enrolled, only when the account really is not tracked.
NonMembershipSound ==
    \A w \in held :
        LET Absent(a, proof) ==
                NonMembershipVerifies(Root(layers), a, proof)
                    => \A b \in DOMAIN leaves : KeyOf(b) # KeyOf(a)
        IN IF w.op = "insert" THEN Absent(w.address, w.proof)
           ELSE \A a \in DOMAIN w.delta : Absent(a, w.proof[a])

\* Of the leaves that share one full path exactly one is in the tree's slot and
\* can still be proved; an insertion over a path clash displaces the others.
SlotOwnerUnique ==
    \A a \in DOMAIN leaves :
        \E b \in SharesPath(leaves, KeyOf(a)) :
            {c \in SharesPath(leaves, KeyOf(a)) :
                AddressProofVerifies(leaves, layers, c, ProofFor(leaves, layers, c))} = {b}

\* Every history of held, reordered and repeated witnesses is one of the
\* abstract ledger, whose accounts are the normalized addresses.
Holdings ==
    [c \in {Normal[a] : a \in DOMAIN leaves} |->
        leaves[Smallest({a \in DOMAIN leaves : Normal[a] = c})].balance]

Ledger == INSTANCE PoaLedger WITH
            holdings <- Holdings, Initial <- Reserves, Windows <- DeltaLists,
            EnrollBalances <- InsertBalances
LedgerSpec == Ledger!Spec
=============================================================================
