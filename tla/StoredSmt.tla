----------------------------- MODULE StoredSmt -----------------------------
(***************************************************************************)
(* SMT states and proofs as values: what a state file holds and how it is  *)
(* loaded (crates/smt: state), what an update or an insertion proved in    *)
(* SP1 makes of a loaded state, and how the result is verified (crates/    *)
(* sp1-host and the verify_* functions of crates/smt).                     *)
(*                                                                         *)
(* A commitment is the pair of its total and its bag of blinds; a blind is *)
(* the tuple it is hashed from.  An SP1 proof is the public values of the  *)
(* guest run it attests.                                                   *)
(***************************************************************************)
EXTENDS Balances, Sequences, Bags

CONSTANTS Depth, KeyBits, IndexBits, WordModulus, FieldModulus, Normal, Words,
          KeyHash

\* What SmtTree assumes of them.
ASSUME TreeAssumption ==
    /\ Depth \in Nat /\ KeyBits \in Nat /\ IndexBits \in Nat /\ Depth <= KeyBits
    /\ FieldModulus \in Nat \ {0} /\ WordModulus \in Nat /\ FieldModulus <= WordModulus
ASSUME NamesAssumption ==
    /\ Normal \in [Address -> Address]
    /\ \A a \in Address : Normal[Normal[a]] = Normal[a]
    /\ Words \in [Address -> Seq(0..(WordModulus - 1))]
    /\ \A a, b \in Address : Words[Normal[a]] = Words[Normal[b]] => Normal[a] = Normal[b]

Tree == INSTANCE SmtTree

ASSUME KeysAssumption ==
    /\ \A a \in Address : KeyHash[Tree!KeyInput(a)] \in [1..KeyBits -> {0, 1}]
    /\ \A a, b \in Address : Tree!KeyOf(a) = Tree!KeyOf(b)
                                => Tree!KeyInput(a) = Tree!KeyInput(b)

\* The library and the prover, at the state s.
Lib(s) == INSTANCE Sp1Host WITH
            leaves <- s.leaves, layers <- s.layers, total <- s.total, held <- {},
            Reserves <- {}, DeltaLists <- {}, InsertBalances <- {},
            MaxBalance <- MaxI128, MaxHeld <- 0

-----------------------------------------------------------------------------
(* States and their files *)

\* SmtState::new: the layers and the total come from the leaves.
SmtNew(label, leaves, blind) ==
    [label |-> label, leaves |-> leaves, blind |-> blind,
     layers |-> Tree!ComputeLayers(leaves),
     total |-> Wrap(Total(OrZero([a \in DOMAIN leaves |-> leaves[a].balance])))]
SmtNewPanics(leaves) ==
    OverflowPanics /\ ~SumFits(OrZero([a \in DOMAIN leaves |-> leaves[a].balance]))

\* build_smt_state_from_reserves
SmtInitialLeaves(r) ==
    [a \in DOMAIN r |-> [balance |-> r[a], salt |-> <<"init", a, r[a]>>]]
SmtInitial(r, label) ==
    SmtNew(label, SmtInitialLeaves(r), SetToBag({<<"smt-init-blind", label>>}))

ToStored(s) == [label |-> s.label, root |-> Tree!Root(s.layers), leaves |-> s.leaves,
                commitment |-> <<s.total, s.blind>>]

\* from_stored: the state a stored one loads as, if it does.
Loaded(stored) ==
    { s \in {SmtNew(stored.label, stored.leaves, stored.commitment[2])} :
        ~SmtNewPanics(stored.leaves) /\ ToStored(s) = stored }

-----------------------------------------------------------------------------
(* Updates and insertions; w is a witness of Smt, built or read *)

Moves(s, w) == IF w.op = "update" THEN Lib(s)!Aggregate(w) ELSE w.balance
Flagged(s, w) == IF w.op = "update" THEN Lib(s)!MemberEntries(w) ELSE {}

\* apply_*_with_witness succeeds: the witness verifies, no sum panics, and
\* the commitment moves by exactly the delta.
Replays(s, w) ==
    /\ \/ w.op = "update" /\ Lib(s)!UpdateVerifies(w) /\ Lib(s)!UpdateDoesNotPanic(w)
       \/ w.op = "insert" /\ Lib(s)!InsertVerifies(w)
    /\ InI128(s.total + Moves(s, w))

Replayed(s, w, label, blind) ==
    [label |-> label, blind |-> s.blind (+) SetToBag({blind}), total |-> s.total + Moves(s, w),
     leaves |-> IF w.op = "update" THEN Lib(s)!UpdatedLeaves(w) ELSE Lib(s)!InsertedLeaves(w),
     layers |-> IF w.op = "update" THEN Lib(s)!UpdatedLayers(w) ELSE Lib(s)!InsertedLayers(w)]

\* The public values of a guest run, its labels as given; none if it rejects.
PublicValues(s, w, label) ==
    { [labels |-> <<s.label, label>>, values |-> pv] : pv \in
        IF w.op = "update"
          THEN {Lib(s)!GuestUpdate(input) : input \in {Lib(s)!UpdateStdin(w)}}
          ELSE {Lib(s)!GuestInsert(input) : input \in {Lib(s)!InsertStdin(w)}} }

\* What prove_update and prove_insert compare with the guest's public values.
Confirms(s, next, w, pv) ==
    /\ pv.values.accepted
    /\ pv.labels = <<s.label, next.label>>
    /\ pv.values.oldRoot = Tree!Root(s.layers)
    /\ pv.values.newRoot = Tree!Root(next.layers)
    /\ pv.values.delta = Moves(s, w)
    /\ w.op = "update" => pv.values.members = Flagged(s, w)
    /\ pv.values.newTotal = next.total

Digest(oldLabel, newLabel, w, blind, delta) == <<oldLabel, newLabel, w, blind, delta>>

SmtProof(s, next, w, blind, pv) ==
    [oldLabel |-> s.label, newLabel |-> next.label,
     oldRoot |-> Tree!Root(s.layers), newRoot |-> Tree!Root(next.layers),
     delta |-> Moves(s, w), flagged |-> Flagged(s, w), witness |-> w, blind |-> blind,
     digest |-> Digest(s.label, next.label, w, blind, Moves(s, w)), public |-> pv]

\* prove_update and prove_insert: the next state and the proof, if the library
\* accepts the witness and the guest confirms what the library made of it.
Proved(s, w, label, blind) ==
    UNION { { [state |-> next, proof |-> SmtProof(s, next, w, blind, pv)] :
                pv \in {v \in PublicValues(s, w, label) : Confirms(s, next, w, v)} } :
            next \in {n \in {Replayed(s, w, label, blind)} : Replays(s, w)} }

-----------------------------------------------------------------------------
(* Verification *)

\* What only verify_update compares besides the replay.
HeaderMatches(old, new, proof) ==
    /\ proof.oldLabel = old.label /\ proof.newLabel = new.label
    /\ proof.oldRoot = Tree!Root(old.layers) /\ proof.newRoot = Tree!Root(new.layers)
    /\ proof.delta = Moves(old, proof.witness)
    /\ proof.flagged = Flagged(old, proof.witness)

\* verify_update and verify_insert: the replay gives the new state.
ReplayMatches(old, new, proof) ==
    LET w == proof.witness
    IN /\ Replays(old, w)
       /\ Replayed(old, w, new.label, proof.blind) = new
       /\ proof.digest = Digest(old.label, new.label, w, proof.blind, Moves(old, w))

\* verify_update_proof and verify_insert_proof on the public values.
PublicValuesMatch(old, new, proof, mode) ==
    /\ proof.public.labels = <<old.label, new.label>>
    /\ proof.public.values.accepted
    /\ proof.public.values.oldRoot = Tree!Root(old.layers)
    /\ proof.public.values.newRoot = Tree!Root(new.layers)
    /\ proof.public.values.delta = proof.delta
    /\ mode = "update" => proof.public.values.members = proof.flagged

\* smt-verify: the witness of the other operation does not parse.
SmtVerifies(old, new, proof, mode) ==
    /\ proof.witness.op = mode
    /\ mode = "update" => HeaderMatches(old, new, proof)
    /\ ReplayMatches(old, new, proof)
    /\ PublicValuesMatch(old, new, proof, mode)
=============================================================================
