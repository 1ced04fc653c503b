# A TLA+ model of AssetProof

AssetProof keeps a *proof-of-assets state*: a hidden set of reserve accounts and
a committed total of their balances.  Windows of public balance changes
("deltas") arrive, and each is applied with a proof that the total moved by
exactly the deltas of the accounts in the hidden set.  There are two routes with
the same promise: a sparse Merkle tree with an SP1 program as the prover
(`crates/smt`, `crates/sp1-host`, `crates/sp1-programs`), and a polynomial
commitment with a committed-R1CS proof (`crates/nizk-fixed-set`).  This directory
holds TLA+ modules translated from that code, TLC configurations, and theorems
checked by TLAPS.  `PROJECT.json` lists components, runs, mutants, the map from
definitions to source lines, findings, hazards and theorems.

    tlc -workers 2 -config SmtHeld.cfg MCSmt.tla     # a run
    tlapm SmtProofs.tla                              # the proofs of a module

## 1. Inventory

| component | source | state it keeps | operations |
|---|---|---|---|
| sparse Merkle tree | `smt/src/{tree,key,hash,leaf,proof}.rs` | leaves by address string, one map per layer | `upsert`, `compute_layers`, `proof_for`, `root`, verifiers in `update.rs`/`insert.rs` |
| SMT state, update, insertion | `smt/src/{state,update,insert}.rs` | tree, `balance_total`, blind, commitment, label | `new`, `to_stored`/`from_stored`, build and apply (cloning or in place) for updates and insertions |
| compact multiproof | `smt/src/{tree,multiproof}.rs` | none | `compact_multiproof`, `expand_compact_multiproof` |
| SP1 guests | `sp1-programs/*` | none (a pure program) | `verify_and_apply_update`, `verify_and_apply_insert` |
| SP1 host | `sp1-host/src/*` | none | `build_and_prove_*`, `prove_*`, `execute_*`, `verify_*_proof` |
| fixed-set route | `nizk-fixed-set/src/{init,update,verifier,witness,kzg,polynomial}.rs` | `StoredState` and `StoredProof` values | `initialize`, `apply_update`, `verify_update` |
| committed R1CS | `nizk-fixed-set/src/{bp,commitment}.rs` | a generator cache | `update_relation`, `prove_logic`, `verify_logic`, `prove_link`, `verify_link` |
| files and commands | `common/src/io.rs`, `poa-cli/src/main.rs` | state, proof, SRS and CSV files in a run directory | the commands: generate, initialise or prepare, update or continue, insert, verify |
| mock chain | `mock-chain/src/generator.rs`, `poa-cli/src/main.rs` | account balances; a scenario directory | `generate_scenario`, `write_scenario`, `load_manifest`, `mock-bench` |
| primitives | `common/src/{crypto,encoding}.rs`, `vendor/bulletproofs-bls` | none | hashing, curves, SRS files, R1CS proofs |

**Interaction.**  A command reads a state and a delta CSV, builds a witness
against the state's tree or polynomial, applies it (which verifies it again,
against the tree it is applied to), and writes the next state and the proof.  In
the SMT route the host replays the applied operation in the guest, on inputs it
rebuilds from the old tree, and compares the guest's public values with the
state it computed.  In the fixed-set route the verifier is given two states, the
window and the proof, in files.  The library's witnesses and states are plain
values: a caller can hold them, apply them late, twice, or to another state.

**What is hard here.**  No code runs concurrently, so there is no interleaving
inside an operation.  The difficulties are: histories of legal calls with stale or
repeated witnesses; caches that must equal what a reload computes (the layers,
the total); two or three implementations of one computation (library, guest,
verifier); paths of the tree that coincide at the configured depth, and one
account under two spellings; i128 sums that panic in one build profile and wrap
in the other; operations that write before they check; algebra with boundary cases
(no points, more points than roots, odd splits); partially loaded SRS files; and,
between commands, files written one after the other, over older ones, by processes that may
die and are run again.

**Correctness, per component.**  Tree: maintained layers are the computed ones;
honest proofs verify; accepted non-membership means absence.  SMT state: the total is the
sum of the leaves; every history is one of the abstract ledger; a stored state
reads back.  Multiproof: expansion inverts compaction and nothing is stored
twice.  Guest and host: the guest confirms exactly what the library accepts.
Fixed-set route: honest updates verify with the powers that were loaded; whatever
verifies moved total and commitment by what the window owes.  R1CS: the
constraints say membership, no more and no less.  CSV reader: one delta per account, the
exact sum of its lines where that fits.  Files: what has been written verifies, what verifies
was applied, and rerunning a command that died completes the run.  Mock chain: money is
conserved, every window is a step of the ledger, a scenario that can be read back is
whole, and the benchmark ends with the total the chain ended with.

## 2. Modules

    Balances --- PoaLedger                    the promise of either route
       |  \
       |   SmtTree --- Smt ----- Sp1Host --- MCSp1
       |      \         |  \       /  \
       |       \        |   Sp1Guest   StoredSmt ----------\
       |        Multiproof ---/                             \
       |                                                     RunFiles --- RunDir --- MCRunDir
       +-- LogicRelation <- PrimeField -> Poly              /              |
       |         \                        /                /           AtomicRun
       |          FixedSetOps -----------+----------------+
       |               \---- FixedSet --- MCFixedSet       \
       |                                                    MockChain --- MCMockChain
       +-- Csv --- MCAlgebra

`MCSmt` instantiates `Smt`; `Sp1Guest` uses `SmtTree` and `Multiproof`; `MCAlgebra` also extends
`Poly` and `LogicRelation`; `MockChain` and `Smt` refine `PoaLedger`, `RunDir` refines `AtomicRun`.
The proofs are in modules of their own:

    BalancesProofs        sums                          <- Balances
    SmtProofs             tree, state, guests and host  <- Sp1Host, BalancesProofs
    AlgebraProofs         relation and polynomials      <- LogicRelation, Poly, BalancesProofs
    FixedSetOpsProofs     one initialization or update  <- FixedSetOps, AlgebraProofs
    FixedSetProofs        all states and updates        <- FixedSet, FixedSetOpsProofs
    MCAlgebraProofs       the runs' inputs, the reader  <- MCAlgebra, AlgebraProofs
    MockChainProofs       the chain, files, benchmark   <- MockChain, FixedSetOpsProofs
    RunDirProofs          run directories, atomicity    <- RunDir, FixedSetOpsProofs, SmtProofs

* **Balances.**  Address strings matter to the code through their order only (it
  keeps `BTreeMap`s and sorted lists), so they are the numbers `1..N`.  A canonical
  delta list, sorted and without zeros, is a function from addresses to nonzero
  integers.  `Wrap` and `SumFits` give i128 arithmetic in both build profiles:
  `OverflowPanics` is TRUE for `cargo run` (the README's commands) and FALSE for
  `--release`.  The guest uses checked additions in either.
* **PoaLedger.**  The abstract specification: tracked accounts, their balances and the
  total; `Adjust` for a window, `Enroll` for a new account.
* **SmtTree.**  Keys as bit sequences, the index of a prefix, which moves up the tree by `index / 2`
  and is cut to `IndexBits` bits as a `u128` is, layers, `UpsertLayers` beside `ComputeLayers`,
  the three kinds of proof that `proof_for` hands out, and the verifiers.  A digest is a
  term, so Poseidon2 is collision-free except where the code makes distinct inputs equal, which it
  does in two places: the 32-bit words of an address are reduced modulo the 31-bit field before they are hashed
  to a key (`KeyInput`, `hash.rs:25`), and so are those of a balance in a leaf hash (`BalanceWords`).  The
  assumption on keys, `KeyAssumption`, is therefore about the reduced words: two addresses whose words differ by the prime have one key.
  Salts and child digests go through the same reduction unharmed, being digests, whose words are below the prime.
* **Smt.**  Variables `leaves`, `layers`, `total` as in `SmtState`, and `held`, the
  witnesses callers hold.  Actions: `BuildUpdateWitness`, `BuildInsertWitness`, `Discard`,
  `ApplyUpdate`, `ApplyInsert`, `Reload`, and `LateRejected*` for the
  in-place functions, which have written the state when they report a commitment
  mismatch.  An apply verifies against the current tree.  The commitment is Pedersen:
  comparing new with old + delta says that the total moved by *exactly* delta.
  Labels, blinds and the dummy ownership strings are left out, no branch depends on them.
* **Multiproof.**  The frontier of shared siblings, and expansion.
* **Sp1Guest.**  The two guest programs as functions from stdin to public values or
  `Rejected`, including their own verifier and the root computation that never sees the tree.
* **Sp1Host.**  `ProveUpdate`/`ProveInsert`: apply, rebuild the guest's input from the
  old tree, compare the public values.  `ProverSpec` is `Smt` restricted to those.
* **PrimeField, Poly.**  `polynomial.rs` over the field of `P` elements (P prime is an
  assumption): the subproduct tree, remainders down the tree, Lagrange
  interpolation from the derivative of the vanishing polynomial, division.  Products and values are by
  Horner's rule, coefficient by coefficient; recursion is in functions, so that TLAPS can reason about it.
* **LogicRelation.**  `update_relation` as congruences modulo P over an assignment
  `(u, y, z, w, d)`, beside `MembershipRelation`, what it is meant to say.
* **FixedSetOps.**  `initialize`, `apply_update` and `verify_update` as operators on states:
  when each succeeds with a given SRS (`Initializes`, `Applies`, `VerifyUpdate`) and what it returns.  A KZG
  commitment is the polynomial it commits to and a Pedersen commitment the committed residue with its bag of
  blinds, so both are binding; the pairing equation is a polynomial identity; an
  R1CS proof and a link proof carry the assignment they know and the transcript they were fed.
  `Commits` keeps the code's two bounds apart: the guard on the degree of the whole SRS
  and the slice of the powers actually loaded.  `Context`, `Values` and `Opening` tabulate what
  depends on the polynomial and the window only.  The lists of the code run over a window's addresses in order (`InOrder`);
  `Interpolates` has the two checks of `interpolate`: the points differ, and there is one value for each.
* **FixedSet.**  Variables `states` and `updates`: all state files there are, and all
  updates made with their proofs.  Actions: `Initialize`, and `ApplyUpdate` with the
  whole SRS (`mock-bench`) or with the prefix the `update` command loads.
* **StoredSmt.**  The SMT library and host on states as values: `ToStored`, `Loaded` (`from_stored`), `Proved`
  (`prove_update`, `prove_insert`) and `SmtVerifies` (`verify_update_proof`, `verify_insert_proof`: the
  header, the replay with its digest, the public values).  It instantiates `Sp1Host` at the state it is given.
* **RunFiles.**  Paths, contents, readers, and each command as a function from the files to
  the writes with which it succeeds, in the order of the code (state, then proof), or to none if it
  refuses.  `Images` is what is on disk while a content is written: state and proof files that are cut short are
  unreadable (`Torn`); the binary SRS is written point by point, and its prefix reader may accept what the
  whole reader refuses (`ReadsSrs`, `ReadsSrsPrefix`).
* **RunDir.**  One operator, one command at a time.  `Start` reads all inputs and computes, `Write` puts one
  image of the next write on disk (`Advanced` moves on in `process.next` and `process.image`), `Exit` moves on or stops with an error, `Crash` loses the process and what it had not written;
  the same command is then started again.  The directory starts empty, or with the files of an older script and the write
  a process had died in.
* **AtomicRun.**  The abstract specification of that: commands take effect at once, except that one that dies leaves a
  prefix of its writes and the next one in part.
* **MockChain.**  `Draw`, `Redraw` (the `while` loop) and `Pay` are one transfer, `CloseBlock` cuts a window; `StartWriting`,
  `Write`, `Exit` and `Crash` are `write_scenario` in a process that is run again with its seed, so with the same scenario.
  `Directory` is what a scenario written before left behind.  `LoadManifest` reads a directory as the code does, a list cut at a
  line or a digit included, and `Bench` is `mock-bench`: the operators of `FixedSetOps` window by window over what was read.
* **Csv.**  `read_delta_csv`: normalise, merge line by line with unchecked additions, drop zeros.

## 3. Runs

Bounds: `MaxBalance` stops updates that would raise a balance above it, `MaxHeld`
bounds the witnesses held, `MaxStates` the fixed-set states, `MaxCrashes` and a job's `deaths` the processes that die,
`MaxBlocks` the windows in a scenario directory; everything else is finite by the choice of reserves, windows and scripts.

| run | instance | what it shows |
|---|---|---|
| `smt_held` | N=3, depth 3, three separate paths, two witnesses held | type invariant; `HonestProofsVerify`; `TotalIsSum`; `StoredStateReloads`; `NonMembershipSound`; refinement `LedgerSpec` |
| `smt_wrap` | N=4, release profile, i128 of -3..2, depth 2, addresses 1 and 2 on one path, 3 and 4 with equal words modulo the field | `TotalIsSumModWidth`, also after late rejections; `NonMembershipSound`; `SlotOwnerUnique`; `AbsenceProvable`: a name can be shown absent exactly when no leaf has its key |
| `sp1_update` | release profile, i128 of -4..3, a path clash, negative initial balances | library and guest agree on updates; multiproofs round-trip; which insertions agree; `LedgerSpec`: with the guest's checked sums the release build implements the exact ledger |
| `algebra` | all inputs over the field of 5; all delta files of up to three lines, two spellings of one account | evaluation on the tree is pointwise; interpolation opens; constraints are membership; `ReaderMerges` |
| `fixed_set` | P=17, i128 of -8..7, two reserve sets, six windows, two labels, four states | `WindowsOpen`: a window opens exactly if it is not empty; `HonestUpdatesVerify`; `VerifiedMeansAdjusted`; type invariant |
| `run_dir` | thirteen scripts of three or four commands of both routes, in empty and used directories, one death per script besides those before it | `FilesVerify`; `AcceptedMeansApplied`; refinement `AtomicSpec`; liveness `RetryCompletes`; type invariant |
| `mock_chain` | up to three accounts and two blocks, in an empty directory or over an older scenario that is shorter or longer, one death, in one job two | `MoneyConserved`; refinement `LedgerSpec`; `FreshLoadsWhole`; `RewrittenLoads`; `BenchFollowsChain`; liveness `GenerationEnds` |
| `sp1_insert`, `smt_clash_reload`, `smt_spelled_proofs`, `fixed_set_empty`, `fixed_set_prefix` | | violated expectations, section 5 |

Why the bounds are enough.  Two held witnesses are what it takes to apply one after the
other, in both orders, and again, over a tree that insertions
between building and applying have changed; a third adds no new pair.
Three addresses give a member, a neighbour and an absent account; depth 3 gives
default subtrees below, at and above a shared prefix.  Two keys
on one path is the smallest clash, and deeper keys (`KeyBits` > `Depth`) is what causes one.
In `smt_wrap` one pair of addresses with equal words is enough, with either of the two tracked, or both; no third leaf
shares the path of the clash, so a collision proof of an absent name is of the leaf in the slot, as `AbsenceProvable` needs.  The other runs keep the words of addresses below the prime.
The i128 ranges are small enough that two in-range deltas overflow.  In
`fixed_set` the windows include the empty one, one with more addresses than roots,
and one whose sum overflows; four states are two chains of two, so a proof of one chain is tried on the
other, with the same label and aggregate delta.  P exceeds the i128 range, as in the code, and `FieldShowsWraps`
(a sum outside i128 never wraps to its own residue), a hypothesis of a theorem in section 4, is assumed by
`MCFixedSet` and so evaluated.
In `algebra` three points are the smallest odd split of the tree and every point list is tried, repetitions included;
the relation is tried on every assignment to the first address.

In `run_dir` each job is one way a directory can be wrong for a script: files of the same script on other
reserves with the same labels and the same change of the total, an SRS of a smaller degree, files of the other route, an SRS cut
short where it is too short to load and long enough to update, an output over its own input.  One death at any
image of any write reaches every content a path can have; what a second death could add is a directory that a death
has already spoiled, and those are among the directories a script starts in.  An SRS of degree 2 has nine
units, so there are cuts in its G1 part, in the part that only the prefix reader skips, and in the G2 points.
In `mock_chain` two accounts and two transfers give windows that cancel out, three accounts give
a transfer between reserves and one that misses them, amounts of two binary digits can be cut to a shorter
amount, and an older scenario of one window or three is shorter or longer than the new one.
A job with two deaths shows what one cannot: a process dies in the manifest, whose root is cut but which parses, and
the next one in a window it writes again, so that under the cut root a scenario reads back that is not whole.
`FreshLoadsWhole` promises the whole scenario under the whole root, and under any root only while at most one process has died.
In `algebra` three lines of -8, -3, 3 or 7 overflow on the way to a sum that fits, and to one that does not.

Deadlock is checked except in the `fixed_set` runs, where `MaxStates` stops the system, and in `run_dir` and
`mock_chain`, where a script ends.

**Fairness.**  Both specifications that have it assume `WF_vars(Step)`, the weakest form, over what the process does
by itself.  In `RunDir` a step is always possible until the script ends: a command waits for nobody, and a
command that died is run again, which is what the operator of a script does.  Deaths are not part of `Step`
and are finitely many.  In `MockChain` the step that ends the redrawing of a receiver is fair because a random generator does
not return one index for ever when there is another; drawing the sender again remains possible and is not fair.
`RetryCompletes`: a script that succeeds when nothing dies also ends when processes die, except in the two cases `Spoiled`
names, in which a command reads what it was writing: `prepare-run` finds its own SRS half written (`main.rs:85`), or an update
over its own input finds its state half written.  `GenerationEnds` holds exactly for the requests that are
possible: with one account and a transfer to make, `mock-gen` never ends (`generator.rs:77`).  The library modules state no
fairness: nothing in a library promises that a caller makes a call.

## 4. Theorems

*BalancesProofs* has the lemmas about i128 sums: `PartialSums` satisfies its recursive
equation, sums are additive, and the sum of a function that is zero elsewhere is its one value.

**Recursion.**  Induction schemas of the library take an operator as a parameter, which the backends
cannot instantiate, and a recursive definition is a `CHOOSE`, of which nothing is known until
something that satisfies its equation is shown to exist.  So each recursive function used below has a lemma (`...Def`) that
does this: a solution exists on every initial segment of the domain, by `UpToInduction`
(induction for sets), so the function has its equation.  What the function computes is then proved from the
equation by the same induction.

### The tree

*SmtProofs*, for every set of addresses, keys, depth and width.  `TreeOK` says of layers what a caller of
`root` and `proof_for` relies on: a node is stored exactly if one of its children is, and then it hashes them, an absent child
standing for the default of its level.  `ComputedTree` and `UpsertTree` (with `NodeEquation` and
`PutParent`) say that both ways of the code to make layers give such a tree; `TreeUnique` that the lowest layer determines it.
So maintained and recomputed layers agree whenever they agree on the slots.
`FoldDown` and `FoldComplete` are the two directions of proof verification: a path that folds to the root meets
the stored node at every level, since a digest has one preimage, and the siblings in the layers do fold to the root.
`RootFixesSlots` follows: equal roots mean equal slots.  `CommonPrefixLenIsDepth`, `PathIndexIsPrefix` and
`DefaultDepth` are about the arithmetic of prefixes, and `HonestDefault` about where the default subtree of
an absent key starts.

### The SMT state

*SmtProofs*, about `Spec` of `Smt`, for every set of addresses, keys, spellings, reserves, delta
lists, balances and bounds and every depth and width.

* `TypeCorrect`: `Spec => []TypeOK`.  `TypeOK` is inductive.  The work is in the shape of the
  tree: `ComputeLayers` and `UpsertLayers` (folded over the changed addresses by `UpsertAll`) both keep
  exactly one layer per level, and an update writes the balances of tracked leaves only
  (`MemberEntriesTracked`: an accepted membership proof is for a leaf of the list).
* `TotalCorrect`: if overflow panics, `Spec => []TotalIsSum`.  The invariant is `TypeOK /\
  TotalIsSum`: `TypeOK` supplies that leaves are functions on addresses with integer
  balances.  `UpdatedTotalExact` turns the panics into "nothing wrapped", `UpdatedSum` and
  `InsertedSum` move the sum over the leaves.  In release the statement is
  false.
* `TotalCorrectModWidth`: in either profile, `Spec => []TotalIsSumModWidth`.  The same two lemmas
  move the sum, and `WrapAdds` of *BalancesProofs* (an operand may be wrapped before an
  addition or not) moves the total: `WrapTurns` says wrapping adds whole turns of the
  range, `TurnsInRange` that no two values of the range are whole turns apart.
* `TreeCorrect`: `Spec => []TreeInv`, the layers are a tree, and the slots in use are exactly those to
  which a leaf leads, each with one of those leaves.  It needs `TypeOK` only.  An update rewrites a slot
  for which it has verified a membership proof, so it puts the same key back (`UpdateSlots`); a reload recomputes
  the layers it was given (`ReloadKeepsLayers`).
* `ProofsSound`: `Spec => []NonMembershipSound`, of proofs of whatever earlier tree, tried on the current one.
  `NonMembershipSound` alone is not inductive: an accepted proof must be of a tree with the same slot, and the leaf of
  a collision proof must not be the account's own.  `HeldNotReturned` adds the latter: a held collision proof
  is for an account with another key that was not a leaf, and names the first leaf on its path; if the slot still
  carries the key of that leaf, this is still so.  `WritesKeepNotReturned` moves it over writes, as no write brings a
  displaced leaf back.  The guest takes its proofs anew, and needs all of it (below).
* `HonestProofsAccepted`: `Spec => []HonestProofsVerify`.  From `TreeInv`, `FoldComplete` and `HonestDefault`.
* `AbsencesProvable`: `Spec => []AbsenceProvable`, for whatever spellings and words.  A leaf on the path of a name has, without
  clashes, the name's key: then `proof_for` answers with that leaf and `verify_collision` refuses it.
* `SlotOwnersUnique`: `Spec => []SlotOwnerUnique`.  With clashes: only the leaf in the slot is provable, since the
  root fixes the slot and leaves have different salts (`SaltsOwned`, invariant).
* `StoredStateReloadable`: `Spec => []StoredStateReloads`.  Slots hold the leaves themselves when paths differ, so `TreeUnique`
  gives the layers; the other checks of `from_stored` are that addresses are distinct (`LeavesDistinct`) and that the sum
  is the total (`LeavesNotNegative`, since the recomputed sum is added in another order and its partial sums could overflow otherwise).
* `ImplementsLedger`: `Spec => LedgerSpec`, step by step.  Building, discarding and reloading are stutters; an applied
  update is `Adjust` (`UpdateRefines`), an applied insertion `Enroll` (`InsertRefines`), because an accepted proof
  of membership is of a tracked account and one of non-membership of an untracked one (`HeldProofsSound`); a late rejection cannot happen when
  overflow panics.

Their hypotheses are named, and each is needed:
`IndexFits` (`Depth <= IndexBits`): deeper than 128 levels two paths share an index (`tree.rs:378`).
`NormalForms`: addresses are in normal form, as windows and the reserves of `init` are; the ledger's accounts are the normal forms.
`DistinctInputs`: no two addresses are one to `key_hash`, so all are in normal form (`DistinctAreNormal`) and no two have words that
are equal modulo the field.  The code checks neither; about half of all 32-bit words are above the prime, so addresses with
a common key exist, without any collision of Poseidon2.  `HonestProofsAccepted` needs it: `smt_spelled_proofs` shows `HonestProofsVerify` false when an insertion
stores another spelling, and for an address that shares the key of a tracked one it is false in the same way, as `AbsencesProvable` says.
`NoPathClash`: no two different keys agree on `Depth` bits; `smt_clash_reload` shows `StoredStateReloads` false otherwise.
`KeysApart`: one of these two, in `ProofsSound`, `ImplementsLedger` and the theorems about the guests.  Where both fail, the collision
proof of an address can name the leaf that displaced a tracked one with that address' key, and be accepted.
`DistinctReserves`: an account is named once, and no two reserves share a key; `SmtState::new` checks addresses, not keys.
`OverflowPanics => ReservesNotNegative`: there is no check of the sign of a reserve, and a sum with negative
terms may overflow in one order and not in another.
`OverflowPanics`, in `ImplementsLedger`: in release the total wraps where the ledger's does not.

### The guests and the host

*SmtProofs*, about `ProverSpec` of `Sp1Host`; a step of it is a step of `Smt` (`ProverImplementsLibrary`), so
the invariants above hold.

* `MultiproofsRoundTrip`: `ProverSpec => []MultiproofRoundTrips`, for any set of addresses.  Expansion looks up
  what compaction has stored, so it is the frontier that has to be right: along the addresses, and within one along the levels,
  it holds exactly the siblings met so far that are not defaults, each once, and a digest keeps its index (`RoundTrip`).
* `MirroredInsertsConfirmed`: `ProverSpec => []GuestConfirmsMirroredInserts`.  The guest folds the new leaf over the siblings of the old
  tree; for a collision these are the library's.  For a default subtree it has them in the other order, and since a digest fixes
  its preimages (`FoldUpInjective`) equal roots mean equal lists.  The library held its witness, the guest takes a proof now:
  `HeldNotReturned` makes them of one kind.
* `UpdatesAgree`: `ProverSpec => []GuestAgreesOnUpdates`.  The guest never sees the tree: it has the leaves of the window and, for
  each, the siblings of its path in the old tree, and pairs them upwards.  The induction is on the levels: the pairs of a level
  are the nodes of the library's new tree at the prefixes of the window (`PairsOK`), a prefix that the window does not touch has the node of the
  old tree (`SameSlotsBut`), which is the sibling the guest was given (`GivenOK`), and so the parents are the new tree's (`ChildrenOK`).
  `UpdateConfirmedIfExact` joins this with the sums: the guest's checked additions fail exactly where `ExactUpdate` does.
* `ProverImplementsLedger`: `ProverSpec => LedgerSpec` in *either* profile.  The release build wraps where the ledger does not, but
  what the guest confirms has not wrapped (`ConfirmedInsertFits`, `ExactUpdateTotal`), so `TotalIsSum` holds of the prover
  without `OverflowPanics` (`ProvedTotalCorrect`) and every kept operation is the ledger's.  `ReservesFit` replaces it: the sums of
  the initial reserves fit i128, since no guest has checked those.

### Polynomials and the relation

*AlgebraProofs*, for every prime P:

* `RelationSound`: an assignment satisfying the constraints has `u = 1` exactly where `y = 0`
  and `d` congruent to the sum of the deltas there.  From `u^2 = u` the flag is a bit (no zero divisors); `uy = 0` makes it 0 where
  y is not 0; where y = 0, `w = yz` is 0 and `(1-u)(w-1) = 0` leaves `u = 1`.
* `RelationComplete`: the prover's advice (`z` inverse of `y`) satisfies them.
* `EvaluationIsPointwise`: the remainders down the subproduct tree are the values, for every polynomial
  and every list of points, repeated ones included.  Values of sums, multiples, products (`PolyEvalMul`)
  and of what a division leaves (`DivisionDivides`) come first; each polynomial of the tree vanishes at the points below it
  (`TreeRoots`), so descending does not change a value.
* `InterpolationIsExact`: at distinct points `interpolate` returns a polynomial with the given values.  The code takes
  the denominators from the derivative of the vanishing polynomial; by the product rule this is the value of the rest of the product
  (`DenominatorIsRest`), which is not 0 at distinct points, and is 0 at a repeated one (`DoubleRoot`), so `lagrange_basis`
  fails on repeated points and only there (`DefinedIsDistinct`).
* `InterpolationDivides`: `f` minus the interpolation of its values leaves no remainder on division by the vanishing
  polynomial, so the `div_exact` of `apply_update` succeeds.  A remainder is shorter than the divisor
  (`RemainderIsShort`) and has all its roots, and `RootCount` bounds the roots of what is not 0.

*MCAlgebraProofs* carries these to the run `algebra`: `EvaluationsCorrect`, `InterpolationCorrect` and `RelationCorrect` are its
invariants for every prime and every bound of the enumeration, not for the field of five and three points only.

### The reader

`ReadIsExact` (*MCAlgebraProofs*): whatever the lines, spellings and width, what `read_delta_csv` merges for an account is the
sum of its lines, exactly in a build that panics and modulo the width in one that wraps; it has no zeros and only
normal forms.  The invariant along the lines, `Holds`, is that every kept sum is the wrapped exact sum, and the exact one as long as no
addition has overflowed.  `ReaderCorrect` is the invariant of the run.

### The fixed-set states

*FixedSetProofs*, about `Spec` of `FixedSet`, for every prime P, encoding, SRS, and finite or
infinite choice of reserves, windows and labels.  What one initialization, update or verification does, whoever calls it, is in
*FixedSetOpsProofs*, which the proof of the benchmark uses as well:

* `FixedSetTypeCorrect`: `Spec => []TypeOK`: every state, initial or produced, has a total in i128, a
  committed value that is a field element and the blind of its commitment.
* `CommitmentsCorrect`: if overflow panics, `Spec => []CommitmentsOpen`: the committed value, which updates
  move homomorphically, is always the residue of the total, which they move by an i128
  addition.  `ResidueOfSum` joins the two.  In release a wrapped total no longer opens
  its commitment, and the assumption cannot be dropped.
* `NonemptyWindowsApply`: `Spec => []WindowsOpen`.  The points of a window are distinct because the encoding is injective,
  so the interpolation exists and the quotient is exact; `Fitting` (invariant: every state's polynomial fits the SRS)
  makes the quotient fit, the degree of the SRS the rest.
  For the empty window the tree has one leaf and no points, and `interpolate` refuses its one value.
* `VerificationIsSound`: `Spec => []VerifiedMeansAdjusted`, in either profile, for every two states, window and proof of every update,
  mixed as one likes.  The invariant `Recorded` says that every state has the polynomial of a reserve list and every
  update is one that was made.  The transcript binds the window the proof was made for; the batch equation makes the blinded opening
  differ from the state's polynomial by a multiple of the vanishing polynomial, so both have the same values at the
  window's addresses (`SameDifference`); `RelationSound` then gives the committed delta (`RelationMeansOwed`), and `WrapAdds` the total.
* `HonestUpdatesAccepted`: if the field shows wraps, `Spec => []HonestUpdatesVerify`, again in either profile: an update that was
  made is verified, with the fewer powers that `verify` loads (`VerifierCommits`), exactly if what it owes fits i128.  The hypothesis
  `FieldShowsWraps` says that a sum outside i128 wraps to another residue; `WideFieldShowsWraps` derives it from
  what the code has, deltas in i128 and a 255-bit field: a window would have to sum 2^127 deltas to reach P.

### The mock chain

*MockChainProofs*, about `Spec` of `MockChain`, for every set of requests, initial balances,
older scenarios, bounds and deaths:

* `MoneyIsConserved`: `Spec => []MoneyConserved`.  The invariant `ChainInv` adds the types, and says
  of the open block what `MoneyConserved` says of closed windows, so that it is inductive.  `MovedTotal`
  (what moves on one account moves the total) is used twice per transfer, `AmountsAffordable`
  keeps the sender above 0, `NonzeroBalanced` closes a block and `NoDeltasBalanced` opens the next.
* `ChainImplementsLedger`: `Spec => LedgerSpec`.  The step that matters is `CloseBlock`, which has to add to each
  reserve what the block's transfers added to its account.  `Linked` says that every closed window starts at the
  root before it and moves it by its deltas, and that the open block has moved the last root to the balances; it is
  inductive with `ChainInv` (`PayLinks`, `CloseBlockLinks`).  From it `AppliedIsRoot`, by induction on the windows: the
  reserves with all windows applied hold what the last root says.  `PoaLedger` is stated for given sets of reserve lists and
  windows, so the theorem assumes that these contain what can be drawn (`ReservesListed`) and what a block can leave
  (`WindowsListed`); infinite sets do.
* `RewrittenScenariosLoad` and `FreshScenariosLoadWhole`: `Spec => []RewrittenLoads` and `Spec => []FreshLoadsWhole`, for any number of
  windows and deaths.  The invariant `FilesInv` says how far the writing has got: the first `k` files are whole and the others are
  to be written (`Reached`), paths that the scenario does not have hold what they held (`Untouched`), and in a directory that
  held nothing the manifest comes last (`Fresh`): until a process dies what is still to be written is absent, after
  one death a manifest means that all other files are whole, and a whole root means the end.  `ScenarioWritesDef` and
  `PathsDiffer` (no path is written twice) make a write move `k` by one and a death move it back to 0 without
  spoiling a file that is whole; `WholeCount` is the number of windows `load_manifest` then counts, the longer of
  the two scenarios.  With `FreshLoadsWhole` as it was first stated, without its second clause, the induction fails at the
  death in a rerun; the job with two deaths came from that attempt.

* `BenchProvesChain`: `Spec => []BenchFollowsChain`.  Generator, files and fixed-set route meet here.  What is read back is the
  scenario (`EndLoadsWhole`, from `FilesInv` and `FreshLoadsWhole`), and its windows link its roots (`Linked`).  The state of the benchmark after
  `i` windows has the label and total of the `i`-th root and a polynomial whose roots are exactly the reserves (`AtRoot`); from there
  a window with deltas applies and verifies, and leads to the next root (`BenchPasses`), and one without stops the run (`BenchStarts` and
  `BenchRuns` are the induction).  That no sum leaves i128 is because a window moves no more than the chain holds: what it owes
  is the difference of two holdings (`PartFits`, `MoveFits`).  The invariant `Drawn` adds what the generator promises of this: the
  reserves are a list that was asked for and not empty, every root has the total of the first, no deltas are open when writing starts.
  Its hypotheses are `ReservesListed` and `WindowsListed` as above, `MoneyFits` (all accounts at the largest initial
  balance fit i128; the code draws balances below 50000), and `LargeEnough`: the degree of the SRS is at
  least the number of addresses; `mock-bench` takes what SRS file it is given.

### The run directory

*RunDirProofs*, about `Spec` of `RunDir`, for every field, tree, set of reserve lists and windows, script,
older script, write a process had died in, and number of deaths:

* `RunTypeOK`: `Spec => []TypeOK`.  `TypeOK` is not inductive: that a process writes only what its command names
  follows from what it set out to write.  The invariant `RunInv` has two parts.  `DirOK` says of each file, whoever wrote it and whether
  whole or in part, what it is: a state or proof that `initialize` or `apply_update` can make, a prefix of an SRS, leaves
  that a history of the library can end with, or nothing that can be read.  `ProcessOK` says where a process is: what it writes
  is one outcome of its command on the files it read, and on disk are those files after its first writes, with the next one
  in part.  `OutcomeWrites` (a command that starts on such files writes such contents) is where each route enters.
* `RunIsAtomic`: `Spec => AtomicSpec`.  The refinement of `AtomicRun` maps `files` to what was read while a process runs and to the disk
  otherwise.  An exit is `Run`, since `ProcessOK` then says that all writes are on disk; a death is `Die`, with the writes
  before `process.next` and the image on disk as the part; a start and a write are stutters.  Both
  sides take what a command computes from the same `Outcomes`, so this is about the order of reads, writes and deaths.
* `RunAcceptsApplied`: `Spec => []AcceptedMeansApplied`, an invariant of `DirOK` alone: any two states, window and
  proof in the directory that verify together, of whatever runs.  The fixed-set half is `VerifiedMoves` of
  *FixedSetOpsProofs* (a proof some `apply_update` made fixes the move it was made for); the SMT half is that the replay of the recorded
  witness on the loaded old state is an operation of the library (`ReplayMoves`), which moves each named account and the total.
* `RunFilesVerify`: `Spec => []FilesVerify`.  `Settled` says that the files of a command verify together, or that it owes a sum outside
  i128.  It holds when the command exits: the state it loaded, what it wrote and the proof it made are related by `MadeIsAccepted` and, for the SMT
  route, by reading back what was stored (`ReplayReloads`).  It stays until a command that is started names one of the
  files, since a process writes nothing else (`Stands`); commands of one script that fail, die or are run again do not
  disturb it.  Commands over their own input are outside the property: their old state is gone when they exit.

The theorems about trees come from *SmtProofs* through one instance `Host`, whose state variables are constants: `StoredSmt` reaches the library
through `Lib(s) == INSTANCE Sp1Host`, at the state it is given, and the theorems of an instance with a parameter cannot be cited.  The
lemmas `Same...` say that the two have the same operators.

`RunAcceptsApplied` assumes `TreeFits`: an index holds a path (`Depth <= IndexBits`) and no two keys share a path at the configured depth.  Where two do, an
insertion over a clash displaces a leaf, and what the tree proves is no longer what the leaves say (finding 2).
`RunFilesVerify` assumes `StatesReload`, which adds that no two addresses of a reserve list have one key and, for the build that
panics, that no reserve is negative: the sum of the leaves in file order may otherwise leave i128 where the sum in the order they came did not,
and then the written state does not load.  The run's lists and keys satisfy both; `RunTypeOK` and `RunIsAtomic` need neither.

### Assumptions and what is only model-checked

Besides the hypotheses above the assumptions are those named in the modules: sizes are naturals, keys are
bit sequences and Poseidon2 has no collision among the inputs it gets, different normal forms have different words (before reduction), lists are functions on addresses, encodings differ, P has no zero divisors and has inverses.
`BoundsAssumption` of `MCAlgebra` bounds its enumeration.  TLC evaluates each of them in a run.

Only model-checked is liveness: `RetryCompletes` of `RunDir` and `GenerationEnds` of `MockChain`.  Every safety property and refinement that a passing run
checks is stated by a theorem, under the hypotheses named there.
Liveness under fairness and ENABLED are out of reach of the installed provers.

## 5. Findings

Each is a `violation` run with one property; `PROJECT.json` quotes the lines.

1. `sp1_insert`: the insertion guest appends the default-subtree siblings in reverse
   (`smt-insert/src/main.rs:117`), so its new root differs from the library's unless the list
   reads the same both ways, and `prove_insert` fails.  `GuestConfirmsMirroredInserts` in `sp1_update` says
   exactly when it does not.
2. `smt_clash_reload`: an insertion over a leaf with the same path at the configured depth takes the slot, and
   the state that is written cannot be read back (`state.rs:106`).
3. `smt_spelled_proofs`: `smt-insert` stores the address as typed, while windows are normalized; an
   account inserted in upper case can never be proved again.
4. `fixed_set_empty`: a window whose deltas cancel is empty, and `apply_update` fails on it; the mock chain
   can produce one and `mock-bench` stops there.
5. `fixed_set_prefix`: with more deltas than reserves `load_srs_for_update` loads too few powers
   and `commit_g1` panics.

## 6. Not modelled

Library cryptography (Poseidon2, BLS12-381, KZG and Pedersen binding, Bulletproofs, SP1
itself) is symbolic, and hashed scalars are constants or the tuple hashed.  An SP1 proof is taken as the
public values of the guest run it attests.  Text formats, hex and CSV
syntax, timing and benchmarks are left out; files appear with what a cut leaves readable.  An `smt-proof` cut inside its last line,
which no reader uses, reads as whole and is taken as whole.  `verify_internal` runs only in debug builds on
request.  The model adds reserves in the order of their addresses, `SmtState::new` in that of
the CSV, so a build that panics may do so on another order of the same list.
Reserve lists name an address once; a CSV that repeats one is accepted by the fixed-set route
and listed as a hazard.  The commands `*-synthetic-*` put random coefficients or generated leaves through the modelled steps, for timing.
No writer syncs, and a power loss may persist writes out of order: `Crash` is a process that
dies, not a machine.  Where a file of the mock chain is cut, the model has one content per way of reading what is left, not every length.  Commands run one at a time: two of them in one directory race on its files, and nothing
in the code or its documents provides for it.  The early exit of a transfer without an amount (`generator.rs:82`) is unreachable,
since a sender has a positive balance.  The vendored Bulletproofs are third-party code, and `init-merkle` is an empty placeholder.

## 7. Plan

Done: A. `SmtTree`, `Smt`, `PoaLedger`: all invariants and the refinement proved.  B. `Multiproof`, `Sp1Guest`,
`Sp1Host`.  C. `Poly`, `LogicRelation`, `FixedSet`: the algebra and all invariants proved.  D. `StoredSmt`, `RunFiles`, `RunDir`,
`AtomicRun`: files, deaths and retries.  E. `MockChain`, its ledger and its files proved, composed with the fixed-set route; `Csv`, proved.

F. `RunDir`: its invariants and its refinement of `AtomicRun` proved, so that what is left with TLC is liveness.

What could be added: the clashes and double spellings of findings 2 and 3 in the run directory, where the hypotheses
of its theorems leave them out, and two commands at a time, should the tool ever provide for that.
