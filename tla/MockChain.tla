----------------------------- MODULE MockChain -----------------------------
(***************************************************************************)
(* The mock chain (crates/mock-chain, and mock-gen and mock-bench of       *)
(* poa-cli): a seeded generator moves money between accounts and cuts      *)
(* windows of deltas out of the transfers; the scenario is written file by *)
(* file into a directory that may hold an older one, by a process that may *)
(* die and is then run again with the same seed; and what is read back is  *)
(* put through the fixed-set route.                                        *)
(*                                                                         *)
(* The random draws are choices.  A state root is the balances it hashes.  *)
(***************************************************************************)
EXTENDS FixedSetOps

CONSTANTS
    Jobs,             \* arguments of mock-gen [accounts, reserves, blocks, txs], the
                      \* older scenario in its directory if there is one, and as
                      \* a bound the processes that die
    InitialBalances,  \* 5000..49999
    MaxAmount,        \* 1000
    Base,             \* of the digits in a file: 10
    MaxBlocks,        \* bound: windows in a directory
    MaxDegree         \* max_degree of the SRS that mock-bench loads

ASSUME ChainAssumption ==
    /\ InitialBalances \subseteq Nat \ {0} /\ MaxAmount \in Nat \ {0} /\ Base > 1 /\ MaxBlocks \in Nat
    /\ \A j \in Jobs : /\ j.request.accounts \in 0..N /\ j.request.blocks \in 0..MaxBlocks
                       /\ \/ j.older = <<>>
                          \/ /\ DOMAIN j.older = {1}
                             /\ LET windows == j.older[1].scenario.windows
                                IN /\ DOMAIN windows = 1..Len(windows) /\ Len(windows) \in 0..MaxBlocks
                                   /\ \A i \in DOMAIN windows :
                                         windows[i] = [old |-> windows[i].old, new |-> windows[i].new,
                                                       deltas |-> windows[i].deltas]

VARIABLES
    job,
    stage,     \* "generating", "writing" or "done"
    balances,  \* account -> balance, after the transfers so far
    deltaMap,  \* account -> what the open block moved, for those it touched
    tx,        \* the sender and the receiver drawn, or none
    sent,      \* transfers of the open block
    scenario,  \* [root, reserves, windows], the windows closed so far
    dir,       \* path -> content
    todo,      \* what the process has yet to write
    crashes

chainVars == <<balances, deltaMap, tx, sent, scenario>>
fileVars == <<dir, todo, crashes>>
vars == <<job, stage, chainVars, fileVars>>

request == job.request
older == job.older
Accounts == 1..request.accounts
NoDeltas == [a \in {} |-> 0]
Nonzero(d) == [a \in {b \in DOMAIN d : d[b] # 0} |-> d[a]]

-----------------------------------------------------------------------------
(* Files *)

Reserve == <<"reserves", 0>>
Csv(i) == <<"csv", i>>
Meta(i) == <<"meta", i>>
Manifest == <<"manifest", 0>>
Path == {Reserve, Manifest} \cup {Csv(i) : i \in 1..MaxBlocks} \cup {Meta(i) : i \in 1..MaxBlocks}

Absent == [kind |-> "absent"]
Broken == [kind |-> "broken"]
ListFile(list) == [kind |-> "list", list |-> list]
MetaFile(old, new) == [kind |-> "meta", old |-> old, new |-> new]
ManifestFile(q, root) == [kind |-> "manifest", request |-> q, root |-> root]
Cut == <<>>

\* All but the last line of a list, and that line without its last digit.
LastOf(list) == CHOOSE a \in DOMAIN list : \A b \in DOMAIN list : b <= a
ButLast(list) == [a \in DOMAIN list \ {LastOf(list)} |-> list[a]]
CutAmount(v) == IF v < 0 THEN -((-v) \div Base) ELSE v \div Base
CutLast(list) == IF DOMAIN list = {} THEN list ELSE [list EXCEPT ![LastOf(list)] = CutAmount(@)]

\* What a write cut short may leave: nothing, a line that does not parse, fewer
\* lines or a shorter amount, which parse; a root cut short.
Torn(content) ==
    CASE content.kind = "list" ->
            {ListFile(NoDeltas)}
            \cup (IF DOMAIN content.list = {} THEN {} ELSE {Broken, ListFile(ButLast(content.list))})
            \cup {ListFile(list) : list \in {l \in {CutLast(content.list)} : l = Nonzero(l)}}
      [] content.kind = "meta" -> {MetaFile(Cut, Cut), MetaFile(content.old, Cut)}
      [] content.kind = "manifest" -> {Broken, ManifestFile(content.request, Cut)}

\* write_scenario: the manifest is written last.
WindowWrites(s) ==
    [k \in 1..2 * Len(s.windows) |->
        LET i == (k + 1) \div 2
            w == s.windows[i]
        IN IF k % 2 = 1 THEN <<Csv(i), ListFile(w.deltas)>> ELSE <<Meta(i), MetaFile(w.old, w.new)>>]
ScenarioWritesManifestFirst(q, s) ==
    << <<Manifest, ManifestFile(q, s.root)>>, <<Reserve, ListFile(s.reserves)>> >> \o WindowWrites(s)
ScenarioWrites(q, s) ==
    << <<Reserve, ListFile(s.reserves)>> >> \o WindowWrites(s)
        \o << <<Manifest, ManifestFile(q, s.root)>> >>

MissingWrites(q, s) == SelectSeq(ScenarioWrites(q, s), LAMBDA w : dir[w[1]] = Absent)
Todo(q, s) == ScenarioWrites(q, s)

\* load_manifest: the windows are counted by the files there are, not by the
\* manifest's num_blocks.  A set of one scenario, or none on an error.
WindowCountBeforeLast ==
    Cardinality({i \in 1..MaxBlocks - 1 : \A j \in 1..i + 1 : dir[Csv(j)] # Absent})
WindowCount == CHOOSE n \in 0..MaxBlocks :
                  /\ \A i \in 1..n : dir[Csv(i)] # Absent
                  /\ n < MaxBlocks => dir[Csv(n + 1)] = Absent
LoadManifest ==
    { [request |-> dir[Manifest].request, root |-> dir[Manifest].root, reserves |-> dir[Reserve].list,
       windows |-> [i \in 1..n |-> [old |-> dir[Meta(i)].old, new |-> dir[Meta(i)].new,
                                    deltas |-> dir[Csv(i)].list]]] :
        n \in { k \in {WindowCount} :
                  /\ dir[Manifest].kind = "manifest"
                  /\ dir[Reserve].kind = "list"
                  /\ \A i \in 1..k : dir[Csv(i)].kind = "list" /\ dir[Meta(i)].kind = "meta" } }

\* The directory that a scenario was written to.
Directory(writes) ==
    [p \in Path |-> IF \E k \in DOMAIN writes : writes[k][1] = p
                     THEN writes[CHOOSE k \in DOMAIN writes : writes[k][1] = p][2] ELSE Absent]

-----------------------------------------------------------------------------
(* generate_scenario *)

\* The accounts and which of them are reserves are drawn; a request for no
\* reserve, or for more than there are accounts, is refused.
Init ==
    /\ job \in {j \in Jobs : j.request.reserves \in 1..j.request.accounts}
    /\ stage = "generating"
    /\ balances \in [Accounts -> InitialBalances]
    /\ \E R \in kSubset(request.reserves, Accounts) :
          scenario = [root |-> balances, reserves |-> [a \in R |-> balances[a]], windows |-> <<>>]
    /\ deltaMap = NoDeltas /\ tx = <<>> /\ sent = 0
    /\ dir = Directory(IF older = <<>> THEN <<>>
                       ELSE ScenarioWrites(older[1].request, older[1].scenario))
    /\ todo = <<>> /\ crashes = 0

Generating == stage = "generating" /\ Len(scenario.windows) < request.blocks

FundedSenders == {a \in Accounts : balances[a] > 0}

Draw ==
    /\ Generating /\ sent < request.txs /\ tx = <<>>
    /\ \E sender \in FundedSenders, receiver \in Accounts : tx' = <<sender, receiver>>
    /\ UNCHANGED <<job, stage, balances, deltaMap, sent, scenario, fileVars>>

\* while receiver == sender
ToItself == tx # <<>> /\ tx[1] = tx[2]
RedrawnBoth(receiver) == <<receiver, receiver>>
Redrawn(receiver) == <<tx[1], receiver>>
Redraw(receiver) ==
    /\ Generating /\ ToItself
    /\ tx' = Redrawn(receiver)
    /\ UNCHANGED <<job, stage, balances, deltaMap, sent, scenario, fileVars>>

AmountsUncapped(sender) == 1..MaxAmount
Amounts(sender) == 1..Min({balances[sender], MaxAmount})

\* The balance and the delta of an account move together.
Moved(f, a, v) == [b \in DOMAIN f \cup {a} |-> (IF b \in DOMAIN f THEN f[b] ELSE 0) + IF b = a THEN v ELSE 0]
Paid(sender, receiver, amount) ==
    /\ balances' = Moved(Moved(balances, sender, -amount), receiver, amount)
    /\ deltaMap' = Moved(Moved(deltaMap, sender, -amount), receiver, amount)

Pay ==
    /\ Generating /\ tx # <<>> /\ ~ToItself
    /\ \E amount \in Amounts(tx[1]) : Paid(tx[1], tx[2], amount)
    /\ tx' = <<>> /\ sent' = sent + 1
    /\ UNCHANGED <<job, stage, scenario, fileVars>>

LastRoot == IF scenario.windows = <<>> THEN scenario.root
            ELSE scenario.windows[Len(scenario.windows)].new

ReopenedWith(d) == d
Reopened(d) == NoDeltas
CloseBlock ==
    /\ Generating /\ sent = request.txs
    /\ scenario' = [scenario EXCEPT !.windows =
                      Append(@, [old |-> LastRoot, new |-> balances, deltas |-> Nonzero(deltaMap)])]
    /\ deltaMap' = Reopened(deltaMap) /\ sent' = 0
    /\ UNCHANGED <<job, stage, balances, tx, fileVars>>

-----------------------------------------------------------------------------
(* write_scenario *)

StartWriting ==
    /\ stage = "generating" /\ Len(scenario.windows) = request.blocks
    /\ stage' = "writing"
    /\ todo' = Todo(request, scenario)
    /\ UNCHANGED <<job, chainVars, dir, crashes>>

Write ==
    /\ stage = "writing" /\ todo # <<>>
    /\ dir' = [dir EXCEPT ![Head(todo)[1]] = Head(todo)[2]]
    /\ todo' = Tail(todo)
    /\ UNCHANGED <<job, stage, chainVars, crashes>>

Exit ==
    /\ stage = "writing" /\ todo = <<>>
    /\ stage' = "done"
    /\ UNCHANGED <<job, chainVars, fileVars>>

\* A process dies before or in a write; it is run again, and the seed gives the
\* same scenario.
Crash ==
    /\ stage = "writing" /\ todo # <<>>
    /\ crashes < job.deaths
    /\ crashes' = crashes + 1
    /\ todo' = Todo(request, scenario)
    /\ \/ dir' = dir
       \/ \E file \in Torn(Head(todo)[2]) : dir' = [dir EXCEPT ![Head(todo)[1]] = file]
    /\ UNCHANGED <<job, stage, chainVars>>

Step ==
    \/ Draw \/ Pay \/ CloseBlock \/ StartWriting \/ Write \/ Exit
    \/ \E receiver \in Accounts : Redraw(receiver) /\ receiver # tx[1]

Next == Step \/ Crash \/ \E receiver \in Accounts : Redraw(receiver)

\* The generator never waits, and a generator of random numbers does not return
\* one index for ever when there is another.
Spec == Init /\ [][Next]_vars /\ WF_vars(Step)

-----------------------------------------------------------------------------
(* mock-bench: the fixed-set route over a loaded scenario, with the whole SRS; *)
(* the last state, or none if a step fails.                                    *)

BenchStart(loaded) ==
    LET srs == WholeSrs(MaxDegree)
    IN {s \in {InitialState(loaded.reserves, loaded.root, srs)} :
          Initializes(loaded.reserves, loaded.root, srs)}
BenchWindow(states, w) ==
    LET srs == WholeSrs(MaxDegree)
        Verified(s, proof) == {n \in {NextState(s, proof)} : VerifyUpdate(srs, s, w.deltas, n, proof)}
        Updated(s) == UNION {Verified(s, proof) : proof \in {UpdateProof(s, w.deltas, w.new)}}
    IN UNION {Updated(s) : s \in {x \in states : Applies(x, w.deltas, srs)}}
Bench(loaded) ==
    LET states[i \in 0..Len(loaded.windows)] ==
            IF i = 0 THEN BenchStart(loaded) ELSE BenchWindow(states[i - 1], loaded.windows[i])
    IN states[Len(loaded.windows)]

-----------------------------------------------------------------------------
(* Properties *)

\* Transfers move money and make none, in the balances and in the open window,
\* and nobody owes: there is always a sender (pick_funded_sender never fails).
MoneyConserved ==
    /\ \A a \in Accounts : balances[a] >= 0
    /\ Total(OrZero(balances)) = Total(OrZero(scenario.root))
    /\ Total(OrZero(deltaMap)) = 0
    /\ \A i \in DOMAIN scenario.windows : Total(OrZero(scenario.windows[i].deltas)) = 0

\* The reserves with the windows applied to them one by one, as a proof of assets
\* keeps them, and the total that the chain's reserves hold when a block closes:
\* each window is a step of the ledger and no transfer is lost between two.
Applied(list, windows) ==
    LET held[i \in 0..Len(windows)] ==
            IF i = 0 THEN list
            ELSE [a \in DOMAIN list |-> held[i - 1][a] + OrZero(windows[i].deltas)[a]]
    IN held[Len(windows)]
Synced == Applied(scenario.reserves, scenario.windows)
Ledger == INSTANCE PoaLedger WITH
            Initial <- Reserves, EnrollBalances <- {},
            holdings <- Synced,
            total <- Total(OrZero([a \in DOMAIN scenario.reserves |-> LastRoot[a]]))
LedgerSpec == Ledger!Spec

\* In a directory that held nothing, whatever died, a scenario that can be read is
\* the whole one.  Its label may be cut short: a process died in the manifest.  If
\* the one run after it dies too, what is read under that label may be cut anywhere.
FreshLoadsWhole ==
    older = <<>> =>
        \A loaded \in LoadManifest :
            /\ loaded.root \in {scenario.root, Cut}
            /\ loaded.root = scenario.root \/ crashes <= 1 =>
                  loaded = [request |-> request, root |-> loaded.root, reserves |-> scenario.reserves,
                            windows |-> scenario.windows]

\* When mock-gen has ended, its scenario is read back whatever the directory held
\* and whatever died, followed by the windows of a longer one that was there.
RewrittenLoads ==
    stage = "done" =>
        \E loaded \in LoadManifest :
            /\ loaded.request = request /\ loaded.root = scenario.root
            /\ loaded.reserves = scenario.reserves
            /\ SubSeq(loaded.windows, 1, request.blocks) = scenario.windows
            /\ \A i \in request.blocks + 1..Len(loaded.windows) :
                  \E n \in DOMAIN older : loaded.windows[i] = older[n].scenario.windows[i]

\* mock-bench on a scenario that was read back proves and verifies every window
\* and ends with what the chain's reserves hold, unless the deltas of a window
\* cancelled out: it stops there.
BenchFollowsChain ==
    stage = "done" /\ older = <<>> =>
        \A states \in {Bench(loaded) : loaded \in LoadManifest} :
            IF \E i \in DOMAIN scenario.windows : DOMAIN scenario.windows[i].deltas = {}
              THEN states = {}
              ELSE \E s \in states :
                      /\ s.label = LastRoot
                      /\ s.total = Total(OrZero([a \in DOMAIN scenario.reserves |-> balances[a]]))

\* mock-gen ends, though it may draw the sender as receiver for a while and its
\* process may die; with a single account and a transfer to make it never does.
Possible == request.accounts > 1 \/ request.blocks = 0 \/ request.txs = 0
GenerationEnds == (Possible ~> stage = "done") /\ [](stage = "done" => Possible)
=============================================================================
