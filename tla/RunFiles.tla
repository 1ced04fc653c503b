------------------------------ MODULE RunFiles ------------------------------
(***************************************************************************)
(* The files of a run directory and the commands of poa-cli as functions   *)
(* of them: which files a command reads, when it refuses them, and what it *)
(* writes, in order (crates/poa-cli/src/main.rs, crates/common/src/io.rs   *)
(* and the SRS format of crates/common/src/crypto.rs).                     *)
(*                                                                         *)
(* The text formats are left out but for what a write that was cut short   *)
(* leaves behind.  CSV inputs are given with the command.                  *)
(***************************************************************************)
EXTENDS FixedSetOps, StoredSmt

Srs == <<"srs", 0>>
StatePath == {"state"} \X (0..2)
ProofPath == {"proof"} \X (0..2)
Path == {Srs} \cup StatePath \cup ProofPath

\* derive_companion_proof_path: the state's stem, then ".proof".
CompanionInOneFile(state) == <<"proof", 0>>
Companion(state) == <<"proof", state[2]>>

-----------------------------------------------------------------------------
(* Contents *)

Absent == [kind |-> "absent"]
Torn == [kind |-> "torn"]
StateFile(s) == [kind |-> "state", value |-> s]
ProofFile(p) == [kind |-> "proof", value |-> p]
SmtStateFile(s) == [kind |-> "smt-state", value |-> ToStored(s)]
SmtProofFile(p) == [kind |-> "smt-proof", value |-> p]

\* An SRS file is written value by value: the degree, a length and its G1
\* points, a length and its G2 points.
SrsUnits(degree) == 2 * (degree + 1) + 3
SrsFile(degree, written) == [kind |-> "srs", degree |-> degree, written |-> written]
WholeSrsFile(degree) == SrsFile(degree, SrsUnits(degree))

\* read_srs reads every point; read_srs_prefix seeks over the unneeded tail of
\* the G1 points and stops after the G2 points it needs.
ReadsSrs(file) == file.kind = "srs" /\ file.written = SrsUnits(file.degree)
ReadsSrsPrefix(file, g1, g2) ==
    /\ file.kind = "srs"
    /\ g1 <= file.degree + 1 /\ g2 <= file.degree + 1
    /\ file.written >= 3 + (file.degree + 1) + g2

\* What is on disk while a content is written: fs::write and File::create
\* truncate first.  A state or proof cut short misses a key or ends in a point
\* or a list that does not parse, so no reader takes it.  (An smt-proof cut in
\* its last line, which no reader uses, reads as if it were whole.)
Images(content) ==
    IF content.kind = "srs"
      THEN [n \in 1..(content.written + 1) |-> SrsFile(content.degree, n - 1)]
      ELSE <<Torn, content>>

-----------------------------------------------------------------------------
(* Commands.  An operator is the set of the write sequences <<path, content>> *)
(* with which its command may succeed: one or, when the command refuses what *)
(* it reads or panics, none.                                                 *)

FixedInit(c, srs) ==
    { << <<c.to, StateFile(s)>> >> : s \in
        { InitialState(c.reserves, c.label, powers) : powers \in
            { w \in {WholeSrs(srs.degree) : f \in {g \in {srs} : ReadsSrs(g)}} :
                Initializes(c.reserves, c.label, w) } } }

\* read_state, then as many powers as the update will need.
Update(c, proofPath, files) ==
    LET s == files[c.from].value
        srs == files[Srs]
    IN IF /\ files[c.from].kind = "state"
          /\ ReadsSrsPrefix(srs, Len(s.poly), Cardinality(DOMAIN c.window) + 1)
          /\ Applies(s, c.window, PrefixForUpdate(srs.degree, s, c.window))
         THEN { << <<c.to, StateFile(NextState(s, proof))>>, <<proofPath, ProofFile(proof)>> >> :
                  proof \in {UpdateProof(s, c.window, c.label)} }
         ELSE {}

SmtInit(c) ==
    IF SmtNewPanics(SmtInitialLeaves(c.reserves)) THEN {}
    ELSE { << <<c.to, SmtStateFile(SmtInitial(c.reserves, c.label))>> >> }

SmtLoaded(file) == IF file.kind = "smt-state" THEN Loaded(file.value) ELSE {}

\* The witness of an update, or of an insertion that can be asked for.
WitnessFor(c, s) ==
    IF c.cmd # "smt-insert" THEN {Lib(s)!UpdateWitness(c.window)}
    ELSE {w \in {Lib(s)!InsertWitness(c.address, c.balance)} :
             w.balance >= 0 /\ w.proof.kind # "member"}

SmtChange(c, proofPath, files) ==
    UNION { UNION { { << <<c.to, SmtStateFile(result.state)>>,
                         <<proofPath, SmtProofFile(result.proof)>> >> :
                        result \in Proved(s, w, c.label, <<w.op, c.label>>) } :
                    w \in WitnessFor(c, s) } :
            s \in SmtLoaded(files[c.from]) }

\* What a command writes before it reads: only prepare-run, the SRS it misses.
FirstWrites(c, files) ==
    IF c.cmd = "prepare-run" /\ files[Srs] = Absent
      THEN << <<Srs, WholeSrsFile(c.degree)>> >> ELSE <<>>

\* The continue- commands derive the path of the proof, the others are given it.
ProofPathOf(c) ==
    IF c.cmd \in {"continue-run", "continue-smt-run"} THEN Companion(c.to) ELSE c.proof

\* gen-srs overwrites.
GenSrsUnlessThere(c, files) ==
    { IF files[Srs] # Absent THEN <<>> ELSE << <<Srs, WholeSrsFile(c.degree)>> >> }
GenSrs(c, files) == { << <<Srs, WholeSrsFile(c.degree)>> >> }

\* prepare-run uses an srs.bin that exists, whatever is in it.
Writes(c, files) ==
    CASE c.cmd = "gen-srs" -> GenSrs(c, files)
      [] c.cmd \in {"init", "prepare-run"} ->
            FixedInit(c, IF c.cmd = "prepare-run" /\ files[Srs] = Absent
                           THEN WholeSrsFile(c.degree) ELSE files[Srs])
      [] c.cmd \in {"update", "continue-run"} -> Update(c, ProofPathOf(c), files)
      [] c.cmd \in {"smt-init", "prepare-smt-run"} -> SmtInit(c)
      [] c.cmd \in {"smt-update", "continue-smt-run", "smt-insert"} ->
            SmtChange(c, ProofPathOf(c), files)

\* The one outcome of a command: whether it succeeds, and all it writes.
Outcomes(c, files) ==
    { [ok |-> W # {},
       writes |-> FirstWrites(c, files) \o IF W = {} THEN <<>> ELSE CHOOSE w \in W : TRUE] :
        W \in {Writes(c, files)} }

\* The files after the first n writes, and those that a script leaves behind if no
\* process dies; none if it stops.
FilesAfter(files, writes, n) ==
    LET after[i \in 0..Len(writes)] ==
            IF i = 0 THEN files ELSE [after[i - 1] EXCEPT ![writes[i][1]] = writes[i][2]]
    IN after[n]
After(c, dirs) ==
    UNION { {FilesAfter(files, o.writes, Len(o.writes)) : o \in {p \in Outcomes(c, files) : p.ok}} :
            files \in dirs }
Uncrashed(script, dir) ==
    LET dirs[i \in 0..Len(script)] == IF i = 0 THEN {dir} ELSE After(script[i], dirs[i - 1])
    IN dirs[Len(script)]

-----------------------------------------------------------------------------
(* verify and smt-verify *)

Verifies(files, old, d, new, proof) ==
    LET n == Cardinality(DOMAIN d) + 1
    IN /\ files[old].kind = "state" /\ files[new].kind = "state" /\ files[proof].kind = "proof"
       /\ ReadsSrsPrefix(files[Srs], n, n)
       /\ VerifyUpdate(PrefixForVerify(files[Srs].degree, d), files[old].value, d,
                       files[new].value, files[proof].value)

SmtFilesVerify(files, old, new, proof, mode) ==
    /\ files[proof].kind = "smt-proof"
    /\ \E s \in SmtLoaded(files[old]), t \in SmtLoaded(files[new]) :
          SmtVerifies(s, t, files[proof].value, mode)
=============================================================================
