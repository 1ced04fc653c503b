------------------------------- MODULE RunDir -------------------------------
(***************************************************************************)
(* One operator works through a script of poa-cli commands in a directory  *)
(* that may hold files of earlier runs.  A command is a process: it reads  *)
(* its inputs, computes, and then writes its files one after the other.    *)
(* It may die between any two writes and in the middle of one; what was    *)
(* written stays, the rest is lost, and the operator runs it again.        *)
(***************************************************************************)
EXTENDS RunFiles

CONSTANTS
    Jobs,       \* each a script, the script that was run before it and, if a
                \* process had died after that, the write it was in
    MaxCrashes  \* bound: processes that die

IsUpdate(c) == c.cmd \in {"update", "continue-run"}
IsSmtChange(c) == c.cmd \in {"smt-update", "continue-smt-run", "smt-insert"}

\* A command line with the contents of its CSV inputs.
IsCommand(c) ==
    /\ \/ c.cmd \in {"gen-srs", "init", "prepare-run", "smt-init", "prepare-smt-run"}
       \/ IsUpdate(c) \/ IsSmtChange(c)
    /\ c.cmd \in {"gen-srs", "prepare-run"} => c.degree \in Nat
    /\ c.cmd \in {"init", "prepare-run", "smt-init", "prepare-smt-run"} => c.reserves \in Reserves
    /\ c.cmd # "gen-srs" => c.to \in StatePath
    /\ IsUpdate(c) \/ IsSmtChange(c) => c.from \in StatePath /\ c.proof \in ProofPath
    /\ IsUpdate(c) \/ c.cmd \in {"smt-update", "continue-smt-run"} => c.window \in Windows
    /\ c.cmd \in {"continue-run", "continue-smt-run"} => c.proof = <<"proof", c.to[2]>>
    /\ c.cmd = "smt-insert" => c.address \in Address /\ c.balance \in Int
IsScript(s) == Len(s) \in Nat /\ DOMAIN s = 1..Len(s) /\ \A i \in DOMAIN s : IsCommand(s[i])

\* What a process that died had left in a file: it cannot be read, or is a part of
\* an SRS.
IsCut(content) ==
    \/ content = Torn
    \/ content.kind = "srs" /\ content.degree \in Nat /\ content.written \in 0..SrsUnits(content.degree)

ASSUME JobsAssumption ==
    \A j \in Jobs :
        /\ IsScript(j.script) /\ Len(j.script) > 0
        /\ IsScript(j.before)
        /\ Len(j.died) \in Nat /\ DOMAIN j.died = 1..Len(j.died)
        /\ \A i \in DOMAIN j.died : j.died[i][1] \in Path /\ IsCut(j.died[i][2])
ASSUME CrashesAssumption == MaxCrashes \in Nat

VARIABLES
    job,      \* what is run, and what the directory held
    clean,    \* whether the script succeeds if no process dies
    pos,      \* index of the current command
    disk,     \* path -> content
    process,  \* the process that runs: what it read, all it writes, and where it is in that
    stopped,  \* a command refused its input
    crashes

vars == <<job, clean, pos, disk, process, stopped, crashes>>

NoProcess == [running |-> FALSE]

Empty == [p \in Path |-> Absent]

Init ==
    /\ job \in Jobs
    /\ \E files \in Uncrashed(job.before, Empty) : disk = FilesAfter(files, job.died, Len(job.died))
    /\ clean = (Uncrashed(job.script, disk) # {})
    /\ pos = 1 /\ process = NoProcess /\ stopped = FALSE /\ crashes = 0

Finished == pos > Len(job.script)
Current == job.script[pos]

\* A process after an image of its next write: at the image after it, or at the write
\* after that.
AdvancedTooSoon(p) ==
    IF p.image < Len(Images(p.writes[p.next][2])) - 1 THEN [p EXCEPT !.image = @ + 1]
    ELSE [p EXCEPT !.next = @ + 1, !.image = 1]
Advanced(p) ==
    IF p.image < Len(Images(p.writes[p.next][2])) THEN [p EXCEPT !.image = @ + 1]
    ELSE [p EXCEPT !.next = @ + 1, !.image = 1]

Start ==
    /\ ~process.running /\ ~stopped /\ ~Finished
    /\ \E o \in Outcomes(Current, disk) :
          process' = [running |-> TRUE, read |-> disk, ok |-> o.ok,
                      writes |-> o.writes, next |-> 1, image |-> 1]
    /\ UNCHANGED <<job, clean, pos, disk, stopped, crashes>>

Write ==
    /\ process.running /\ process.next <= Len(process.writes)
    /\ LET write == process.writes[process.next]
       IN disk' = [disk EXCEPT ![write[1]] = Images(write[2])[process.image]]
    /\ process' = Advanced(process)
    /\ UNCHANGED <<job, clean, pos, stopped, crashes>>

Exit ==
    /\ process.running /\ process.next > Len(process.writes)
    /\ pos' = IF process.ok THEN pos + 1 ELSE pos
    /\ stopped' = ~process.ok
    /\ process' = NoProcess
    /\ UNCHANGED <<job, clean, disk, crashes>>

Crash ==
    /\ process.running
    /\ crashes < MaxCrashes
    /\ process' = NoProcess
    /\ crashes' = crashes + 1
    /\ UNCHANGED <<job, clean, pos, disk, stopped>>

Step == Start \/ Write \/ Exit
Next == Step \/ Crash

\* A command never waits, and one that died is run again.
Spec == Init /\ [][Next]_vars /\ WF_vars(Step)

-----------------------------------------------------------------------------
(* Properties *)

Targets(c) == CASE c.cmd = "gen-srs" -> {Srs}
                [] c.cmd = "prepare-run" -> {Srs, c.to}
                [] c.cmd \in {"init", "smt-init", "prepare-smt-run"} -> {c.to}
                [] OTHER -> {c.to, c.proof}

\* Files are files; a process writes what its command writes.
TypeOK ==
    /\ DOMAIN disk = Path
    /\ pos \in 1..(Len(job.script) + 1)
    /\ process.running => /\ DOMAIN process.read = Path
                          /\ \A i \in DOMAIN process.writes : process.writes[i][1] \in Targets(Current)
    /\ crashes \in 0..MaxCrashes

\* Once a command that updates or inserts has exited, the files it read and
\* wrote verify together, through both formats and whatever died before it,
\* until a later command writes one of them.
FilesVerify ==
    \A i \in 1..(pos - 1) :
        LET c == job.script[i]
            later == UNION {Targets(job.script[j]) : j \in {k \in DOMAIN job.script : i < k /\ k <= pos}}
        IN /\ IsUpdate(c) \/ IsSmtChange(c)
           /\ c.from # c.to
           /\ later \cap {Srs, c.from, c.to, ProofPathOf(c)} = {}
           => IF IsUpdate(c)
                THEN InI128(Owed(disk[c.from].value, c.window))
                       => Verifies(disk, c.from, c.window, c.to, ProofPathOf(c))
                ELSE SmtFilesVerify(disk, c.from, c.to, ProofPathOf(c),
                                    IF c.cmd = "smt-insert" THEN "insert" ELSE "update")

\* What a verified SMT proof says: the window moved every tracked account it
\* names and no other, or the account was added, and the total moved with it.
SmtMoved(old, new, w) ==
    LET balances(s) == OrZero([a \in DOMAIN s.leaves |-> s.leaves[a].balance])
        Named == IF w.op = "update" THEN DOMAIN w.delta \cap DOMAIN old.leaves ELSE {w.address}
        Moved(a) == IF w.op = "update" THEN w.delta[a] ELSE w.balance
    IN /\ DOMAIN new.leaves = DOMAIN old.leaves \cup Named
       /\ \A a \in Address : balances(new)[a] = balances(old)[a] + IF a \in Named THEN Moved(a) ELSE 0
       /\ new.commitment[1] = old.commitment[1] + Total(OrZero([a \in Named |-> Moved(a)]))

\* Whatever mix of files of this run, of one that died and of earlier ones in
\* the directory is verified, also while a command writes: if it is accepted,
\* the new total is the old one plus what the window owes.
AcceptedMeansApplied ==
    \A old, new \in StatePath, proof \in ProofPath :
        /\ \A d \in Windows :
              Verifies(disk, old, d, new, proof)
                 => disk[new].value.total = Wrap(disk[old].value.total + Owed(disk[old].value, d))
        /\ \A mode \in {"update", "insert"} :
              SmtFilesVerify(disk, old, new, proof, mode)
                 => SmtMoved(disk[old].value, disk[new].value, disk[proof].value.witness)

\* Commands are atomic but for a prefix of the writes of one that died.
Parts(content) == {Images(content)[n] : n \in DOMAIN Images(content)}
Files == IF process.running THEN process.read ELSE disk
Atomic == INSTANCE AtomicRun WITH
            script <- job.script, files <- Files,
            outcomes <- Outcomes(Current, Files)
AtomicSpec == Atomic!Spec

\* A script that succeeds when nothing dies also succeeds when processes die
\* and are run again, but for the two cases in which a command reads what it
\* writes: prepare-run finds its own SRS half written, or an update in place
\* its own state.
Spoiled ==
    /\ stopped
    /\ \/ Current.cmd = "prepare-run" /\ disk[Srs] # Absent /\ ~ReadsSrs(disk[Srs])
       \/ "from" \in DOMAIN Current /\ Current.from = Current.to /\ disk[Current.to] = Torn
RetryCompletes == clean ~> Finished \/ Spoiled
=============================================================================
