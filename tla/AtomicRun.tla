----------------------------- MODULE AtomicRun -----------------------------
(***************************************************************************)
(* What an operator may rely on when a script of commands is run over a    *)
(* directory and a command that died is run again: a command takes effect  *)
(* at once, on the files as they are; one that dies leaves a prefix of its *)
(* writes, the next one possibly in part, and changes nothing else.        *)
(***************************************************************************)
EXTENDS Sequences, Integers

CONSTANT Parts(_)  \* the contents that a write cut short may leave

VARIABLES
    script, pos,  \* the commands, and the one to run next
    files,        \* path -> content
    outcomes,     \* of the next command on files: [ok, writes]
    stopped       \* a command refused its input

vars == <<script, pos, files, stopped>>

Init == pos = 1 /\ stopped = FALSE

\* The files after the first n writes <<path, content>>.
After(writes, n) ==
    LET after[i \in 0..Len(writes)] ==
            IF i = 0 THEN files ELSE [after[i - 1] EXCEPT ![writes[i][1]] = writes[i][2]]
    IN after[n]

Run(o) ==
    /\ files' = After(o.writes, Len(o.writes))
    /\ pos' = IF o.ok THEN pos + 1 ELSE pos
    /\ stopped' = ~o.ok
    /\ UNCHANGED script

Die(o) ==
    /\ \E n \in 0..Len(o.writes) :
          \/ files' = After(o.writes, n)
          \/ /\ n < Len(o.writes)
             /\ \E part \in Parts(o.writes[n + 1][2]) :
                   files' = [After(o.writes, n) EXCEPT ![o.writes[n + 1][1]] = part]
    /\ UNCHANGED <<script, pos, stopped>>

Next == /\ ~stopped /\ pos \in DOMAIN script
        /\ \E o \in outcomes : Run(o) \/ Die(o)

Spec == Init /\ [][Next]_vars
=============================================================================
