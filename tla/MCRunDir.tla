------------------------------ MODULE MCRunDir ------------------------------
(***************************************************************************)
(* Scripts and directories for RunDir.                                     *)
(***************************************************************************)
EXTENDS RunDir, TLC

Encodings == <<2, 5, 11>>
ReserveLists == { (1 :> 1), (1 :> 3) @@ (2 :> 2), (1 :> 2) @@ (3 :> 1) }
DeltaWindows == { (1 :> 1), (1 :> -1), (1 :> -1) @@ (2 :> 1), (3 :> 2) }
IdNormal == [a \in Address |-> a]
OwnWords == [a \in Address |-> <<a>>]
SpreadKeys == (<<1>> :> <<0, 0, 0>>) @@ (<<2>> :> <<0, 1, 0>>) @@ (<<3>> :> <<1, 1, 1>>)

S(n) == <<"state", n>>
Pf(n) == <<"proof", n>>
One == 1 :> 1
Two == (1 :> 3) @@ (2 :> 2)
Alt == (1 :> 2) @@ (3 :> 1)

GenSrsOf(d) == [cmd |-> "gen-srs", degree |-> d]
InitOf(r, to) == [cmd |-> "init", reserves |-> r, label |-> "a", to |-> to]
PrepareOf(d, r) == [cmd |-> "prepare-run", degree |-> d, reserves |-> r, label |-> "a", to |-> S(0)]
\* proof: the path given, or the one that a continue- command is to derive.
UpdateOf(cmd, from, d, label, to) ==
    [cmd |-> cmd, from |-> from, window |-> d, label |-> label, to |-> to, proof |-> <<"proof", to[2]>>]
SmtInitOf(cmd, r) == [cmd |-> cmd, reserves |-> r, label |-> "a", to |-> S(0)]
InsertOf(from, a, b, label, to) ==
    [cmd |-> "smt-insert", from |-> from, address |-> a, balance |-> b, label |-> label, to |-> to,
     proof |-> <<"proof", to[2]>>]

\* A fixed-set run by single commands and by run commands, and an SMT run each way.
ByHand(d, r) ==
    << GenSrsOf(d), InitOf(r, S(0)), UpdateOf("update", S(0), (1 :> 1), "b", S(1)),
       UpdateOf("update", S(1), (1 :> -1) @@ (2 :> 1), "c", S(2)) >>
ByRun(d, r) ==
    << PrepareOf(d, r), UpdateOf("continue-run", S(0), (1 :> 1), "b", S(1)),
       UpdateOf("continue-run", S(1), (1 :> -1), "c", S(2)) >>
InPlace == << GenSrsOf(2), InitOf(Two, S(0)), UpdateOf("update", S(0), (1 :> 1), "b", S(0)) >>
SmtByHand(r) ==
    << SmtInitOf("smt-init", r), UpdateOf("smt-update", S(0), (1 :> -1) @@ (2 :> 1), "b", S(1)),
       InsertOf(S(1), 3, 1, "c", S(2)) >>
SmtByRun(r) ==
    << SmtInitOf("prepare-smt-run", r), UpdateOf("continue-smt-run", S(0), (1 :> 1), "b", S(1)),
       UpdateOf("continue-smt-run", S(1), (3 :> 2), "c", S(2)) >>

Job(before, died, script) == [before |-> before, died |-> died, script |-> script]

\* In an empty directory; over an SRS of a smaller degree; over a run on other
\* reserves, with the same labels and, by another window, the same change of the
\* total; over one of the other route;
\* over an SRS that a crash left too short to load but long enough to update.
SmallSrs == SubSeq(ByHand(1, One), 1, 3)
Other == ByHand(2, Alt)
HalfSrs == << <<Srs, SrsFile(2, 8)>> >>

SomeJobs ==
    {Job(before, <<>>, ByHand(2, Two)) : before \in {<<>>, SmallSrs, SmtByRun(One)}}
    \cup {Job(before, <<>>, ByRun(2, Two)) : before \in {<<>>, SmallSrs, Other}}
    \cup {Job(ByHand(2, Two), HalfSrs, script) : script \in {ByRun(2, Two), Tail(ByRun(2, Two))}}
    \cup {Job(<<>>, <<>>, InPlace)}
    \cup {Job(before, <<>>, SmtByHand(Two)) : before \in {<<>>, SmtByRun(One)}}
    \cup {Job(before, <<>>, SmtByRun(Two)) : before \in {SmtByHand(Two), Other}}
=============================================================================
