-------------------------------- MODULE Csv --------------------------------
(***************************************************************************)
(* The reader of delta files (crates/common: read_delta_csv): the lines of *)
(* one account, however it is spelled, are merged into one delta by        *)
(* unchecked i128 additions, and accounts whose lines cancel out are       *)
(* dropped.                                                                *)
(***************************************************************************)
EXTENDS Balances, Sequences

CONSTANT Normal  \* spelling -> its normal form, which spells the account too

ASSUME NormalAssumption ==
    Normal \in [Address -> Address] /\ \A a \in Address : Normal[Normal[a]] = Normal[a]

\* A line is <<spelling, amount>>.
AddLineAsSpelled(read, line) ==
    LET sum == read.sums[line[1]] + line[2]
    IN [sums |-> [read.sums EXCEPT ![line[1]] = Wrap(sum)],
        overflowed |-> read.overflowed \/ ~InI128(sum)]
AddLine(read, line) ==
    LET a == Normal[line[1]]
        sum == read.sums[a] + line[2]
    IN [sums |-> [read.sums EXCEPT ![a] = Wrap(sum)],
        overflowed |-> read.overflowed \/ ~InI128(sum)]

Unread == [sums |-> [a \in Address |-> 0], overflowed |-> FALSE]
Merge(lines) ==
    LET read[i \in 0..Len(lines)] ==
            IF i = 0 THEN Unread ELSE AddLine(read[i - 1], lines[i])
    IN read[Len(lines)]

\* The canonical deltas of a file; none if the reader panics.
ReadDeltas(lines) ==
    { [a \in {b \in Address : read.sums[b] # 0} |-> read.sums[a]] :
        read \in {m \in {Merge(lines)} : ~(OverflowPanics /\ m.overflowed)} }
=============================================================================
