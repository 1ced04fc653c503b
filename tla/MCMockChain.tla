----------------------------- MODULE MCMockChain -----------------------------
(***************************************************************************)
(* Requests and older scenarios for MockChain.                             *)
(***************************************************************************)
EXTENDS MockChain, TLC

Encodings == <<2, 5, 11>>
Ask(accounts, reserves, blocks, txs) ==
    [accounts |-> accounts, reserves |-> reserves, blocks |-> blocks, txs |-> txs]

StartBalances == {2, 3}

\* Every list of reserves and every window with amounts up to 2 * MaxAmount.
ReserveLists == UNION {[S -> StartBalances] : S \in SUBSET Address \ {{}}}
DeltaWindows ==
    {NoDeltas} \cup {d \in UNION {[S -> (-4..4) \ {0}] : S \in kSubset(2, Address)} : Total(OrZero(d)) = 0}

\* An older scenario.
Old(blocks) ==
    [request |-> Ask(3, 3, blocks, 1),
     scenario |-> [root |-> <<9, 9, 9>>, reserves |-> <<9, 9, 9>>,
                   windows |-> [i \in 1..blocks |-> [old |-> <<9 - i, 9, 8 + i>>, new |-> <<8 - i, 9, 9 + i>>,
                                                    deltas |-> (1 :> -1) @@ (3 :> 1)]]]]

\* Windows that cancel out or sum up; one account alone with and without a
\* transfer; two requests that are refused; a process that dies, in a directory
\* that held nothing or an older scenario.
SomeJobs ==
    {[request |-> q, older |-> <<>>, deaths |-> 0] :
        q \in {Ask(2, 1, 1, 2), Ask(2, 2, 2, 1), Ask(1, 1, 1, 1), Ask(1, 1, 1, 0),
               Ask(2, 0, 1, 1), Ask(2, 3, 1, 1)}}
    \cup {[request |-> Ask(3, 2, 1, 1), older |-> o, deaths |-> 1] : o \in {<<>>, <<Old(1)>>, <<Old(3)>>}}
    \cup {[request |-> Ask(2, 2, 2, 1), older |-> <<Old(1)>>, deaths |-> 1],
           [request |-> Ask(2, 1, 1, 1), older |-> <<>>, deaths |-> 2]}
=============================================================================
