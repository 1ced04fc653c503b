----------------------------- MODULE PoaLedger -----------------------------
(***************************************************************************)
(* What a proof-of-assets state promises, whichever route keeps it: a set  *)
(* of tracked accounts with their balances, and the total that is          *)
(* committed to.  A window of public deltas changes exactly the tracked    *)
(* accounts it names; a new account is enrolled at most once; the total is *)
(* always the sum of the tracked balances.                                 *)
(***************************************************************************)
EXTENDS Balances

CONSTANTS
    Initial,        \* the reserve lists a ledger may start from
    Windows,        \* the delta lists that may arrive
    EnrollBalances  \* the balances a new account may have

VARIABLES
    holdings,  \* tracked account -> balance
    total      \* the committed total

vars == <<holdings, total>>

Init == /\ holdings \in Initial
        /\ total = Total(OrZero(holdings))

\* A window moves every tracked account it names, none below zero, and no other.
Adjust(d) ==
    /\ \A c \in DOMAIN d \cap DOMAIN holdings : holdings[c] + d[c] >= 0
    /\ holdings' = [c \in DOMAIN holdings |->
                        IF c \in DOMAIN d THEN holdings[c] + d[c] ELSE holdings[c]]
    /\ total' = Total(OrZero(holdings'))

Enroll(c, b) ==
    /\ c \notin DOMAIN holdings
    /\ b >= 0
    /\ holdings' = [x \in DOMAIN holdings \cup {c} |-> IF x = c THEN b ELSE holdings[x]]
    /\ total' = Total(OrZero(holdings'))

Next == \/ \E d \in Windows : Adjust(d)
        \/ \E c \in Address, b \in EnrollBalances : Enroll(c, b)

Spec == Init /\ [][Next]_vars
=============================================================================
