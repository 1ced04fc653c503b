------------------------------- MODULE MCSmt -------------------------------
(***************************************************************************)
(* Instances of Smt for TLC: keys, spellings, reserves and delta lists.    *)
(***************************************************************************)
EXTENDS Smt, TLC

\* Canonical delta lists of at most `size` entries on As with deltas from D.
DeltaListsOf(As, D, size) ==
    UNION {[S -> D] : S \in {T \in SUBSET As : Cardinality(T) <= size}}

IdNormal == [a \in Address |-> a]

\* Addresses of one word each, below the prime; a table of keys by that word.
OwnWords == [a \in Address |-> <<a>>]
KeysOf(table) == [w \in {<<i>> : i \in DOMAIN table} |-> table[w[1]]]

InsertBalances01 == {-1, 0, 1}
InsertBalance1 == {1}

\* Three-bit keys 000, 010, 111: at depth 3 all paths differ.
SpreadKeys == KeysOf(<< <<0, 0, 0>>, <<0, 1, 0>>, <<1, 1, 1>> >>)
SpreadReserves == {[a \in {1, 3} |-> 1], [a \in {2} |-> 0], [a \in {} |-> 0]}
UpToTwoUnitDeltas == DeltaListsOf(1..3, {-1, 1}, 2)

\* With a pair whose sum overflows although each new balance is in range.
WideDeltas == UpToTwoUnitDeltas \cup {(1 :> 2) @@ (3 :> 2)}

\* Few delta lists, for the run that holds two witnesses at a time.  No list is
\* a part of another, so a window applied in part is not another window.
FewDeltas == { (3 :> 1), (1 :> 1) @@ (2 :> -1), (2 :> 1), (3 :> -1) @@ (1 :> -1) }

\* At depth 2, addresses 1 and 2 share the path 00, address 3 is on path 11.
ClashKeys == KeysOf(<< <<0, 0, 0>>, <<0, 0, 1>>, <<1, 1, 0>> >>)
ClashReserves == {[a \in {1, 2} |-> 1], [a \in {2, 3} |-> 1], [a \in {} |-> 0]}

\* Address 4 beside them: its word and that of address 3 are equal modulo 5, so
\* the two have one key.
AliasWords == << <<1>>, <<2>>, <<0>>, <<5>> >>
AliasClashKeys ==
    (<<1>> :> <<0, 0, 0>>) @@ (<<2>> :> <<0, 0, 1>>) @@ (<<0>> :> <<1, 1, 0>>)
WrapReserves ==
    {[a \in {1, 2} |-> 1], [a \in {2, 3} |-> 1], [a \in {3, 4} |-> 1], [a \in {} |-> 0]}
WrapDeltas == WideDeltas \cup { (4 :> 1), (1 :> 1) @@ (4 :> -1) }

\* Address 1 is another spelling of address 3 (an upper-case digit sorts first).
SpelledNormal == <<3, 2, 3>>
SpelledReserves == {[a \in {2} |-> 1], [a \in {2, 3} |-> 1], [a \in {} |-> 0]}
SpelledDeltas == DeltaListsOf({2, 3}, {-1, 1}, 2)
=============================================================================
