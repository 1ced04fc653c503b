--------------------------- MODULE MockChainProofs ---------------------------
(***************************************************************************)
(* Theorems about module MockChain, for every set of requests, initial     *)
(* balances and bounds: transfers conserve money; the windows implement    *)
(* the ledger of module PoaLedger; what is written file by file, with      *)
(* deaths and reruns, is read back whole; and what is read back goes       *)
(* through the fixed-set route, window by window, to what the chain's      *)
(* reserves hold.                                                          *)
(***************************************************************************)
EXTENDS MockChain, FixedSetOpsProofs

\* The lists of amounts of some accounts, and those whose amounts sum up to 0.
AmountLists == UNION {[S -> Int] : S \in SUBSET Address}
Balanced == {d \in AmountLists : Total(OrZero(d)) = 0}

-----------------------------------------------------------------------------
(* Sums *)

\* A list of amounts is a function on some accounts.
LEMMA AmountListType ==
    ASSUME NEW f \in AmountLists
    PROVE  /\ DOMAIN f \subseteq Address /\ f \in [DOMAIN f -> Int]
           /\ OrZero(f) \in [Address -> Int] /\ Total(OrZero(f)) \in Int
<1>1. PICK S \in SUBSET Address : f \in [S -> Int]
  BY DEF AmountLists
<1>2. OrZero(f) \in [Address -> Int]
  BY <1>1, OrZeroType
<1>3. QED
  BY <1>1, <1>2, TotalType

\* What moves on one account moves the total.
LEMMA MovedTotal ==
    ASSUME NEW f \in AmountLists, NEW a \in Address, NEW v \in Int
    PROVE  /\ Moved(f, a, v) \in [DOMAIN f \cup {a} -> Int]
           /\ Moved(f, a, v) \in AmountLists
           /\ Total(OrZero(Moved(f, a, v))) = Total(OrZero(f)) + v
<1> DEFINE g == Moved(f, a, v)
           one == [b \in Address |-> IF b = a THEN v ELSE 0]
<1>1. DOMAIN f \subseteq Address /\ f \in [DOMAIN f -> Int] /\ OrZero(f) \in [Address -> Int]
  BY AmountListType
<1>2. g \in [DOMAIN f \cup {a} -> Int]
  BY <1>1 DEF Moved
<1>3. DOMAIN f \cup {a} \in SUBSET Address
  BY <1>1
<1>4. g \in AmountLists
  BY <1>2, <1>3 DEF AmountLists
<1>5. OrZero(g) \in [Address -> Int]
  BY <1>2, <1>3, OrZeroType
<1>6. one \in [Address -> Int] /\ Total(one) = v
  <2>1. one \in [Address -> Int] /\ \A b \in Address : one[b] = IF b = a THEN v ELSE 0
    OBVIOUS
  <2> HIDE DEF one
  <2>2. QED
    BY <2>1, TotalOfOne
<1>7. \A b \in Address : OrZero(g)[b] = OrZero(f)[b] + one[b]
  BY <1>1 DEF OrZero, Moved
<1> HIDE DEF g, one
<1>8. Total(OrZero(g)) = Total(OrZero(f)) + Total(one)
  BY <1>1, <1>5, <1>6, <1>7, TotalAdds
<1>9. QED
  BY <1>2, <1>4, <1>6, <1>8 DEF g

\* Nothing moved sums up to nothing.
LEMMA NoDeltasBalanced == NoDeltas \in Balanced
<1>1. NoDeltas \in [{} -> Int] /\ {} \in SUBSET Address
  BY DEF NoDeltas
<1>2. NoDeltas \in AmountLists
  BY <1>1 DEF AmountLists
<1>3. OrZero(NoDeltas) \in [Address -> Int] /\ Total(OrZero(NoDeltas)) \in Int
  BY <1>2, AmountListType
<1>4. \A a \in Address : OrZero(NoDeltas)[a] = OrZero(NoDeltas)[a] + OrZero(NoDeltas)[a]
  BY DEF OrZero, NoDeltas
<1> DEFINE t == Total(OrZero(NoDeltas))
<1>5. t \in Int /\ t = t + t
  BY <1>3, <1>4, TotalAdds
<1> HIDE DEF t
<1>6. t = 0
  BY <1>5
<1>7. QED
  BY <1>2, <1>6 DEF Balanced, t

\* Dropping the accounts that moved by 0 leaves the sum alone.
LEMMA NonzeroBalanced == ASSUME NEW d \in Balanced PROVE Nonzero(d) \in Balanced
<1>1. d \in AmountLists /\ Total(OrZero(d)) = 0
  BY DEF Balanced
<1>2. DOMAIN d \subseteq Address /\ d \in [DOMAIN d -> Int]
  BY <1>1, AmountListType
<1> DEFINE S == {b \in DOMAIN d : d[b] # 0}
<1>3. Nonzero(d) \in [S -> Int] /\ S \in SUBSET Address
  BY <1>2 DEF Nonzero
<1>4. Nonzero(d) \in AmountLists
  BY <1>3 DEF AmountLists
<1>5. OrZero(Nonzero(d)) = OrZero(d)
  BY <1>2 DEF OrZero, Nonzero
<1>6. QED
  BY <1>1, <1>4, <1>5 DEF Balanced

\* An amount to pay is what the sender has, at most.
LEMMA AmountsAffordable ==
    ASSUME NEW a \in Accounts, balances[a] \in Nat, NEW amount \in Amounts(a)
    PROVE  amount \in Nat /\ amount <= balances[a]
<1> DEFINE m == Min({balances[a], MaxAmount})
<1>1. MaxAmount \in Nat
  BY ChainAssumption
<1>2. \E x \in {balances[a], MaxAmount} : \A y \in {balances[a], MaxAmount} : x <= y
  BY <1>1
<1>3. m \in {balances[a], MaxAmount} /\ m <= balances[a]
  BY <1>2 DEF Min
<1>4. amount \in 1..m
  BY DEF Amounts
<1> HIDE DEF m
<1>5. QED
  BY <1>1, <1>3, <1>4

-----------------------------------------------------------------------------
(* The invariant *)

Holdings == [Accounts -> Nat]
ClosedWindows == [old : Holdings, new : Holdings, deltas : Balanced]

\* MoneyConserved with the types it needs: what the open block and the closed
\* windows moved is a list of amounts that sums up to 0, so that the next
\* transfer, which adds and takes one amount, leaves every sum alone.
ChainInv ==
    /\ job \in Jobs
    /\ balances \in Holdings
    /\ deltaMap \in Balanced
    /\ tx = <<>> \/ tx \in Accounts \X Accounts
    /\ scenario \in [root : Holdings, reserves : {scenario.reserves}, windows : Seq(ClosedWindows)]
    /\ Total(OrZero(balances)) = Total(OrZero(scenario.root))

\* The accounts are addresses, and what they hold is a list of amounts.
LEMMA HoldingsAreAmounts ==
    ASSUME job \in Jobs PROVE Accounts \subseteq Address /\ Holdings \subseteq AmountLists
<1>1. request.accounts \in 0..N
  BY ChainAssumption DEF request
<1>2. Accounts \in SUBSET Address
  BY <1>1, NAssumption DEF Accounts, Address
<1>3. Holdings \subseteq [Accounts -> Int]
  BY DEF Holdings
<1>4. QED
  BY <1>2, <1>3 DEF AmountLists

\* The invariant is stronger than what it is for.
LEMMA ChainInvImplies == ChainInv => MoneyConserved
<1> SUFFICES ASSUME ChainInv PROVE MoneyConserved
  OBVIOUS
<1>1. \A a \in Accounts : balances[a] >= 0
  BY DEF ChainInv, Holdings
<1>2. Total(OrZero(deltaMap)) = 0
  BY DEF ChainInv, Balanced
<1>3. \A i \in DOMAIN scenario.windows : Total(OrZero(scenario.windows[i].deltas)) = 0
  <2>1. \A i \in DOMAIN scenario.windows : scenario.windows[i] \in ClosedWindows
    BY DEF ChainInv
  <2>2. QED
    BY <2>1 DEF ClosedWindows, Balanced
<1>4. QED
  BY <1>1, <1>2, <1>3 DEF ChainInv, MoneyConserved

\* The accounts start with positive balances, and nothing has moved.
LEMMA ChainInvInit == Init => ChainInv
<1> SUFFICES ASSUME Init PROVE ChainInv
  OBVIOUS
<1>1. job \in Jobs /\ balances \in Holdings
  BY ChainAssumption DEF Init, Holdings
<1>2. PICK R : scenario = [root |-> balances, reserves |-> [a \in R |-> balances[a]], windows |-> <<>>]
  BY DEF Init
<1>3. scenario \in [root : Holdings, reserves : {scenario.reserves}, windows : Seq(ClosedWindows)]
  BY <1>1, <1>2
<1>4. QED
  BY <1>1, <1>2, <1>3, NoDeltasBalanced DEF Init, ChainInv

\* A transfer takes from the sender what it gives to the receiver, and the
\* sender has it.
LEMMA PayConserves ==
    ASSUME ChainInv, Pay PROVE ChainInv'
<1>1. PICK amount \in Amounts(tx[1]) : Paid(tx[1], tx[2], amount)
  BY DEF Pay
<1> DEFINE s == tx[1]
           r == tx[2]
           taken(f) == Moved(f, s, -amount)
<1>2. s \in Accounts /\ r \in Accounts /\ s # r
  BY DEF ChainInv, Pay, ToItself
<1>3. Accounts \subseteq Address /\ Holdings \subseteq AmountLists
  BY HoldingsAreAmounts DEF ChainInv
<1>4. balances \in Holdings /\ balances \in AmountLists /\ deltaMap \in AmountLists
  BY <1>3 DEF ChainInv, Balanced
<1>5. amount \in Nat /\ amount <= balances[s]
  BY <1>1, <1>2, <1>4, AmountsAffordable DEF Holdings
<1>6. s \in Address /\ r \in Address /\ amount \in Int /\ -amount \in Int
  BY <1>2, <1>3, <1>5
<1>7. ASSUME NEW f \in AmountLists
      PROVE  /\ Moved(taken(f), r, amount) \in AmountLists
             /\ Total(OrZero(Moved(taken(f), r, amount))) = Total(OrZero(f))
  <2>1. taken(f) \in AmountLists /\ Total(OrZero(taken(f))) = Total(OrZero(f)) + (-amount)
    BY <1>6, MovedTotal
  <2> DEFINE g == taken(f)
  <2> HIDE DEF g
  <2>2. g \in AmountLists /\ Total(OrZero(g)) = Total(OrZero(f)) + (-amount)
    BY <2>1 DEF g
  <2>3. /\ Moved(g, r, amount) \in AmountLists
        /\ Total(OrZero(Moved(g, r, amount))) = Total(OrZero(g)) + amount
    BY <1>6, <2>2, MovedTotal
  <2>4. Total(OrZero(f)) \in Int
    BY AmountListType
  <2>5. Total(OrZero(Moved(g, r, amount))) = Total(OrZero(f))
    BY <1>6, <2>2, <2>3, <2>4
  <2>6. QED
    BY <2>3, <2>5 DEF g
<1>8. balances' = Moved(taken(balances), r, amount) /\ deltaMap' = Moved(taken(deltaMap), r, amount)
  BY <1>1 DEF Paid
<1>9. deltaMap' \in Balanced
  BY <1>4, <1>7, <1>8 DEF Balanced, ChainInv
<1>10. Total(OrZero(balances')) = Total(OrZero(balances))
  BY <1>4, <1>7, <1>8
<1>11. balances' \in Holdings
  <2>1. taken(balances) \in [Accounts -> Nat]
    <3>1. DOMAIN balances = Accounts /\ \A b \in Accounts : balances[b] \in Nat
      BY <1>4 DEF Holdings
    <3>2. DOMAIN balances \cup {s} = Accounts
      BY <1>2, <3>1
    <3>3. \A b \in Accounts : balances[b] + (IF b = s THEN -amount ELSE 0) \in Nat
      BY <1>5, <3>1
    <3>4. QED
      BY <3>1, <3>2, <3>3 DEF Moved
  <2> HIDE DEF taken
  <2>2. Moved(taken(balances), r, amount) \in [Accounts -> Nat]
    BY <1>2, <1>5, <2>1 DEF Moved
  <2>3. QED
    BY <1>8, <2>2 DEF Holdings
<1>12. job' = job /\ scenario' = scenario /\ tx' = <<>> /\ Accounts' = Accounts
  BY DEF Pay, Accounts, request
<1>13. Holdings' = Holdings /\ ClosedWindows' = ClosedWindows
  BY <1>12 DEF Holdings, ClosedWindows
<1>14. QED
  BY <1>9, <1>10, <1>11, <1>12, <1>13 DEF ChainInv

\* A block that closes becomes a window with what it moved, and the next one
\* starts with nothing moved.
LEMMA CloseBlockConserves ==
    ASSUME ChainInv, CloseBlock PROVE ChainInv'
<1> DEFINE w == [old |-> LastRoot, new |-> balances, deltas |-> Nonzero(deltaMap)]
<1>1. scenario.windows \in Seq(ClosedWindows) /\ scenario.root \in Holdings /\ balances \in Holdings
  BY DEF ChainInv
<1>2. LastRoot \in Holdings
  <2>1. CASE scenario.windows = <<>>
    BY <1>1, <2>1 DEF LastRoot
  <2>2. CASE scenario.windows # <<>>
    <3>1. scenario.windows[Len(scenario.windows)] \in ClosedWindows
      BY <1>1, <2>2
    <3>2. QED
      BY <2>2, <3>1 DEF LastRoot, ClosedWindows
  <2>3. QED
    BY <2>1, <2>2
<1>3. w \in ClosedWindows
  BY <1>1, <1>2, NonzeroBalanced DEF ChainInv, ClosedWindows
<1>4. scenario' = [scenario EXCEPT !.windows = Append(@, w)]
  BY DEF CloseBlock
<1> HIDE DEF w
<1>5. Append(scenario.windows, w) \in Seq(ClosedWindows)
  BY <1>1, <1>3
<1>6. /\ scenario' \in [root : Holdings, reserves : {scenario'.reserves}, windows : Seq(ClosedWindows)]
      /\ scenario'.root = scenario.root
  BY <1>4, <1>5 DEF ChainInv
<1>7. deltaMap' \in Balanced
  BY NoDeltasBalanced DEF CloseBlock, Reopened
<1>8. job' = job /\ balances' = balances /\ tx' = tx /\ Accounts' = Accounts
  BY DEF CloseBlock, Accounts, request
<1>9. Holdings' = Holdings /\ ClosedWindows' = ClosedWindows
  BY <1>8 DEF Holdings, ClosedWindows
<1>10. QED
  BY <1>6, <1>7, <1>8, <1>9 DEF ChainInv

\* A draw only chooses a sender and a receiver among the accounts.
LEMMA DrawConserves ==
    ASSUME ChainInv, Draw \/ \E receiver \in Accounts : Redraw(receiver) PROVE ChainInv'
<1>1. /\ job' = job /\ balances' = balances /\ deltaMap' = deltaMap /\ scenario' = scenario
      /\ Accounts' = Accounts
  BY DEF Draw, Redraw, Accounts, request
<1>2. Holdings' = Holdings /\ ClosedWindows' = ClosedWindows
  BY <1>1 DEF Holdings, ClosedWindows
<1>3. tx' \in Accounts \X Accounts
  <2>1. CASE Draw
    BY <2>1 DEF Draw, FundedSenders
  <2>2. ASSUME NEW receiver \in Accounts, Redraw(receiver) PROVE tx' \in Accounts \X Accounts
    BY <2>2 DEF ChainInv, Redraw, Redrawn, ToItself
  <2>3. QED
    BY <2>1, <2>2
<1>4. QED
  BY <1>1, <1>2, <1>3 DEF ChainInv

\* Writing the scenario, and dying while at it, moves no money.
LEMMA FilesConserve ==
    ASSUME ChainInv, UNCHANGED <<job, chainVars>> PROVE ChainInv'
<1>1. /\ job' = job /\ balances' = balances /\ deltaMap' = deltaMap /\ tx' = tx
      /\ scenario' = scenario /\ Accounts' = Accounts
  BY DEF chainVars, Accounts, request
<1>2. Holdings' = Holdings /\ ClosedWindows' = ClosedWindows
  BY <1>1 DEF Holdings, ClosedWindows
<1>3. QED
  BY <1>1, <1>2 DEF ChainInv

\* Every step keeps the invariant.
LEMMA ChainInvNext == ChainInv /\ [Next]_vars => ChainInv'
<1> SUFFICES ASSUME ChainInv, [Next]_vars PROVE ChainInv'
  OBVIOUS
<1>1. CASE Draw \/ \E receiver \in Accounts : Redraw(receiver)
  BY <1>1, DrawConserves
<1>2. CASE Pay
  BY <1>2, PayConserves
<1>3. CASE CloseBlock
  BY <1>3, CloseBlockConserves
<1>4. CASE StartWriting \/ Write \/ Exit \/ Crash \/ UNCHANGED vars
  <2>1. UNCHANGED <<job, chainVars>>
    BY <1>4 DEF StartWriting, Write, Exit, Crash, vars
  <2>2. QED
    BY <2>1, FilesConserve
<1>5. QED
  BY <1>1, <1>2, <1>3, <1>4 DEF Next, Step

\* Whatever is drawn and whatever dies, the balances sum up to what the accounts
\* started with, nobody owes, and the deltas of every window sum up to 0.
THEOREM MoneyIsConserved == Spec => []MoneyConserved
<1>1. Spec => []ChainInv
  BY ChainInvInit, ChainInvNext, PTL DEF Spec
<1>2. QED
  BY <1>1, ChainInvImplies, PTL

-----------------------------------------------------------------------------
(* The windows follow one another *)

\* The reserves after the first windows.
Holding(held, reserves, w) == [a \in DOMAIN reserves |-> held[a] + OrZero(w.deltas)[a]]
IsApplied(p, reserves, windows) ==
    /\ p[0] = reserves
    /\ \A i \in 1..Len(windows) : p[i] = Holding(p[i - 1], reserves, windows[i])

\* Applied adds the deltas of one window after the other.
LEMMA AppliedDef ==
    ASSUME NEW reserves, NEW windows, Len(windows) \in Nat
    PROVE  \E p : IsApplied(p, reserves, windows) /\ Applied(reserves, windows) = p[Len(windows)]
<1> DEFINE n == Len(windows)
           Added(v, i) == Holding(v, reserves, windows[i])
           Value(s, i) == IF i = 0 THEN reserves ELSE Added(s[i - 1], i)
           Solves(s, m) == \A i \in 0..m : s[i] = Value(s, i)
           T == {m \in 0..n : \E s : Solves(s, m)}
<1>0. n \in Nat
  OBVIOUS
<1>p. Applied(reserves, windows) = (CHOOSE s : s = [i \in 0..n |-> Value(s, i)])[n]
  BY DEF Applied, Holding
<1>q. ASSUME NEW p, p[0] = reserves, \A i \in 1..n : p[i] = Added(p[i - 1], i) PROVE IsApplied(p, reserves, windows)
  BY <1>q DEF IsApplied
<1> HIDE DEF Step, n
<1>1. 0 \in T
  <2> DEFINE s == [i \in 0..0 |-> reserves]
  <2>1. Solves(s, 0)
    OBVIOUS
  <2> HIDE DEF s, Solves
  <2>2. \E z : Solves(z, 0)
    BY <2>1
  <2>3. QED
    BY <1>0, <2>2
<1>2. ASSUME NEW m \in 0..(n - 1), m \in T PROVE m + 1 \in T
  <2>1. PICK s : Solves(s, m)
    BY <1>2
  <2> DEFINE t == [i \in 0..(m + 1) |-> IF i = m + 1 THEN Added(s[m], m + 1) ELSE s[i]]
  <2>2. Solves(t, m + 1)
    <3> SUFFICES ASSUME NEW i \in 0..(m + 1) PROVE t[i] = Value(t, i)
      OBVIOUS
    <3>1. CASE i = m + 1
      <4>1. i # 0 /\ i - 1 = m /\ m # m + 1 /\ m \in 0..(m + 1)
        BY <1>0, <3>1
      <4>2. t[i] = Added(s[m], m + 1) /\ t[i - 1] = s[m]
        BY <3>1, <4>1
      <4>3. QED
        BY <3>1, <4>1, <4>2
    <3>2. CASE i \in 0..m
      <4>1. s[i] = Value(s, i)
        BY <2>1, <3>2
      <4>2. t[i] = s[i]
        BY <1>0, <3>2
      <4>3. CASE i = 0
        BY <4>1, <4>2, <4>3
      <4>4. CASE i # 0
        <5>1. t[i - 1] = s[i - 1]
          BY <1>0, <3>2, <4>4
        <5>2. QED
          BY <4>1, <4>2, <4>4, <5>1
      <4>5. QED
        BY <4>3, <4>4
    <3>3. QED
      BY <1>0, <3>1, <3>2
  <2> HIDE DEF t, Solves
  <2>3. \E z : Solves(z, m + 1)
    BY <2>2
  <2>4. QED
    BY <1>0, <2>3
<1>3. 0..n \subseteq T
  <2> HIDE DEF T
  <2>1. QED
    BY <1>0, <1>1, <1>2, UpToInduction
<1>4. PICK s : Solves(s, n)
  <2>1. n \in T
    <3> HIDE DEF T
    <3>1. n \in 0..n
      BY <1>0
    <3>2. QED
      BY <1>3, <3>1
  <2> HIDE DEF Solves
  <2>2. QED
    BY <2>1
<1> DEFINE r == [i \in 0..n |-> s[i]]
<1>5. r = [i \in 0..n |-> Value(r, i)]
  <2>1. ASSUME NEW i \in 0..n PROVE r[i] = Value(r, i)
    <3>1. s[i] = Value(s, i)
      BY <1>4
    <3>2. CASE i = 0
      BY <3>1, <3>2
    <3>3. CASE i # 0
      <4>1. r[i - 1] = s[i - 1]
        BY <1>0, <3>3
      <4>2. QED
        BY <3>1, <3>3, <4>1
    <3>4. QED
      BY <3>2, <3>3
  <2>2. r = [i \in 0..n |-> r[i]]
    OBVIOUS
  <2> HIDE DEF r, Value
  <2>3. QED
    BY <2>1, <2>2
<1> HIDE DEF r
<1> DEFINE p == CHOOSE z : z = [i \in 0..n |-> Value(z, i)]
           step == [i \in 0..n |-> Value(p, i)]
<1>6. p = step
  BY <1>5
<1>7. Applied(reserves, windows) = p[n]
  BY <1>p
<1> HIDE DEF p
<1>a. \A i \in 0..n : step[i] = Value(p, i)
  OBVIOUS
<1> HIDE DEF step, Value
<1>8. step[0] = reserves
  <2>1. 0 \in 0..n
    BY <1>0
  <2>2. step[0] = Value(p, 0)
    BY <1>a, <2>1
  <2>3. QED
    BY <2>2 DEF Value
<1>9. ASSUME NEW i \in 1..n PROVE step[i] = Added(p[i - 1], i)
  <2>1. i \in 0..n /\ i # 0
    BY <1>0
  <2>2. step[i] = Value(p, i)
    BY <1>a, <2>1
  <2>3. QED
    BY <2>1, <2>2 DEF Value
<1>10. p[0] = reserves /\ \A i \in 1..n : p[i] = Added(p[i - 1], i)
  BY <1>6, <1>8, <1>9
<1>11. IsApplied(p, reserves, windows)
  BY <1>10, <1>q
<1>12. QED
  BY <1>7, <1>11 DEF n

-----------------------------------------------------------------------------
(* Windows and roots *)

\* A closed window starts from the root before it and moves it by its deltas, the
\* open block has moved the last root to the balances, and the reserves are what
\* some accounts held at first.
RootBefore(i) == IF i = 1 THEN scenario.root ELSE scenario.windows[i - 1].new
NonzeroLists == {d \in Balanced : \A a \in DOMAIN d : d[a] # 0}
Follows(w, before) ==
    /\ w.old = before /\ w.deltas \in NonzeroLists
    /\ \A a \in Accounts : w.new[a] = before[a] + OrZero(w.deltas)[a]
Linked ==
    /\ \A i \in 1..Len(scenario.windows) : Follows(scenario.windows[i], RootBefore(i))
    /\ \A a \in Accounts : balances[a] = LastRoot[a] + OrZero(deltaMap)[a]
    /\ scenario.reserves = [a \in DOMAIN scenario.reserves |-> scenario.root[a]]
    /\ DOMAIN scenario.reserves \subseteq Accounts

\* What moves on one account moves it alone.
LEMMA MovedAt ==
    ASSUME NEW f \in AmountLists, NEW a \in Address, NEW v \in Int, NEW b \in Address
    PROVE  OrZero(Moved(f, a, v))[b] = OrZero(f)[b] + (IF b = a THEN v ELSE 0)
<1>1. DOMAIN f \subseteq Address /\ f \in [DOMAIN f -> Int]
  BY AmountListType
<1>2. QED
  BY <1>1 DEF OrZero, Moved

\* The accounts' lists give what the accounts hold.
LEMMA LastRootType ==
    ASSUME ChainInv PROVE LastRoot \in Holdings
<1>1. scenario.windows \in Seq(ClosedWindows) /\ scenario.root \in Holdings
  BY DEF ChainInv
<1>2. CASE scenario.windows = <<>>
  BY <1>1, <1>2 DEF LastRoot
<1>3. CASE scenario.windows # <<>>
  <2>1. scenario.windows[Len(scenario.windows)] \in ClosedWindows
    BY <1>1, <1>3
  <2>2. QED
    BY <1>3, <2>1 DEF LastRoot, ClosedWindows
<1>4. QED
  BY <1>2, <1>3

\* A drawn scenario has no window yet, and its reserves are accounts of the root.
LEMMA LinkedInit == Init => Linked
<1> SUFFICES ASSUME Init PROVE Linked
  OBVIOUS
<1>1. ChainInv /\ job \in Jobs
  BY ChainInvInit DEF Init
<1>2. PICK R \in kSubset(request.reserves, Accounts) :
         scenario = [root |-> balances, reserves |-> [a \in R |-> balances[a]], windows |-> <<>>]
  BY DEF Init
<1>3. R \subseteq Accounts
  BY DEF kSubset
<1>4. \A a \in Accounts : balances[a] \in Nat /\ a \in Address
  BY <1>1, HoldingsAreAmounts DEF ChainInv, Holdings
<1>5. \A a \in Accounts : balances[a] = LastRoot[a] + OrZero(deltaMap)[a]
  BY <1>2, <1>4 DEF Init, LastRoot, OrZero, NoDeltas
<1>6. QED
  BY <1>2, <1>3, <1>5 DEF Linked

\* A transfer moves the balances and the open block alike.
LEMMA PayLinks == ASSUME ChainInv, Linked, Pay PROVE Linked'
<1>1. PICK amount \in Amounts(tx[1]) : Paid(tx[1], tx[2], amount)
  BY DEF Pay
<1> DEFINE s == tx[1]
           r == tx[2]
           Twice(f) == Moved(Moved(f, s, -amount), r, amount)
<1>2. s \in Accounts /\ r \in Accounts /\ s # r
  BY DEF ChainInv, Pay, ToItself
<1>3. Accounts \subseteq Address /\ Holdings \subseteq AmountLists
  BY HoldingsAreAmounts DEF ChainInv
<1>4. balances \in Holdings /\ balances \in AmountLists /\ deltaMap \in AmountLists
  BY <1>3 DEF ChainInv, Balanced
<1>5. amount \in Nat
  BY <1>1, <1>2, <1>4, AmountsAffordable DEF Holdings
<1>6. s \in Address /\ r \in Address /\ amount \in Int /\ -amount \in Int
  BY <1>2, <1>3, <1>5
<1> HIDE DEF s, r
<1> DEFINE change(b) == (IF b = s THEN -amount ELSE 0) + (IF b = r THEN amount ELSE 0)
<1>7. ASSUME NEW f \in AmountLists, NEW b \in Address
      PROVE  OrZero(Twice(f))[b] = OrZero(f)[b] + change(b)
  <2> DEFINE g == Moved(f, s, -amount)
  <2>a. g \in AmountLists
    BY <1>6, MovedTotal
  <2>b. OrZero(Moved(f, s, -amount))[b] = OrZero(f)[b] + (IF b = s THEN -amount ELSE 0)
    BY <1>6, MovedAt
  <2>1. g \in AmountLists /\ OrZero(g)[b] = OrZero(f)[b] + (IF b = s THEN -amount ELSE 0)
    BY <2>a, <2>b
  <2>2. OrZero(f)[b] \in Int
    BY AmountListType
  <2> HIDE DEF g
  <2>3. OrZero(Moved(g, r, amount))[b] = OrZero(g)[b] + (IF b = r THEN amount ELSE 0)
    BY <1>6, <2>1, MovedAt
  <2>4. QED
    BY <1>6, <2>1, <2>2, <2>3 DEF g
<1>8. balances' = Twice(balances) /\ deltaMap' = Twice(deltaMap)
  BY <1>1 DEF Paid, s, r
<1>9. /\ job' = job /\ scenario' = scenario /\ Accounts' = Accounts /\ LastRoot' = LastRoot
  BY DEF Pay, Accounts, request, LastRoot
<1>10. ASSUME NEW a \in Accounts PROVE balances'[a] = LastRoot[a] + OrZero(deltaMap')[a]
  <2>1. a \in Address /\ balances[a] = LastRoot[a] + OrZero(deltaMap)[a] /\ LastRoot[a] \in Int
    BY <1>3, LastRootType DEF Linked, Holdings
  <2>2. OrZero(deltaMap)[a] \in Int
    BY <1>4, <2>1, AmountListType
  <2>3. change(a) \in Int
    BY <1>6
  <2>4. OrZero(balances)[a] = balances[a]
    BY <1>4, <2>1 DEF OrZero, Holdings
  <2>5. OrZero(balances')[a] = balances'[a]
    <3>1. DOMAIN Twice(balances) = Accounts
      BY <1>2, <1>4 DEF Moved, Holdings, s, r
    <3>2. QED
      BY <1>8, <2>1, <3>1 DEF OrZero
  <2> HIDE DEF Twice, change
  <2>6. OrZero(balances')[a] = OrZero(balances)[a] + change(a)
    BY <1>4, <1>7, <1>8, <2>1
  <2>7. OrZero(deltaMap')[a] = OrZero(deltaMap)[a] + change(a)
    BY <1>4, <1>7, <1>8, <2>1
  <2>8. QED
    BY <2>1, <2>2, <2>3, <2>4, <2>5, <2>6, <2>7
<1>11. \A i : RootBefore(i)' = RootBefore(i)
  BY <1>9 DEF RootBefore
<1>12. QED
  BY <1>9, <1>10, <1>11 DEF Linked, Follows

\* A window that closes starts from the last root, and ends with the balances.
LEMMA CloseBlockLinks == ASSUME ChainInv, Linked, CloseBlock PROVE Linked'
<1> DEFINE ws == scenario.windows
           w == [old |-> LastRoot, new |-> balances, deltas |-> Nonzero(deltaMap)]
           n == Len(ws)
<1>1. ws \in Seq(ClosedWindows) /\ n \in Nat
  BY DEF ChainInv
<1>2. deltaMap \in Balanced /\ deltaMap \in AmountLists
  BY DEF ChainInv, Balanced
<1>3. DOMAIN deltaMap \subseteq Address /\ deltaMap \in [DOMAIN deltaMap -> Int]
  BY <1>2, AmountListType
<1>4. Nonzero(deltaMap) \in NonzeroLists
  BY <1>2, NonzeroBalanced DEF NonzeroLists, Nonzero
<1>5. OrZero(Nonzero(deltaMap)) = OrZero(deltaMap)
  BY <1>3 DEF OrZero, Nonzero
<1>6. /\ scenario' = [scenario EXCEPT !.windows = Append(ws, w)]
      /\ deltaMap' = NoDeltas /\ balances' = balances /\ job' = job /\ Accounts' = Accounts
  BY DEF CloseBlock, Reopened, Accounts, request
<1>7. LastRoot = RootBefore(n + 1)
  <2>1. CASE ws = <<>>
    BY <2>1 DEF LastRoot, RootBefore
  <2>2. CASE ws # <<>>
    <3>1. n # 0
      BY <1>1, <2>2
    <3>2. n + 1 # 1 /\ (n + 1) - 1 = n
      BY <1>1, <3>1
    <3>3. QED
      BY <2>2, <3>2 DEF LastRoot, RootBefore
  <2>3. QED
    BY <2>1, <2>2
<1>8. Follows(w, LastRoot)
  BY <1>4, <1>5 DEF Follows, Linked
<1> HIDE DEF w
<1>9. /\ scenario'.windows = Append(ws, w) /\ scenario'.root = scenario.root
      /\ scenario'.reserves = scenario.reserves
  BY <1>6 DEF ChainInv
<1> HIDE DEF ws
<1>10. /\ Len(scenario'.windows) = n + 1 /\ scenario'.windows[n + 1] = w
       /\ \A i \in 1..n : scenario'.windows[i] = ws[i]
  BY <1>1, <1>9
<1>11. ASSUME NEW i \in 1..(n + 1) PROVE RootBefore(i)' = RootBefore(i)
  <2>1. CASE i = 1
    BY <1>9, <2>1 DEF RootBefore
  <2>2. CASE i # 1
    <3>1. i - 1 \in 1..n
      BY <1>1, <2>2
    <3>2. scenario'.windows[i - 1] = ws[i - 1]
      BY <1>10, <3>1
    <3>3. QED
      BY <2>2, <3>2 DEF RootBefore, ws
  <2>3. QED
    BY <2>1, <2>2
<1>12. ASSUME NEW i \in 1..(n + 1) PROVE Follows(scenario'.windows[i], RootBefore(i))
  <2>1. CASE i = n + 1
    BY <1>7, <1>8, <1>10, <2>1
  <2>2. CASE i \in 1..n
    BY <1>10, <2>2 DEF Linked, ws
  <2>3. QED
    BY <1>1, <2>1, <2>2
<1>13. LastRoot' = balances
  <2>1. scenario'.windows # <<>>
    BY <1>1, <1>10
  <2>2. LastRoot' = scenario'.windows[n + 1].new
    BY <1>10, <2>1 DEF LastRoot
  <2>3. QED
    BY <1>10, <2>2 DEF w
<1>14. ASSUME NEW a \in Accounts PROVE balances'[a] = LastRoot'[a] + OrZero(deltaMap')[a]
  <2>1. a \in Address /\ balances[a] \in Nat
    BY HoldingsAreAmounts DEF ChainInv, Holdings
  <2>2. OrZero(deltaMap')[a] = 0
    BY <1>6, <2>1 DEF OrZero, NoDeltas
  <2>3. QED
    BY <1>6, <1>13, <2>1, <2>2
<1>15. (\A i \in 1..Len(scenario.windows) : Follows(scenario.windows[i], RootBefore(i)))'
  BY <1>6, <1>10, <1>11, <1>12 DEF Follows
<1>16. QED
  BY <1>6, <1>9, <1>14, <1>15 DEF Linked

\* Nothing else touches the balances or the scenario.
LEMMA OthersLink ==
    ASSUME Linked, UNCHANGED <<job, balances, deltaMap, scenario>> PROVE Linked'
<1>1. Accounts' = Accounts /\ LastRoot' = LastRoot
  BY DEF Accounts, request, LastRoot
<1>2. \A i : RootBefore(i)' = RootBefore(i)
  BY DEF RootBefore
<1>3. QED
  BY <1>1, <1>2 DEF Linked, Follows

\* Every closed window joins the roots around it, and no transfer is lost between two.
LEMMA LinkedCorrect == Spec => [](ChainInv /\ Linked)
<1>1. ChainInv /\ Linked /\ [Next]_vars => Linked'
  <2> SUFFICES ASSUME ChainInv, Linked, [Next]_vars PROVE Linked'
    OBVIOUS
  <2>1. CASE Pay
    BY <2>1, PayLinks
  <2>2. CASE CloseBlock
    BY <2>2, CloseBlockLinks
  <2>3. CASE \/ Draw \/ (\E receiver \in Accounts : Redraw(receiver))
             \/ StartWriting \/ Write \/ Exit \/ Crash \/ UNCHANGED vars
    <3>1. UNCHANGED <<job, balances, deltaMap, scenario>>
      BY <2>3 DEF Draw, Redraw, StartWriting, Write, Exit, Crash, vars, chainVars
    <3>2. QED
      BY <3>1, OthersLink
  <2>4. QED
    BY <2>1, <2>2, <2>3 DEF Next, Step
<1>2. QED
  BY <1>1, ChainInvInit, ChainInvNext, LinkedInit, PTL DEF Spec

\* The reserves with the first windows applied hold what the root after them says.
LEMMA AppliedIsRoot ==
    ASSUME ChainInv, Linked
    PROVE  Synced = [a \in DOMAIN scenario.reserves |-> LastRoot[a]]
<1> DEFINE ws == scenario.windows
           n == Len(ws)
           R == DOMAIN scenario.reserves
           Root(i) == IF i = 0 THEN scenario.root ELSE ws[i].new
<1>1. ws \in Seq(ClosedWindows) /\ n \in Nat
  BY DEF ChainInv
<1>2. PICK p : IsApplied(p, scenario.reserves, ws) /\ Applied(scenario.reserves, ws) = p[n]
  BY <1>1, AppliedDef
<1> DEFINE T == {i \in 0..n : p[i] = [a \in R |-> Root(i)[a]]}
<1>3. 0 \in T
  BY <1>1, <1>2 DEF IsApplied, Linked
<1>4. ASSUME NEW i \in 0..(n - 1), i \in T PROVE i + 1 \in T
  <2>1. i + 1 \in 1..n /\ (i + 1) - 1 = i /\ i + 1 \in 0..n /\ i + 1 # 0
    BY <1>1
  <2>2. p[i + 1] = Holding(p[i], scenario.reserves, ws[i + 1])
    BY <1>2, <2>1 DEF IsApplied
  <2>3. Follows(ws[i + 1], RootBefore(i + 1))
    BY <2>1 DEF Linked
  <2>4. RootBefore(i + 1) = Root(i)
    BY <1>1, <2>1 DEF RootBefore
  <2>5. p[i] = [a \in R |-> Root(i)[a]]
    BY <1>4
  <2>6. Root(i + 1) = ws[i + 1].new
    BY <2>1
  <2> HIDE DEF Root
  <2>7. ASSUME NEW a \in R PROVE p[i][a] + OrZero(ws[i + 1].deltas)[a] = Root(i + 1)[a]
    <3>1. a \in Accounts
      BY DEF Linked
    <3>2. ws[i + 1].new[a] = Root(i)[a] + OrZero(ws[i + 1].deltas)[a]
      BY <2>3, <2>4, <3>1 DEF Follows
    <3>3. p[i][a] = Root(i)[a]
      BY <2>5
    <3>4. QED
      BY <2>6, <3>2, <3>3
  <2>8. p[i + 1] = [a \in R |-> p[i][a] + OrZero(ws[i + 1].deltas)[a]]
    BY <2>2 DEF Holding
  <2>9. p[i + 1] = [a \in R |-> Root(i + 1)[a]]
    BY <2>7, <2>8
  <2>10. QED
    BY <2>1, <2>9
<1>5. n \in T
  <2> HIDE DEF T
  <2>1. 0..n \subseteq T
    BY <1>1, <1>3, <1>4, UpToInduction
  <2>2. QED
    BY <1>1, <2>1
<1>6. p[n] = [a \in R |-> Root(n)[a]]
  BY <1>5
<1>7. Root(n) = LastRoot
  BY <1>1 DEF LastRoot
<1> HIDE DEF Root
<1>8. QED
  BY <1>2, <1>6, <1>7 DEF Synced

-----------------------------------------------------------------------------
(* The abstract ledger *)

\* Every reserve list that can be drawn, and every window that a block can leave,
\* is among those the ledger is stated for.
ReservesListed ==
    \A R \in SUBSET Address : R # {} => [R -> InitialBalances] \subseteq Reserves
WindowsListed == NonzeroLists \subseteq Windows

\* The ledger's sums are the chain's.
LEMMA LedgerTotals ==
    ASSUME NEW f PROVE Ledger!Total(Ledger!OrZero(f)) = Total(OrZero(f))
<1>1. Ledger!OrZero(f) = OrZero(f)
  BY DEF Ledger!OrZero, OrZero, Ledger!Address, Address
<1> DEFINE g == OrZero(f)
<1> HIDE DEF g
<1>2. Ledger!PartialSums(g) = PartialSums(g)
  BY DEF Ledger!PartialSums, PartialSums
<1>3. QED
  BY <1>1, <1>2 DEF Ledger!Total, Total, g

\* The reserves that are drawn are in the lists.
LEMMA DrawnReservesListed ==
    ASSUME ReservesListed, Init PROVE scenario.reserves \in Reserves
<1>1. job \in Jobs /\ request.reserves \in 1..request.accounts
  BY DEF Init, request
<1>2. PICK R \in kSubset(request.reserves, Accounts) :
         scenario = [root |-> balances, reserves |-> [a \in R |-> balances[a]], windows |-> <<>>]
  BY DEF Init
<1>3. R \subseteq Accounts /\ Cardinality(R) = request.reserves
  BY DEF kSubset
<1>4. Accounts \subseteq Address
  BY <1>1, HoldingsAreAmounts
<1>5. R # {}
  BY <1>1, <1>3, FS_EmptySet
<1>6. balances \in [Accounts -> InitialBalances]
  BY DEF Init
<1>7. \A a \in R : balances[a] \in InitialBalances
  BY <1>3, <1>6
<1>8. [a \in R |-> balances[a]] \in [R -> InitialBalances]
  BY <1>7
<1>9. R \in SUBSET Address /\ R # {}
  BY <1>3, <1>4, <1>5
<1>10. [R -> InitialBalances] \subseteq Reserves
  BY <1>9 DEF ReservesListed
<1>11. scenario.reserves = [a \in R |-> balances[a]]
  BY <1>2
<1>12. QED
  BY <1>8, <1>10, <1>11

\* What the reserves hold at the last root.
ReservesAtRoot == [a \in DOMAIN scenario.reserves |-> LastRoot[a]]

\* A block that closes adjusts the reserves by its window, and none below zero.
LEMMA CloseBlockRefines ==
    ASSUME WindowsListed, ChainInv, Linked, CloseBlock,
           Synced = ReservesAtRoot, Synced' = ReservesAtRoot'
    PROVE  \E d \in Windows : Ledger!Adjust(d)
<1> DEFINE R == DOMAIN scenario.reserves
           d == Nonzero(deltaMap)
<1>1. deltaMap \in Balanced /\ deltaMap \in AmountLists
  BY DEF ChainInv, Balanced
<1>2. DOMAIN deltaMap \subseteq Address /\ deltaMap \in [DOMAIN deltaMap -> Int]
  BY <1>1, AmountListType
<1>3. d \in Windows
  BY <1>1, NonzeroBalanced DEF WindowsListed, NonzeroLists, Nonzero
<1>4. scenario.windows \in Seq(ClosedWindows)
  BY DEF ChainInv
<1>5. LastRoot' = balances /\ scenario'.reserves = scenario.reserves
  <2> DEFINE w == [old |-> LastRoot, new |-> balances, deltas |-> d]
  <2>1. scenario'.windows = Append(scenario.windows, w) /\ scenario'.reserves = scenario.reserves
    BY DEF CloseBlock, ChainInv
  <2>2. w.new = balances
    OBVIOUS
  <2> HIDE DEF w
  <2>3. scenario'.windows # <<>> /\ scenario'.windows[Len(scenario'.windows)] = w
    BY <1>4, <2>1
  <2>4. QED
    BY <2>1, <2>2, <2>3 DEF LastRoot
<1>6. ASSUME NEW a \in R
      PROVE  balances[a] >= 0
             /\ balances[a] = IF a \in DOMAIN d THEN LastRoot[a] + d[a] ELSE LastRoot[a]
  <2>1. a \in Accounts /\ a \in Address
    BY HoldingsAreAmounts DEF Linked, ChainInv
  <2>2. balances[a] = LastRoot[a] + OrZero(deltaMap)[a] /\ balances[a] \in Nat
    BY <2>1 DEF Linked, ChainInv, Holdings
  <2>3. LastRoot[a] \in Nat
    BY <2>1, LastRootType DEF Holdings
  <2>4. OrZero(deltaMap)[a] = IF a \in DOMAIN d THEN d[a] ELSE 0
    BY <1>2, <2>1 DEF OrZero, Nonzero
  <2> HIDE DEF d
  <2>5. QED
    BY <2>2, <2>3, <2>4
<1> HIDE DEF d
<1>7. Synced' = [a \in R |-> balances[a]] /\ Synced = [a \in R |-> LastRoot[a]]
  BY <1>5 DEF ReservesAtRoot
<1>8. \A c \in DOMAIN d \cap DOMAIN Synced : Synced[c] + d[c] >= 0
  BY <1>6, <1>7
<1>9. Synced' = [c \in DOMAIN Synced |-> IF c \in DOMAIN d THEN Synced[c] + d[c] ELSE Synced[c]]
  BY <1>6, <1>7
<1>10. Total(OrZero([a \in DOMAIN scenario.reserves |-> LastRoot[a]]))' = Total(OrZero(Synced'))
  BY DEF ReservesAtRoot
<1>11. Ledger!Adjust(d)
  BY <1>8, <1>9, <1>10, LedgerTotals DEF Ledger!Adjust
<1>12. QED
  BY <1>3, <1>11

\* Every window of the chain is a step of the ledger of its reserves, and the total
\* that they hold is the ledger's: no transfer is lost between two blocks or counted
\* in both.
THEOREM ChainImplementsLedger ==
    ASSUME ReservesListed, WindowsListed PROVE Spec => LedgerSpec
<1>1. ChainInv /\ Linked => Synced = ReservesAtRoot
  BY AppliedIsRoot DEF ReservesAtRoot
<1>2. Init => Ledger!Init
  <2> SUFFICES ASSUME Init PROVE Ledger!Init
    OBVIOUS
  <2>1. Synced = ReservesAtRoot
    BY <1>1, ChainInvInit, LinkedInit
  <2>2. ReservesAtRoot = scenario.reserves
    BY LinkedInit DEF ReservesAtRoot, LastRoot, Init, Linked
  <2>3. Synced \in Reserves
    BY <2>1, <2>2, DrawnReservesListed
  <2>4. Total(OrZero([a \in DOMAIN scenario.reserves |-> LastRoot[a]])) = Total(OrZero(Synced))
    BY <2>1 DEF ReservesAtRoot
  <2>5. QED
    BY <2>3, <2>4, LedgerTotals DEF Ledger!Init
<1>3. ChainInv /\ Linked /\ Synced = ReservesAtRoot /\ (Synced = ReservesAtRoot)' /\ [Next]_vars
        => [Ledger!Next]_(Ledger!vars)
  <2> SUFFICES ASSUME ChainInv, Linked, Synced = ReservesAtRoot, (Synced = ReservesAtRoot)', [Next]_vars
               PROVE  Ledger!Next \/ UNCHANGED Ledger!vars
    OBVIOUS
  <2>1. CASE CloseBlock
    <3>1. \E d \in Windows : Ledger!Adjust(d)
      BY <2>1, CloseBlockRefines
    <3>2. QED
      BY <3>1 DEF Ledger!Next
  <2>2. CASE UNCHANGED scenario
    <3>1. Synced' = Synced /\ LastRoot' = LastRoot
      BY <2>2 DEF Synced, LastRoot
    <3>2. QED
      BY <2>2, <3>1 DEF Ledger!vars
  <2>3. CASE ~CloseBlock
    <3>1. UNCHANGED scenario
      BY <2>3 DEF Next, Step, Draw, Redraw, Pay, StartWriting, Write, Exit, Crash, vars, chainVars
    <3>2. QED
      BY <2>2, <3>1
  <2>4. QED
    BY <2>1, <2>3
<1>4. QED
  BY <1>1, <1>2, <1>3, LinkedCorrect, PTL DEF Spec, LedgerSpec, Ledger!Spec

-----------------------------------------------------------------------------
(* Files *)

\* What a scenario is written as: the reserves, each window with its labels, and the
\* manifest.
IsScenario(W, q, s) ==
    /\ \E S : W \in Seq(S)
    /\ Len(W) = 2 * Len(s.windows) + 2
    /\ W[1] = <<Reserve, ListFile(s.reserves)>>
    /\ \A i \in 1..Len(s.windows) :
          /\ W[2 * i] = <<Csv(i), ListFile(s.windows[i].deltas)>>
          /\ W[2 * i + 1] = <<Meta(i), MetaFile(s.windows[i].old, s.windows[i].new)>>
    /\ W[2 * Len(s.windows) + 2] = <<Manifest, ManifestFile(q, s.root)>>

\* ScenarioWrites is that.
LEMMA ScenarioWritesDef ==
    ASSUME NEW q, NEW s, Len(s.windows) \in Nat
    PROVE  IsScenario(ScenarioWrites(q, s), q, s)
<1> DEFINE b == Len(s.windows)
           CsvWrite(i) == <<Csv(i), ListFile(s.windows[i].deltas)>>
           MetaWrite(i) == <<Meta(i), MetaFile(s.windows[i].old, s.windows[i].new)>>
           ends == {<<Reserve, ListFile(s.reserves)>>, <<Manifest, ManifestFile(q, s.root)>>}
           S == ends \cup {CsvWrite(i) : i \in 1..b} \cup {MetaWrite(i) : i \in 1..b}
           first == << <<Reserve, ListFile(s.reserves)>> >>
           last == << <<Manifest, ManifestFile(q, s.root)>> >>
           mid == WindowWrites(s)
<1>0. b \in Nat
  OBVIOUS
<1>1. ASSUME NEW k \in 1..2 * b
      PROVE  /\ (k + 1) \div 2 \in 1..b
             /\ mid[k] = IF k % 2 = 1 THEN CsvWrite((k + 1) \div 2) ELSE MetaWrite((k + 1) \div 2)
  <2>1. mid[k] = IF k % 2 = 1 THEN CsvWrite((k + 1) \div 2) ELSE MetaWrite((k + 1) \div 2)
    BY Zenon DEF WindowWrites
  <2> HIDE DEF b, mid, CsvWrite, MetaWrite
  <2>2. (k + 1) \div 2 \in 1..b
    BY <1>0
  <2>3. QED
    BY <2>1, <2>2
<1>2. mid = [k \in 1..2 * b |-> mid[k]]
  BY DEF WindowWrites
<1>3. first \in Seq(S) /\ last \in Seq(S) /\ Len(first) = 1 /\ Len(last) = 1
  OBVIOUS
<1>4. first[1] = <<Reserve, ListFile(s.reserves)>> /\ last[1] = <<Manifest, ManifestFile(q, s.root)>>
  OBVIOUS
<1>5. ASSUME NEW i \in 1..b PROVE CsvWrite(i) \in S /\ MetaWrite(i) \in S
  OBVIOUS
<1>6. ScenarioWrites(q, s) = first \o mid \o last
  BY DEF ScenarioWrites
<1> HIDE DEF mid, first, last, S, b, CsvWrite, MetaWrite
<1>7. \A k \in 1..2 * b : mid[k] \in S
  BY <1>1, <1>5
<1>8. mid \in [1..2 * b -> S]
  BY <1>2, <1>7
<1>9. mid \in Seq(S) /\ Len(mid) = 2 * b
  <2>1. 2 * b \in Nat
    BY <1>0
  <2>2. mid \in Seq(S)
    BY <1>8, <2>1, SeqDef
  <2>3. DOMAIN mid = 1..Len(mid) /\ Len(mid) \in Nat /\ DOMAIN mid = 1..2 * b
    BY <1>8, <2>2, LenProperties
  <2>4. QED
    BY <2>1, <2>2, <2>3
<1> DEFINE head == first \o mid
           W == head \o last
<1>10. /\ head \in Seq(S) /\ Len(head) = 1 + 2 * b
       /\ \A k \in 1..1 + 2 * b : head[k] = IF k <= 1 THEN first[k] ELSE mid[k - 1]
  <2>1. /\ head \in Seq(S) /\ Len(head) = Len(first) + Len(mid)
        /\ \A k \in 1..Len(first) + Len(mid) :
              head[k] = IF k <= Len(first) THEN first[k] ELSE mid[k - Len(first)]
    BY <1>3, <1>9, ConcatProperties
  <2> HIDE DEF head
  <2>2. QED
    BY <1>3, <1>9, <2>1
<1> HIDE DEF head
<1>11. /\ W \in Seq(S) /\ Len(W) = 2 * b + 2
       /\ \A k \in 1..2 * b + 2 : W[k] = IF k <= 1 + 2 * b THEN head[k] ELSE last[k - (1 + 2 * b)]
  <2>1. /\ W \in Seq(S) /\ Len(W) = Len(head) + Len(last)
        /\ \A k \in 1..Len(head) + Len(last) :
              W[k] = IF k <= Len(head) THEN head[k] ELSE last[k - Len(head)]
    BY <1>3, <1>10, ConcatProperties
  <2> HIDE DEF W
  <2>2. Len(head) + Len(last) = 2 * b + 2
    BY <1>0, <1>3, <1>10
  <2>3. QED
    BY <1>10, <2>1, <2>2
<1> HIDE DEF W
<1>12. W[1] = first[1] /\ W[2 * b + 2] = last[1]
  BY <1>0, <1>10, <1>11
<1>13. ASSUME NEW i \in 1..b PROVE W[2 * i] = CsvWrite(i) /\ W[2 * i + 1] = MetaWrite(i)
  <2>1. 2 * i - 1 \in 1..2 * b /\ 2 * i \in 1..2 * b /\ 2 * i \in Int
    BY <1>0
  <2>2. W[2 * i] = mid[2 * i - 1]
    BY <1>0, <1>10, <1>11, <2>1
  <2>3. W[2 * i + 1] = mid[2 * i]
    <3>1. 2 * i + 1 \in 1..2 * b + 2 /\ 2 * i + 1 <= 1 + 2 * b /\ 2 * i + 1 \in 1..1 + 2 * b
      BY <1>0
    <3>2. W[2 * i + 1] = head[2 * i + 1]
      BY <1>11, <3>1
    <3>3. ~(2 * i + 1 <= 1) /\ (2 * i + 1) - 1 = 2 * i
      BY <1>0
    <3>4. QED
      BY <1>10, <3>1, <3>2, <3>3
  <2>4. (2 * i - 1) % 2 = 1 /\ ((2 * i - 1) + 1) \div 2 = i
    BY <1>0
  <2>5. (2 * i) % 2 # 1 /\ (2 * i + 1) \div 2 = i
    BY <1>0
  <2>6. mid[2 * i - 1] = CsvWrite(i)
    BY <1>1, <2>1, <2>4
  <2>7. mid[2 * i] = MetaWrite(i)
    BY <1>1, <2>1, <2>5
  <2>8. QED
    BY <2>2, <2>3, <2>6, <2>7
<1>14. QED
  BY <1>4, <1>6, <1>11, <1>12, <1>13 DEF IsScenario, b, CsvWrite, MetaWrite, W, head

\* The paths of the windows.
LEMMA ScenarioPaths ==
    ASSUME NEW W, NEW q, NEW s, IsScenario(W, q, s)
    PROVE  \A i \in 1..Len(s.windows) : W[2 * i][1] = Csv(i) /\ W[2 * i + 1][1] = Meta(i)
<1> SUFFICES ASSUME NEW i \in 1..Len(s.windows) PROVE W[2 * i][1] = Csv(i) /\ W[2 * i + 1][1] = Meta(i)
  OBVIOUS
<1>1. /\ W[2 * i] = <<Csv(i), ListFile(s.windows[i].deltas)>>
      /\ W[2 * i + 1] = <<Meta(i), MetaFile(s.windows[i].old, s.windows[i].new)>>
  BY DEF IsScenario
<1>2. QED
  BY <1>1

\* A place in the writes is that of the reserves, of a window or its labels, or of the
\* manifest.
LEMMA WriteCases ==
    ASSUME NEW b \in Nat, NEW k \in 1..2 * b + 2
    PROVE  k = 1 \/ k = 2 * b + 2 \/ \E i \in 1..b : k = 2 * i \/ k = 2 * i + 1
<1> SUFFICES ASSUME k # 1, k # 2 * b + 2 PROVE \E i \in 1..b : k = 2 * i \/ k = 2 * i + 1
  OBVIOUS
<1>1. k \div 2 \in 1..b /\ (k = 2 * (k \div 2) \/ k = 2 * (k \div 2) + 1)
  OBVIOUS
<1>2. QED
  BY <1>1

\* No path is written twice.
LEMMA PathsDiffer ==
    ASSUME NEW W, NEW q, NEW s, Len(s.windows) \in Nat, IsScenario(W, q, s),
           NEW j \in 1..Len(W), NEW k \in 1..Len(W), W[j][1] = W[k][1]
    PROVE  j = k
<1> DEFINE b == Len(s.windows)
<1>0. b \in Nat /\ Len(W) = 2 * b + 2 /\ j \in 1..2 * b + 2 /\ k \in 1..2 * b + 2
  BY DEF IsScenario
<1>1. W[1][1] = <<"reserves", 0>> /\ W[2 * b + 2][1] = <<"manifest", 0>>
  BY DEF IsScenario, Reserve, Manifest
<1>2. \A i \in 1..b : W[2 * i][1] = <<"csv", i>> /\ W[2 * i + 1][1] = <<"meta", i>>
  <2>1. \A i \in 1..b : W[2 * i][1] = Csv(i) /\ W[2 * i + 1][1] = Meta(i)
    BY ScenarioPaths
  <2>2. QED
    BY <2>1 DEF Csv, Meta
<1> HIDE DEF b
<1>3. \/ j = 1 \/ j = 2 * b + 2 \/ \E i \in 1..b : j = 2 * i \/ j = 2 * i + 1
  BY <1>0, WriteCases
<1>4. \/ k = 1 \/ k = 2 * b + 2 \/ \E i \in 1..b : k = 2 * i \/ k = 2 * i + 1
  BY <1>0, WriteCases
<1>5. \A x, y : /\ <<"csv", x>> # <<"meta", y>> /\ <<"csv", x>> # <<"reserves", 0>>
                /\ <<"csv", x>> # <<"manifest", 0>> /\ <<"meta", x>> # <<"reserves", 0>>
                /\ <<"meta", x>> # <<"manifest", 0>>
  OBVIOUS
<1>6. <<"reserves", 0>> # <<"manifest", 0>>
  OBVIOUS
<1>7. CASE j = 1 \/ j = 2 * b + 2
  <2>1. W[j][1] = <<"reserves", 0>> \/ W[j][1] = <<"manifest", 0>>
    BY <1>1, <1>7
  <2>2. ASSUME NEW i \in 1..b, k = 2 * i \/ k = 2 * i + 1 PROVE FALSE
    <3>1. W[k][1] = <<"csv", i>> \/ W[k][1] = <<"meta", i>>
      BY <1>2, <2>2
    <3>2. QED
      BY <1>5, <2>1, <3>1
  <2>3. k = 1 \/ k = 2 * b + 2
    BY <1>4, <2>2
  <2>4. QED
    BY <1>1, <1>6, <1>7, <2>3
<1>8. CASE \E i \in 1..b : j = 2 * i \/ j = 2 * i + 1
  <2>1. PICK i \in 1..b : j = 2 * i \/ j = 2 * i + 1
    BY <1>8
  <2>2. k # 1 /\ k # 2 * b + 2
    BY <1>1, <1>2, <1>5, <2>1
  <2>3. PICK l \in 1..b : k = 2 * l \/ k = 2 * l + 1
    BY <1>4, <2>2
  <2>4. ASSUME j = 2 * i PROVE k = 2 * l /\ i = l
    <3>1. W[j][1] = <<"csv", i>>
      BY <1>2, <2>4
    <3>2. k # 2 * l + 1
      BY <1>2, <1>5, <3>1
    <3>3. W[k][1] = <<"csv", l>>
      BY <1>2, <2>3, <3>2
    <3>4. <<"csv", i>> = <<"csv", l>>
      BY <3>1, <3>3
    <3>5. i = l
      BY <3>4
    <3>6. QED
      BY <2>3, <3>2, <3>5
  <2>5. ASSUME j = 2 * i + 1 PROVE k = 2 * l + 1 /\ i = l
    <3>1. W[j][1] = <<"meta", i>>
      BY <1>2, <2>5
    <3>2. k # 2 * l
      BY <1>2, <1>5, <3>1
    <3>3. W[k][1] = <<"meta", l>>
      BY <1>2, <2>3, <3>2
    <3>4. <<"meta", i>> = <<"meta", l>>
      BY <3>1, <3>3
    <3>5. i = l
      BY <3>4
    <3>6. QED
      BY <2>3, <3>2, <3>5
  <2>6. QED
    BY <2>1, <2>4, <2>5
<1>9. QED
  BY <1>3, <1>7, <1>8

\* A scenario of at most MaxBlocks windows is written to paths of the directory.
LEMMA PathsInDirectory ==
    ASSUME NEW W, NEW q, NEW s, Len(s.windows) \in 0..MaxBlocks, IsScenario(W, q, s),
           NEW k \in 1..Len(W)
    PROVE  W[k][1] \in Path
<1> DEFINE b == Len(s.windows)
<1>0. MaxBlocks \in Nat /\ b \in Nat /\ b <= MaxBlocks
  BY ChainAssumption
<1>1. k \in 1..2 * b + 2
  BY DEF IsScenario
<1>2. CASE k = 1 \/ k = 2 * b + 2
  BY <1>2 DEF IsScenario, Path
<1>3. ASSUME NEW i \in 1..b, k = 2 * i \/ k = 2 * i + 1 PROVE W[k][1] \in Path
  <2>1. i \in 1..MaxBlocks
    BY <1>0
  <2>a. W[2 * i] = <<Csv(i), ListFile(s.windows[i].deltas)>>
        /\ W[2 * i + 1] = <<Meta(i), MetaFile(s.windows[i].old, s.windows[i].new)>>
    BY DEF IsScenario
  <2>2. W[k][1] = Csv(i) \/ W[k][1] = Meta(i)
    BY <1>3, <2>a
  <2>3. QED
    BY <2>1, <2>2 DEF Path
<1> HIDE DEF b
<1>4. QED
  BY <1>0, <1>1, <1>2, <1>3, WriteCases

\* What the directory held at first.
StartDir == Directory(IF older = <<>> THEN <<>>
                      ELSE ScenarioWrites(older[1].request, older[1].scenario))
Writes == ScenarioWrites(request, scenario)

\* A process has written the first k files and has the others to write.
Reached(k) ==
    /\ k \in 0..Len(Writes)
    /\ todo = SubSeq(Writes, k + 1, Len(Writes))
    /\ \A i \in 1..k : dir[Writes[i][1]] = Writes[i][2]

\* Paths that the scenario does not have hold what they held.
Untouched == \A p \in Path : (\A i \in 1..Len(Writes) : Writes[i][1] # p) => dir[p] = StartDir[p]

\* In a directory that held nothing the manifest comes last: while no process has died,
\* what is still to be written is absent; when one has, a manifest, also one cut short,
\* has all other files whole beside it; and a whole manifest is the end.
Fresh(k) ==
    /\ crashes = 0 => \A i \in k + 1..Len(Writes) : dir[Writes[i][1]] = Absent
    /\ crashes <= 1 /\ dir[Manifest].kind = "manifest" =>
          \A i \in 1..Len(Writes) - 1 : dir[Writes[i][1]] = Writes[i][2]
    /\ dir[Manifest] = ManifestFile(request, scenario.root) => k = Len(Writes)
    /\ dir[Manifest] \in {Absent, Broken, ManifestFile(request, scenario.root), ManifestFile(request, Cut)}

FilesInv ==
    /\ job \in Jobs /\ request.reserves \in 1..request.accounts
    /\ stage \in {"generating", "writing", "done"}
    /\ crashes \in Nat
    /\ dir = [p \in Path |-> dir[p]]
    /\ stage = "generating" =>
          dir = StartDir /\ crashes = 0 /\ Len(scenario.windows) <= request.blocks
    /\ stage # "generating" =>
          /\ Len(scenario.windows) = request.blocks
          /\ Untouched
          /\ \E k \in Nat : /\ Reached(k)
                            /\ stage = "done" => k = Len(Writes)
                            /\ older = <<>> => Fresh(k)

\* The scenario being written, and where its manifest is.
LEMMA WritesFacts ==
    ASSUME FilesInv, ChainInv, stage # "generating"
    PROVE  /\ Len(scenario.windows) \in 0..MaxBlocks
           /\ IsScenario(Writes, request, scenario)
           /\ Len(Writes) = 2 * Len(scenario.windows) + 2 /\ Len(Writes) \in Nat /\ Len(Writes) >= 2
           /\ Writes[Len(Writes)] = <<Manifest, ManifestFile(request, scenario.root)>>
           /\ \A k \in 1..Len(Writes) : Writes[k][1] \in Path
           /\ \A j, k \in 1..Len(Writes) : Writes[j][1] = Writes[k][1] => j = k
           /\ \E S : Writes \in Seq(S)
<1>1. Len(scenario.windows) = request.blocks
  BY DEF FilesInv
<1>2. request.blocks \in 0..MaxBlocks
  BY ChainAssumption DEF FilesInv, request
<1>3. Len(scenario.windows) \in Nat
  BY <1>1, <1>2
<1>4. IsScenario(Writes, request, scenario)
  BY <1>3, ScenarioWritesDef DEF Writes
<1> DEFINE n == Len(Writes)
<1>5. /\ n = 2 * Len(scenario.windows) + 2
      /\ Writes[2 * Len(scenario.windows) + 2] = <<Manifest, ManifestFile(request, scenario.root)>>
      /\ \E S : Writes \in Seq(S)
  BY <1>4 DEF IsScenario
<1>6. \A k \in 1..Len(Writes) : Writes[k][1] \in Path
  BY <1>1, <1>2, <1>4, PathsInDirectory
<1>7. \A j, k \in 1..Len(Writes) : Writes[j][1] = Writes[k][1] => j = k
  BY <1>3, <1>4, PathsDiffer
<1>8. n \in Nat /\ n >= 2
  BY <1>3, <1>5
<1>9. Writes[n] = <<Manifest, ManifestFile(request, scenario.root)>>
  BY <1>5
<1>10. Len(scenario.windows) \in 0..MaxBlocks
  BY <1>1, <1>2
<1>11. QED
  BY <1>4, <1>5, <1>6, <1>7, <1>8, <1>9, <1>10

\* A root is never the one cut to nothing.
LEMMA RootNotCut == ASSUME FilesInv, ChainInv PROVE scenario.root # Cut
<1>1. scenario.root \in [Accounts -> Nat]
  BY DEF ChainInv, Holdings
<1>2. request.accounts \in Nat /\ 1 \in Accounts
  <2>1. request.accounts \in 0..N
    BY ChainAssumption DEF FilesInv, request
  <2>2. QED
    BY <2>1, NAssumption DEF FilesInv, Accounts
<1>3. 1 \in DOMAIN scenario.root
  BY <1>1, <1>2
<1>4. 1 \notin DOMAIN Cut
  BY DEF Cut
<1>5. QED
  BY <1>3, <1>4

\* Nothing has been written, and no file is there but the older ones.
LEMMA FilesInit == Init => FilesInv
<1> SUFFICES ASSUME Init PROVE FilesInv
  OBVIOUS
<1>1. job \in Jobs /\ request.reserves \in 1..request.accounts
  BY DEF Init, request
<1>2. dir = StartDir /\ stage = "generating" /\ crashes = 0
  BY DEF Init, StartDir
<1>3. StartDir = [p \in Path |-> StartDir[p]]
  BY DEF StartDir, Directory
<1>4. Len(scenario.windows) = 0
  BY DEF Init
<1>5. request.blocks \in Nat
  BY <1>1, ChainAssumption DEF request
<1>6. QED
  BY <1>1, <1>2, <1>3, <1>4, <1>5 DEF FilesInv

\* The generator touches no file and closes one block after the other.
LEMMA GeneratorKeepsFiles ==
    ASSUME FilesInv, ChainInv,
           Draw \/ Pay \/ CloseBlock \/ \E receiver \in Accounts : Redraw(receiver)
    PROVE  FilesInv'
<1>1. /\ stage = "generating" /\ Len(scenario.windows) < request.blocks
      /\ job' = job /\ stage' = stage /\ dir' = dir /\ crashes' = crashes
  BY DEF Draw, Pay, CloseBlock, Redraw, Generating, fileVars
<1>2. request' = request /\ StartDir' = StartDir
  BY <1>1 DEF request, StartDir, older
<1>3. request.blocks \in Nat
  BY ChainAssumption DEF FilesInv, request
<1>4. scenario.windows \in Seq(ClosedWindows)
  BY DEF ChainInv
<1>5. Len(scenario'.windows) <= request.blocks
  <2>1. CASE CloseBlock
    <3>1. PICK w : scenario' = [scenario EXCEPT !.windows = Append(@, w)]
      BY <2>1 DEF CloseBlock
    <3>2. scenario'.windows = Append(scenario.windows, w)
      BY <3>1 DEF ChainInv
    <3>3. Len(scenario'.windows) = Len(scenario.windows) + 1 /\ Len(scenario.windows) \in Nat
      BY <1>4, <3>2
    <3>4. QED
      BY <1>1, <1>3, <3>3
  <2>2. CASE ~CloseBlock
    <3>1. scenario' = scenario
      BY <2>2 DEF Draw, Pay, Redraw
    <3>2. Len(scenario.windows) \in Nat
      BY <1>4
    <3>3. QED
      BY <1>1, <1>3, <3>1, <3>2
  <2>3. QED
    BY <2>1, <2>2
<1>6. QED
  BY <1>1, <1>2, <1>5 DEF FilesInv

\* A process starts with the whole scenario to write.
LEMMA StartWritingKeepsFiles ==
    ASSUME FilesInv, ChainInv, StartWriting PROVE FilesInv'
<1>1. /\ stage = "generating" /\ Len(scenario.windows) = request.blocks /\ stage' = "writing"
      /\ job' = job /\ scenario' = scenario /\ dir' = dir /\ crashes' = crashes /\ todo' = Writes
  BY DEF StartWriting, chainVars, Todo, Writes
<1>2. request' = request /\ StartDir' = StartDir /\ older' = older /\ Writes' = Writes
  BY <1>1 DEF request, StartDir, older, Writes
<1>3. dir = StartDir /\ crashes = 0
  BY <1>1 DEF FilesInv
<1>4. request.blocks \in 0..MaxBlocks /\ MaxBlocks \in Nat
  BY ChainAssumption DEF FilesInv, request
<1>5. IsScenario(Writes, request, scenario)
  BY <1>1, <1>4, ScenarioWritesDef DEF Writes
<1>6. \A k \in 1..Len(Writes) : Writes[k][1] \in Path
  BY <1>1, <1>4, <1>5, PathsInDirectory
<1>7. PICK S : Writes \in Seq(S)
  BY <1>5 DEF IsScenario
<1>8. Len(Writes) \in Nat /\ SubSeq(Writes, 1, Len(Writes)) = Writes
  BY <1>7, SubSeqFull
<1>9. Len(Writes) # 0
  BY <1>1, <1>4, <1>5 DEF IsScenario
<1>10. Reached(0)'
  <2>1. todo' = SubSeq(Writes, 0 + 1, Len(Writes))
    BY <1>1, <1>8
  <2>2. QED
    BY <1>2, <1>8, <2>1 DEF Reached
<1>11. Untouched'
  BY <1>1, <1>2, <1>3 DEF Untouched
<1>12. ASSUME older = <<>> PROVE Fresh(0)'
  <2>1. \A p \in Path : dir[p] = Absent
    <3>1. StartDir = Directory(<<>>)
      BY <1>12 DEF StartDir
    <3>2. ~\E k \in DOMAIN <<>> : TRUE
      BY EmptySeq
    <3>3. QED
      BY <1>3, <3>1, <3>2 DEF Directory
  <2>2. \A i \in 1..Len(Writes) : dir[Writes[i][1]] = Absent
    BY <1>6, <2>1
  <2>3. dir[Manifest] = Absent
    BY <2>1 DEF Path
  <2>4. Absent.kind # "manifest" /\ Absent # ManifestFile(request, scenario.root)
    BY DEF Absent, ManifestFile
  <2>5. \A i \in 0 + 1..Len(Writes) : dir[Writes[i][1]] = Absent
    BY <2>2
  <2>6. QED
    BY <1>1, <1>2, <2>3, <2>4, <2>5 DEF Fresh
<1>13. dir' = [p \in Path |-> dir'[p]]
  BY <1>1 DEF FilesInv
<1>14. \E k \in Nat : (Reached(k) /\ (stage = "done" => k = Len(Writes)) /\ (older = <<>> => Fresh(k)))'
  <2>1. ~(stage' = "done")
    BY <1>1
  <2>2. (Reached(0) /\ (stage = "done" => 0 = Len(Writes)) /\ (older = <<>> => Fresh(0)))'
    BY <1>2, <1>10, <1>12, <2>1
  <2>3. QED
    BY <2>2
<1>15. /\ job' \in Jobs /\ request'.reserves \in 1..request'.accounts /\ crashes' \in Nat
       /\ Len(scenario'.windows) = request'.blocks
  BY <1>1, <1>2 DEF FilesInv
<1>16. QED
  BY <1>1, <1>11, <1>13, <1>14, <1>15 DEF FilesInv

\* One file more is whole.
LEMMA WriteKeepsFiles == ASSUME FilesInv, ChainInv, Write PROVE FilesInv'
<1>1. /\ stage = "writing" /\ stage' = "writing" /\ todo # <<>> /\ todo' = Tail(todo)
      /\ dir' = [dir EXCEPT ![Head(todo)[1]] = Head(todo)[2]]
      /\ job' = job /\ scenario' = scenario /\ crashes' = crashes
  BY DEF Write, chainVars
<1>2. request' = request /\ StartDir' = StartDir /\ older' = older /\ Writes' = Writes
  BY <1>1 DEF request, StartDir, older, Writes
<1> DEFINE n == Len(Writes)
<1>3. /\ n \in Nat /\ n >= 2 /\ Writes[n] = <<Manifest, ManifestFile(request, scenario.root)>>
      /\ \A i \in 1..n : Writes[i][1] \in Path
      /\ \A i, j \in 1..n : Writes[i][1] = Writes[j][1] => i = j
      /\ \E S : Writes \in Seq(S)
  BY <1>1, WritesFacts
<1>4. PICK k \in Nat : Reached(k) /\ (older = <<>> => Fresh(k))
  BY <1>1 DEF FilesInv
<1>5. PICK S : Writes \in Seq(S)
  BY <1>3
<1>6. dir = [p \in Path |-> dir[p]] /\ crashes \in Nat
  BY DEF FilesInv
<1>7. k \in 0..n /\ todo = SubSeq(Writes, k + 1, n)
  BY <1>4 DEF Reached
<1>8. k + 1 \in 1..n
  <2>1. CASE k = n
    <3>1. k + 1 \in Int /\ n \in Int /\ n < k + 1
      BY <1>3, <2>1
    <3>2. todo = <<>>
      BY <1>7, <3>1, SubSeqEmpty
    <3>3. QED
      BY <1>1, <3>2
  <2>2. CASE k # n
    BY <1>3, <1>7, <2>2
  <2>3. QED
    BY <2>1, <2>2
<1>9. Head(todo) = Writes[k + 1] /\ Tail(todo) = SubSeq(Writes, (k + 1) + 1, n)
  <2>1. n \in k + 1..n
    BY <1>3, <1>8
  <2>2. QED
    BY <1>5, <1>7, <1>8, <2>1, HeadTailOfSubSeq
<1> HIDE DEF n
<1>10. \A p \in Path : dir'[p] = IF p = Writes[k + 1][1] THEN Writes[k + 1][2] ELSE dir[p]
  <2>1. dir' = [dir EXCEPT ![Writes[k + 1][1]] = Writes[k + 1][2]]
    BY <1>1, <1>9
  <2>2. Path = DOMAIN dir
    BY <1>6
  <2>3. QED
    BY <2>1, <2>2
<1>11. \A i \in 1..n : dir'[Writes[i][1]] = IF i = k + 1 THEN Writes[i][2] ELSE dir[Writes[i][1]]
  BY <1>3, <1>8, <1>10
<1>12. \A i \in 1..k : i \in 1..n /\ dir[Writes[i][1]] = Writes[i][2]
  BY <1>3, <1>4, <1>7 DEF Reached, n
<1>13. Reached(k + 1)'
  <2>1. ASSUME NEW i \in 1..k + 1 PROVE dir'[Writes[i][1]] = Writes[i][2]
    <3>1. CASE i = k + 1
      BY <1>8, <1>11, <3>1
    <3>2. CASE i # k + 1
      <4>1. i \in 1..k
        BY <1>7, <1>3, <3>2
      <4>2. QED
        BY <1>11, <1>12, <4>1
    <3>3. QED
      BY <3>1, <3>2
  <2>2. k + 1 \in 0..n
    BY <1>3, <1>8
  <2>3. QED
    BY <1>1, <1>2, <1>9, <2>1, <2>2 DEF Reached, n
<1>14. Untouched'
  <2>1. ASSUME NEW p \in Path, \A i \in 1..n : Writes[i][1] # p PROVE dir'[p] = StartDir[p]
    <3>1. dir'[p] = dir[p]
      BY <1>8, <1>10, <2>1
    <3>2. dir[p] = StartDir[p]
      BY <1>1, <2>1 DEF FilesInv, Untouched, n
    <3>3. QED
      BY <3>1, <3>2
  <2>2. QED
    BY <1>2, <2>1 DEF Untouched, n
<1>15. ASSUME older = <<>> PROVE Fresh(k + 1)'
  <2>0. Fresh(k)
    BY <1>4, <1>15
  <2>a. Manifest \in Path
    BY DEF Path
  <2>b. k + 1 = n => dir'[Manifest] = ManifestFile(request, scenario.root)
    BY <1>3, <1>10, <2>a
  <2>c. k + 1 # n => dir'[Manifest] = dir[Manifest]
    <3>1. ASSUME k + 1 # n PROVE Writes[k + 1][1] # Manifest
      <4>1. Writes[n][1] = Manifest /\ n \in 1..n
        BY <1>3
      <4>2. QED
        BY <1>3, <1>8, <3>1, <4>1
    <3>2. QED
      BY <1>10, <2>a, <3>1
  <2>1. ASSUME crashes = 0, NEW i \in (k + 1) + 1..n PROVE dir'[Writes[i][1]] = Absent
    <3>1. i \in k + 1..n /\ i \in 1..n /\ i # k + 1
      BY <1>3, <1>7
    <3>2. dir[Writes[i][1]] = Absent
      BY <2>0, <2>1, <3>1 DEF Fresh, n
    <3>3. QED
      BY <1>11, <3>1, <3>2
  <2>2. ASSUME crashes <= 1, dir'[Manifest].kind = "manifest", NEW i \in 1..n - 1
        PROVE  dir'[Writes[i][1]] = Writes[i][2]
    <3>0. i \in 1..n
      BY <1>3
    <3>1. CASE i = k + 1
      BY <1>11, <3>0, <3>1
    <3>2. CASE i # k + 1 /\ k + 1 = n
      <4>1. i \in 1..k
        BY <1>3, <1>8, <3>2
      <4>2. QED
        BY <1>11, <1>12, <4>1, <3>2
    <3>3. CASE i # k + 1 /\ k + 1 # n
      <4>1. dir[Manifest].kind = "manifest"
        BY <2>2, <2>c, <3>3
      <4>2. dir[Writes[i][1]] = Writes[i][2]
        BY <2>0, <2>2, <4>1 DEF Fresh, n
      <4>3. QED
        BY <1>11, <3>0, <3>3, <4>2
    <3>4. QED
      BY <3>1, <3>2, <3>3
  <2>3. ASSUME dir'[Manifest] = ManifestFile(request, scenario.root) PROVE k + 1 = n
    <3>1. CASE k + 1 # n
      <4>1. k = n
        BY <2>0, <2>3, <2>c, <3>1 DEF Fresh, n
      <4>2. QED
        BY <1>3, <1>8, <4>1
    <3>2. QED
      BY <3>1
  <2>4. dir'[Manifest] \in {Absent, Broken, ManifestFile(request, scenario.root), ManifestFile(request, Cut)}
    <3>1. dir[Manifest] \in {Absent, Broken, ManifestFile(request, scenario.root), ManifestFile(request, Cut)}
      BY <2>0 DEF Fresh
    <3>2. QED
      BY <2>b, <2>c, <3>1
  <2>5. QED
    BY <1>1, <1>2, <2>1, <2>2, <2>3, <2>4 DEF Fresh, n
<1>16. dir' = [p \in Path |-> dir'[p]]
  BY <1>1, <1>6
<1>17. /\ job' \in Jobs /\ request'.reserves \in 1..request'.accounts /\ crashes' \in Nat
       /\ Len(scenario'.windows) = request'.blocks
  BY <1>1, <1>2 DEF FilesInv
<1>18. \E l \in Nat : (Reached(l) /\ (stage = "done" => l = Len(Writes)) /\ (older = <<>> => Fresh(l)))'
  <2>1. ~(stage' = "done")
    BY <1>1
  <2>2. (Reached(k + 1) /\ (stage = "done" => k + 1 = Len(Writes)) /\ (older = <<>> => Fresh(k + 1)))'
    BY <1>2, <1>13, <1>15, <2>1
  <2>3. k + 1 \in Nat
    OBVIOUS
  <2>4. QED
    BY <2>2, <2>3
<1>19. QED
  BY <1>1, <1>14, <1>16, <1>17, <1>18 DEF FilesInv

\* A process exits when it has nothing left to write.
LEMMA ExitKeepsFiles == ASSUME FilesInv, ChainInv, Exit PROVE FilesInv'
<1>1. /\ stage = "writing" /\ stage' = "done" /\ todo = <<>> /\ todo' = todo
      /\ dir' = dir /\ job' = job /\ scenario' = scenario /\ crashes' = crashes
  BY DEF Exit, chainVars, fileVars
<1>2. request' = request /\ StartDir' = StartDir /\ older' = older /\ Writes' = Writes
  BY <1>1 DEF request, StartDir, older, Writes
<1>3. Len(Writes) \in Nat /\ \E S : Writes \in Seq(S)
  BY <1>1, WritesFacts
<1>4. PICK k \in Nat : Reached(k) /\ (older = <<>> => Fresh(k))
  BY <1>1 DEF FilesInv
<1>5. k = Len(Writes)
  <2> DEFINE n == Len(Writes)
  <2>1. k \in 0..n /\ SubSeq(Writes, k + 1, n) = <<>>
    BY <1>1, <1>4 DEF Reached
  <2>2. PICK S : Writes \in Seq(S)
    BY <1>3
  <2>3. \A i \in k + 1..n : Writes[i] \in S
    <3>1. \A i \in 1..n : Writes[i] \in S
      BY <2>2
    <3>2. QED
      BY <1>3, <3>1
  <2>4. Len(SubSeq(Writes, k + 1, n)) = IF k + 1 <= n THEN n - (k + 1) + 1 ELSE 0
    <3>1. k + 1 \in Int /\ n \in Int
      BY <1>3
    <3>2. QED
      BY <2>3, <3>1, SubSeqProperties
  <2>5. Len(SubSeq(Writes, k + 1, n)) = 0
    <3>1. Len(<<>>) = 0
      OBVIOUS
    <3>2. QED
      BY <2>1, <3>1, Zenon
  <2> HIDE DEF n
  <2>6. QED
    <3>1. n \in Nat /\ k \in 0..n
      BY <1>3, <2>1 DEF n
    <3>2. k = n
      BY <2>4, <2>5, <3>1
    <3>3. QED
      BY <3>2 DEF n
<1>6. Reached(k)' /\ Untouched' /\ (Fresh(k) => Fresh(k)')
  <2>1. Reached(k)'
    BY <1>1, <1>2, <1>4 DEF Reached
  <2>2. Untouched'
    BY <1>1, <1>2 DEF Untouched, FilesInv
  <2>3. Fresh(k) => Fresh(k)'
    BY <1>1, <1>2 DEF Fresh
  <2>4. QED
    BY <2>1, <2>2, <2>3
<1>7. /\ job' \in Jobs /\ request'.reserves \in 1..request'.accounts /\ crashes' \in Nat
      /\ Len(scenario'.windows) = request'.blocks /\ dir' = [p \in Path |-> dir'[p]]
  BY <1>1, <1>2 DEF FilesInv
<1>8. (Reached(k) /\ (stage = "done" => k = Len(Writes)) /\ (older = <<>> => Fresh(k)))'
  BY <1>2, <1>4, <1>5, <1>6
<1>9. \E l \in Nat : (Reached(l) /\ (stage = "done" => l = Len(Writes)) /\ (older = <<>> => Fresh(l)))'
  BY <1>8
<1>10. QED
  BY <1>1, <1>6, <1>7, <1>9 DEF FilesInv

\* A write cut short leaves no manifest, unless it is one without a root, and leaves a
\* manifest only if it was the manifest's write.
LEMMA TornFile ==
    ASSUME FilesInv, ChainInv, stage # "generating", NEW k \in 1..Len(Writes),
           NEW file \in Torn(Writes[k][2])
    PROVE  IF k = Len(Writes) THEN file \in {Broken, ManifestFile(request, Cut)} ELSE file.kind # "manifest"
<1> DEFINE b == Len(scenario.windows)
<1>1. /\ b \in Nat /\ Len(Writes) = 2 * b + 2
      /\ Writes[2 * b + 2][2] = ManifestFile(request, scenario.root)
      /\ Writes[1][2] = ListFile(scenario.reserves)
      /\ \A i \in 1..b : /\ Writes[2 * i][2] = ListFile(scenario.windows[i].deltas)
                         /\ Writes[2 * i + 1][2] = MetaFile(scenario.windows[i].old, scenario.windows[i].new)
  BY WritesFacts DEF IsScenario
<1> HIDE DEF b
<1>2. ASSUME NEW list, file \in Torn(ListFile(list)) PROVE file.kind # "manifest"
  <2>1. file = Broken \/ \E l : file = ListFile(l)
    BY <1>2 DEF Torn, ListFile
  <2>2. QED
    BY <2>1 DEF Broken, ListFile
<1>3. ASSUME NEW old, NEW new, file \in Torn(MetaFile(old, new)) PROVE file.kind # "manifest"
  BY <1>3 DEF Torn, MetaFile
<1>4. ASSUME NEW q, NEW root, file \in Torn(ManifestFile(q, root))
      PROVE  file \in {Broken, ManifestFile(q, Cut)}
  BY <1>4 DEF Torn, ManifestFile
<1>5. CASE k = 1
  BY <1>1, <1>2, <1>5
<1>6. CASE k = 2 * b + 2
  BY <1>1, <1>4, <1>6
<1>7. ASSUME NEW i \in 1..b, k = 2 * i \/ k = 2 * i + 1
      PROVE  file.kind # "manifest" /\ k # Len(Writes)
  <2>1. k # Len(Writes)
    BY <1>1, <1>7
  <2>2. QED
    BY <1>1, <1>2, <1>3, <1>7, <2>1
<1>8. QED
  <2>1. k \in 1..2 * b + 2
    BY <1>1
  <2>2. k = 1 \/ k = 2 * b + 2 \/ \E i \in 1..b : k = 2 * i \/ k = 2 * i + 1
    BY <1>1, <2>1, WriteCases
  <2>3. 1 # Len(Writes)
    BY <1>1
  <2>4. k = 1 => file.kind # "manifest" /\ k # Len(Writes)
    BY <1>1, <1>2, <2>3
  <2>5. QED
    BY <1>1, <1>6, <1>7, <2>2, <2>4

\* A process that dies leaves its file as it was or cut short, and the next one begins
\* again.
LEMMA CrashKeepsFiles == ASSUME FilesInv, ChainInv, Crash PROVE FilesInv'
<1>1. /\ stage = "writing" /\ stage' = stage /\ todo # <<>> /\ todo' = Writes
      /\ job' = job /\ scenario' = scenario /\ crashes' = crashes + 1
      /\ \/ dir' = dir
         \/ \E file \in Torn(Head(todo)[2]) : dir' = [dir EXCEPT ![Head(todo)[1]] = file]
  BY DEF Crash, chainVars, Todo, Writes
<1>2. request' = request /\ StartDir' = StartDir /\ older' = older /\ Writes' = Writes
  BY <1>1 DEF request, StartDir, older, Writes
<1> DEFINE n == Len(Writes)
<1>3. /\ n \in Nat /\ n >= 2 /\ Writes[n] = <<Manifest, ManifestFile(request, scenario.root)>>
      /\ \A i \in 1..n : Writes[i][1] \in Path
      /\ \A i, j \in 1..n : Writes[i][1] = Writes[j][1] => i = j
      /\ \E S : Writes \in Seq(S)
  BY <1>1, WritesFacts
<1>4. PICK k \in Nat : Reached(k) /\ (older = <<>> => Fresh(k))
  BY <1>1 DEF FilesInv
<1>5. PICK S : Writes \in Seq(S)
  BY <1>3
<1>6. dir = [p \in Path |-> dir[p]] /\ crashes \in Nat
  BY DEF FilesInv
<1>7. k \in 0..n /\ todo = SubSeq(Writes, k + 1, n)
  BY <1>4 DEF Reached
<1>8. k + 1 \in 1..n
  <2>1. CASE k = n
    <3>1. k + 1 \in Int /\ n \in Int /\ n < k + 1
      BY <1>3, <2>1
    <3>2. todo = <<>>
      BY <1>7, <3>1, SubSeqEmpty
    <3>3. QED
      BY <1>1, <3>2
  <2>2. CASE k # n
    BY <1>3, <1>7, <2>2
  <2>3. QED
    BY <2>1, <2>2
<1>9. Head(todo) = Writes[k + 1]
  <2>1. n \in k + 1..n
    BY <1>3, <1>8
  <2>2. QED
    BY <1>5, <1>7, <1>8, <2>1, HeadTailOfSubSeq
<1>10. SubSeq(Writes, 1, n) = Writes
  BY <1>5, SubSeqFull
<1> HIDE DEF n
<1>11. \E file : /\ k + 1 = n => file \in {dir[Writes[k + 1][1]], Broken, ManifestFile(request, Cut)}
                 /\ k + 1 # n => file = dir[Writes[k + 1][1]] \/ file.kind # "manifest"
                 /\ \A p \in Path : dir'[p] = IF p = Writes[k + 1][1] THEN file ELSE dir[p]
  <2>1. CASE dir' = dir
    BY <2>1
  <2>2. CASE \E file \in Torn(Head(todo)[2]) : dir' = [dir EXCEPT ![Head(todo)[1]] = file]
    <3>1. PICK file \in Torn(Writes[k + 1][2]) : dir' = [dir EXCEPT ![Writes[k + 1][1]] = file]
      BY <1>9, <2>2
    <3>2. stage # "generating"
      BY <1>1
    <3>3. k + 1 \in 1..Len(Writes)
      BY <1>8 DEF n
    <3>4. IF k + 1 = Len(Writes) THEN file \in {Broken, ManifestFile(request, Cut)} ELSE file.kind # "manifest"
      BY <3>2, <3>3, TornFile
    <3>5. \A p \in Path : dir'[p] = IF p = Writes[k + 1][1] THEN file ELSE dir[p]
      BY <1>6, <3>1
    <3>6. QED
      BY <3>4, <3>5 DEF n
  <2>3. QED
    BY <1>1, <2>1, <2>2
<1>12. PICK file :
          /\ k + 1 = n => file \in {dir[Writes[k + 1][1]], Broken, ManifestFile(request, Cut)}
          /\ k + 1 # n => file = dir[Writes[k + 1][1]] \/ file.kind # "manifest"
          /\ \A p \in Path : dir'[p] = IF p = Writes[k + 1][1] THEN file ELSE dir[p]
  BY <1>11
<1>13. Reached(0)'
  <2>1. todo' = SubSeq(Writes, 0 + 1, n)
    BY <1>1, <1>10
  <2>2. 0 \in 0..n
    BY <1>3
  <2>3. QED
    BY <1>2, <2>1, <2>2 DEF Reached, n
<1>14. Untouched'
  <2>1. ASSUME NEW p \in Path, \A i \in 1..n : Writes[i][1] # p PROVE dir'[p] = StartDir[p]
    <3>1. dir'[p] = dir[p]
      BY <1>8, <1>12, <2>1
    <3>2. dir[p] = StartDir[p]
      BY <1>1, <2>1 DEF FilesInv, Untouched, n
    <3>3. QED
      BY <3>1, <3>2
  <2>2. QED
    BY <1>2, <2>1 DEF Untouched, n
<1>15. ASSUME older = <<>> PROVE Fresh(0)'
  <2>0. Fresh(k)
    BY <1>4, <1>15
  <2>a. Manifest \in Path
    BY DEF Path
  <2>b. k + 1 = n => dir'[Manifest] \in {dir[Manifest], Broken, ManifestFile(request, Cut)}
    BY <1>3, <1>12, <2>a
  <2>c. k + 1 # n => dir'[Manifest] = dir[Manifest]
    <3>1. ASSUME k + 1 # n PROVE Writes[k + 1][1] # Manifest
      <4>1. Writes[n][1] = Manifest /\ n \in 1..n
        BY <1>3
      <4>2. QED
        BY <1>3, <1>8, <3>1, <4>1
    <3>2. QED
      BY <1>12, <2>a, <3>1
  <2>d. dir[Manifest] \in {Absent, Broken, ManifestFile(request, scenario.root), ManifestFile(request, Cut)}
    BY <2>0 DEF Fresh
  <2>e. dir[Manifest] # ManifestFile(request, scenario.root)
    <3>1. k # n
      BY <1>3, <1>8
    <3>2. QED
      BY <2>0, <3>1 DEF Fresh, n
  <2>1. ASSUME crashes + 1 <= 1, dir'[Manifest].kind = "manifest", NEW i \in 1..n - 1
        PROVE  dir'[Writes[i][1]] = Writes[i][2]
    <3>0. i \in 1..n /\ crashes = 0
      BY <1>3, <1>6, <2>1
    <3>1. dir[Manifest] = Absent
      <4>1. n \in k + 1..n /\ Writes[n][1] = Manifest
        BY <1>3, <1>8
      <4>2. QED
        BY <2>0, <3>0, <4>1 DEF Fresh, n
    <3>2. k + 1 = n
      <4>1. dir'[Manifest] # Absent
        BY <2>1 DEF Absent
      <4>2. QED
        BY <2>c, <3>1, <4>1
    <3>3. i \in 1..k /\ i # k + 1
      BY <1>3, <3>2
    <3>4. dir[Writes[i][1]] = Writes[i][2]
      BY <1>4, <3>3 DEF Reached
    <3>5. Writes[i][1] # Writes[k + 1][1] /\ Writes[i][1] \in Path
      BY <1>3, <1>8, <3>0, <3>3
    <3>6. QED
      BY <1>12, <3>4, <3>5
  <2>2. dir'[Manifest] # ManifestFile(request, scenario.root)
    <3>1. ManifestFile(request, Cut) # ManifestFile(request, scenario.root)
      BY RootNotCut DEF ManifestFile
    <3>2. Broken # ManifestFile(request, scenario.root)
      BY DEF Broken, ManifestFile
    <3>3. QED
      BY <2>b, <2>c, <2>e, <3>1, <3>2
  <2>3. dir'[Manifest] \in {Absent, Broken, ManifestFile(request, scenario.root), ManifestFile(request, Cut)}
    BY <2>b, <2>c, <2>d
  <2>4. crashes' # 0
    BY <1>1, <1>6
  <2>5. QED
    BY <1>1, <1>2, <2>1, <2>2, <2>3, <2>4 DEF Fresh, n
<1>16. dir' = [p \in Path |-> dir'[p]]
  BY <1>1, <1>6
<1>17. /\ job' \in Jobs /\ request'.reserves \in 1..request'.accounts /\ crashes' \in Nat
       /\ Len(scenario'.windows) = request'.blocks
  BY <1>1, <1>2 DEF FilesInv
<1>18. \E l \in Nat : (Reached(l) /\ (stage = "done" => l = Len(Writes)) /\ (older = <<>> => Fresh(l)))'
  <2>1. ~(stage' = "done")
    BY <1>1
  <2>2. (Reached(0) /\ (stage = "done" => 0 = Len(Writes)) /\ (older = <<>> => Fresh(0)))'
    BY <1>2, <1>13, <1>15, <2>1
  <2>3. QED
    BY <2>2
<1>19. QED
  BY <1>1, <1>14, <1>16, <1>17, <1>18 DEF FilesInv

\* The files are where the writing has got to.
THEOREM FilesCorrect == Spec => []FilesInv
<1>1. ASSUME FilesInv, ChainInv, [Next]_vars PROVE FilesInv'
  <2>1. CASE UNCHANGED vars
    <3>1. /\ job' = job /\ stage' = stage /\ scenario' = scenario
          /\ dir' = dir /\ todo' = todo /\ crashes' = crashes
      BY <2>1 DEF vars, chainVars, fileVars
    <3>2. request' = request /\ StartDir' = StartDir /\ older' = older /\ Writes' = Writes
      BY <3>1 DEF request, StartDir, older, Writes
    <3>3. Untouched' <=> Untouched
      BY <3>1, <3>2 DEF Untouched
    <3>4. \A k : (Reached(k)' <=> Reached(k)) /\ (Fresh(k)' <=> Fresh(k))
      BY <3>1, <3>2 DEF Reached, Fresh
    <3>5. QED
      BY <1>1, <3>1, <3>2, <3>3, <3>4 DEF FilesInv
  <2>2. CASE Draw \/ Pay \/ CloseBlock \/ \E receiver \in Accounts : Redraw(receiver)
    BY <1>1, <2>2, GeneratorKeepsFiles
  <2>3. CASE StartWriting
    BY <1>1, <2>3, StartWritingKeepsFiles
  <2>4. CASE Write
    BY <1>1, <2>4, WriteKeepsFiles
  <2>5. CASE Exit
    BY <1>1, <2>5, ExitKeepsFiles
  <2>6. CASE Crash
    BY <1>1, <2>6, CrashKeepsFiles
  <2>7. QED
    BY <1>1, <2>1, <2>2, <2>3, <2>4, <2>5, <2>6 DEF Next, Step
<1>2. QED
  BY <1>1, FilesInit, LinkedCorrect, PTL DEF Spec

\* A file of the directory that a scenario was written to is its write, and there are no
\* others.
LEMMA DirectoryAt ==
    ASSUME NEW W, NEW q, NEW s, Len(s.windows) \in 0..MaxBlocks, IsScenario(W, q, s)
    PROVE  /\ \A k \in 1..Len(W) : Directory(W)[W[k][1]] = W[k][2]
           /\ \A p \in Path : (\A k \in 1..Len(W) : W[k][1] # p) => Directory(W)[p] = Absent
<1>1. PICK S : W \in Seq(S)
  BY DEF IsScenario
<1>2. DOMAIN W = 1..Len(W)
  BY <1>1
<1>3. Len(s.windows) \in Nat
  BY ChainAssumption
<1>4. ASSUME NEW k \in 1..Len(W) PROVE Directory(W)[W[k][1]] = W[k][2]
  <2>1. W[k][1] \in Path
    BY PathsInDirectory
  <2> DEFINE c == CHOOSE l \in DOMAIN W : W[l][1] = W[k][1]
  <2>2. k \in DOMAIN W
    BY <1>2
  <2>3. c \in DOMAIN W /\ W[c][1] = W[k][1]
    BY <2>2
  <2>4. Directory(W)[W[k][1]] = W[c][2]
    BY <2>1, <2>2 DEF Directory
  <2> HIDE DEF c
  <2>5. c = k
    BY <1>2, <1>3, <2>3, PathsDiffer
  <2>6. QED
    BY <2>4, <2>5
<1>5. ASSUME NEW p \in Path, \A k \in 1..Len(W) : W[k][1] # p PROVE Directory(W)[p] = Absent
  BY <1>2, <1>5 DEF Directory
<1>6. QED
  BY <1>4, <1>5

\* A scenario has no path but those of its windows.
LEMMA NoOtherWindow ==
    ASSUME NEW W, NEW q, NEW s, Len(s.windows) \in Nat, IsScenario(W, q, s),
           NEW i \in Nat, i > Len(s.windows), NEW k \in 1..Len(W)
    PROVE  W[k][1] # Csv(i) /\ W[k][1] # Meta(i)
<1> DEFINE b == Len(s.windows)
<1>1. /\ b \in Nat /\ k \in 1..2 * b + 2
      /\ W[1][1] = <<"reserves", 0>> /\ W[2 * b + 2][1] = <<"manifest", 0>>
      /\ \A j \in 1..b : W[2 * j][1] = <<"csv", j>> /\ W[2 * j + 1][1] = <<"meta", j>>
  <2>1. Len(W) = 2 * b + 2 /\ b \in Nat
    BY DEF IsScenario
  <2>2. W[1][1] = <<"reserves", 0>> /\ W[2 * b + 2][1] = <<"manifest", 0>>
    BY DEF IsScenario, Reserve, Manifest
  <2>3. \A j \in 1..b : W[2 * j][1] = <<"csv", j>> /\ W[2 * j + 1][1] = <<"meta", j>>
    <3>1. \A j \in 1..b : W[2 * j][1] = Csv(j) /\ W[2 * j + 1][1] = Meta(j)
      BY ScenarioPaths
    <3>2. QED
      BY <3>1 DEF Csv, Meta
  <2>4. QED
    BY <2>1, <2>2, <2>3
<1>2. \A j \in 1..b : j # i
  OBVIOUS
<1> HIDE DEF b
<1>3. \A x, y : /\ <<"csv", x>> # <<"meta", y>> /\ <<"csv", x>> # <<"reserves", 0>>
                /\ <<"csv", x>> # <<"manifest", 0>> /\ <<"meta", x>> # <<"reserves", 0>>
                /\ <<"meta", x>> # <<"manifest", 0>>
  OBVIOUS
<1>4. ASSUME NEW j \in 1..b PROVE <<"csv", j>> # <<"csv", i>> /\ <<"meta", j>> # <<"meta", i>>
  BY <1>2
<1>5. CASE k = 1 \/ k = 2 * b + 2
  <2>1. W[k][1] = <<"reserves", 0>> \/ W[k][1] = <<"manifest", 0>>
    BY <1>1, <1>5
  <2>2. Csv(i) = <<"csv", i>> /\ Meta(i) = <<"meta", i>>
    BY DEF Csv, Meta
  <2>3. QED
    BY <1>3, <2>1, <2>2
<1>6. ASSUME NEW j \in 1..b, k = 2 * j \/ k = 2 * j + 1 PROVE W[k][1] # Csv(i) /\ W[k][1] # Meta(i)
  <2>1. W[k][1] = <<"csv", j>> \/ W[k][1] = <<"meta", j>>
    BY <1>1, <1>6
  <2>2. Csv(i) = <<"csv", i>> /\ Meta(i) = <<"meta", i>>
    BY DEF Csv, Meta
  <2>3. QED
    BY <1>3, <1>4, <2>1, <2>2
<1>7. QED
  BY <1>1, <1>5, <1>6, WriteCases

\* The windows of the older scenario.
OlderWindows == IF older = <<>> THEN <<>> ELSE older[1].scenario.windows

\* What the directory held of windows at first.
LEMMA StartFiles ==
    ASSUME FilesInv
    PROVE  /\ Len(OlderWindows) \in 0..MaxBlocks
           /\ \A i \in 1..Len(OlderWindows) :
                 /\ StartDir[Csv(i)] = ListFile(OlderWindows[i].deltas)
                 /\ StartDir[Meta(i)] = MetaFile(OlderWindows[i].old, OlderWindows[i].new)
                 /\ OlderWindows[i] = [old |-> OlderWindows[i].old, new |-> OlderWindows[i].new,
                                       deltas |-> OlderWindows[i].deltas]
                 /\ \E n \in DOMAIN older : OlderWindows[i] = older[n].scenario.windows[i]
           /\ \A i \in 1..MaxBlocks : i > Len(OlderWindows) => StartDir[Csv(i)] = Absent
           /\ older = <<>> => \A p \in Path : StartDir[p] = Absent
<1>0. MaxBlocks \in Nat /\ job \in Jobs
  BY ChainAssumption DEF FilesInv
<1>1. CASE older = <<>>
  <2>1. \A p \in Path : StartDir[p] = Absent
    <3>1. StartDir = Directory(<<>>)
      BY <1>1 DEF StartDir
    <3>2. ~\E k \in DOMAIN <<>> : TRUE
      BY EmptySeq
    <3>3. QED
      BY <3>1, <3>2 DEF Directory
  <2>2. Len(OlderWindows) = 0
    BY <1>1 DEF OlderWindows
  <2>3. \A i \in 1..MaxBlocks : Csv(i) \in Path
    BY DEF Path
  <2>4. \A i \in 1..Len(OlderWindows) : FALSE
    BY <2>2
  <2>5. QED
    BY <1>0, <2>1, <2>2, <2>3, <2>4
<1>2. CASE older # <<>>
  <2> DEFINE s == older[1].scenario
             q == older[1].request
             w == s.windows
             W == ScenarioWrites(q, s)
  <2>1. /\ DOMAIN older = {1} /\ DOMAIN w = 1..Len(w) /\ Len(w) \in 0..MaxBlocks
        /\ \A i \in DOMAIN w : w[i] = [old |-> w[i].old, new |-> w[i].new, deltas |-> w[i].deltas]
    BY <1>0, <1>2, ChainAssumption DEF older
  <2>2. OlderWindows = w /\ StartDir = Directory(W)
    BY <1>2 DEF OlderWindows, StartDir
  <2>3. Len(s.windows) \in Nat
    BY <1>0, <2>1
  <2>4. IsScenario(W, q, s)
    BY <2>3, ScenarioWritesDef
  <2> HIDE DEF W
  <2>5. /\ \A k \in 1..Len(W) : Directory(W)[W[k][1]] = W[k][2]
        /\ \A p \in Path : (\A k \in 1..Len(W) : W[k][1] # p) => Directory(W)[p] = Absent
    BY <2>1, <2>4, DirectoryAt
  <2>6. ASSUME NEW i \in 1..Len(w)
        PROVE  /\ StartDir[Csv(i)] = ListFile(w[i].deltas)
               /\ StartDir[Meta(i)] = MetaFile(w[i].old, w[i].new)
    <3>1. 2 * i \in 1..Len(W) /\ 2 * i + 1 \in 1..Len(W)
      <4>1. Len(W) = 2 * Len(w) + 2
        BY <2>4 DEF IsScenario
      <4>2. QED
        BY <2>3, <4>1
    <3>2. W[2 * i] = <<Csv(i), ListFile(w[i].deltas)>> /\ W[2 * i + 1] = <<Meta(i), MetaFile(w[i].old, w[i].new)>>
      BY <2>4 DEF IsScenario
    <3>3. QED
      BY <2>2, <2>5, <3>1, <3>2
  <2>7. ASSUME NEW i \in 1..MaxBlocks, i > Len(w) PROVE StartDir[Csv(i)] = Absent
    <3>1. Csv(i) \in Path
      BY DEF Path
    <3>2. \A k \in 1..Len(W) : W[k][1] # Csv(i)
      BY <2>3, <2>4, <2>7, NoOtherWindow
    <3>3. QED
      BY <2>2, <2>5, <3>1, <3>2
  <2>8. \A i \in 1..Len(w) : /\ w[i] = [old |-> w[i].old, new |-> w[i].new, deltas |-> w[i].deltas]
                             /\ \E n \in DOMAIN older : w[i] = older[n].scenario.windows[i]
    BY <2>1
  <2>9. QED
    BY <1>2, <2>1, <2>2, <2>6, <2>7, <2>8
<1>3. QED
  BY <1>1, <1>2

\* The windows counted are those before the first CSV that is not there.
LEMMA WindowCountIs ==
    ASSUME NEW m \in 0..MaxBlocks, \A i \in 1..m : dir[Csv(i)] # Absent,
           m < MaxBlocks => dir[Csv(m + 1)] = Absent
    PROVE  WindowCount = m
<1> DEFINE IsCount(n) == (\A i \in 1..n : dir[Csv(i)] # Absent) /\ (n < MaxBlocks => dir[Csv(n + 1)] = Absent)
<1>0. MaxBlocks \in Nat
  BY ChainAssumption
<1>1. IsCount(m)
  OBVIOUS
<1>2. ASSUME NEW n \in 0..MaxBlocks, IsCount(n) PROVE n = m
  <2>1. CASE n < m
    <3>1. n < MaxBlocks /\ n + 1 \in 1..m
      BY <1>0, <2>1
    <3>2. QED
      BY <1>2, <3>1
  <2>2. CASE m < n
    <3>1. m < MaxBlocks /\ m + 1 \in 1..n
      BY <1>0, <2>2
    <3>2. QED
      BY <1>2, <3>1
  <2>3. QED
    BY <1>0, <2>1, <2>2
<1>3. WindowCount = CHOOSE n \in 0..MaxBlocks : IsCount(n)
  BY DEF WindowCount
<1> HIDE DEF IsCount
<1>4. QED
  BY <1>1, <1>2, <1>3

\* What a directory holds of the scenario once all files but the manifest are whole: its
\* reserves, its windows, and after them the older ones.
LEMMA WholeFiles ==
    ASSUME FilesInv, ChainInv, stage # "generating",
           \A k \in 1..Len(Writes) - 1 : dir[Writes[k][1]] = Writes[k][2]
    PROVE  /\ dir[Reserve] = ListFile(scenario.reserves)
           /\ \A i \in 1..Len(scenario.windows) :
                 /\ dir[Csv(i)] = ListFile(scenario.windows[i].deltas)
                 /\ dir[Meta(i)] = MetaFile(scenario.windows[i].old, scenario.windows[i].new)
           /\ \A i \in 1..MaxBlocks : i > Len(scenario.windows) =>
                 dir[Csv(i)] = StartDir[Csv(i)] /\ dir[Meta(i)] = StartDir[Meta(i)]
<1> DEFINE b == Len(scenario.windows)
<1>1. b \in 0..MaxBlocks /\ MaxBlocks \in Nat /\ IsScenario(Writes, request, scenario)
  BY WritesFacts, ChainAssumption
<1>2. /\ Len(Writes) = 2 * b + 2
      /\ Writes[1] = <<Reserve, ListFile(scenario.reserves)>>
      /\ \A i \in 1..b :
            /\ Writes[2 * i] = <<Csv(i), ListFile(scenario.windows[i].deltas)>>
            /\ Writes[2 * i + 1] = <<Meta(i), MetaFile(scenario.windows[i].old, scenario.windows[i].new)>>
  BY <1>1 DEF IsScenario
<1>3. \A k \in 1..2 * b + 1 : dir[Writes[k][1]] = Writes[k][2]
  BY <1>1, <1>2
<1>4. ASSUME NEW i \in 1..MaxBlocks, i > b
      PROVE  dir[Csv(i)] = StartDir[Csv(i)] /\ dir[Meta(i)] = StartDir[Meta(i)]
  <2>1. \A k \in 1..Len(Writes) : Writes[k][1] # Csv(i) /\ Writes[k][1] # Meta(i)
    BY <1>1, <1>4, NoOtherWindow
  <2>2. Csv(i) \in Path /\ Meta(i) \in Path
    BY DEF Path
  <2>3. Untouched
    BY DEF FilesInv
  <2>4. QED
    BY <2>1, <2>2, <2>3 DEF Untouched
<1> HIDE DEF b
<1>5. dir[Reserve] = ListFile(scenario.reserves)
  <2>1. 1 \in 1..2 * b + 1
    BY <1>1
  <2>2. QED
    BY <1>2, <1>3, <2>1
<1>6. ASSUME NEW i \in 1..b
      PROVE  /\ dir[Csv(i)] = ListFile(scenario.windows[i].deltas)
             /\ dir[Meta(i)] = MetaFile(scenario.windows[i].old, scenario.windows[i].new)
  <2>1. 2 * i \in 1..2 * b + 1 /\ 2 * i + 1 \in 1..2 * b + 1
    BY <1>1
  <2>2. QED
    BY <1>2, <1>3, <2>1
<1>7. QED
  BY <1>4, <1>5, <1>6 DEF b

\* A directory of whole files is counted up to the longer of the two scenarios.
LEMMA WholeCount ==
    ASSUME FilesInv, ChainInv, stage # "generating",
           \A k \in 1..Len(Writes) - 1 : dir[Writes[k][1]] = Writes[k][2]
    PROVE  WindowCount = IF Len(OlderWindows) > Len(scenario.windows)
                           THEN Len(OlderWindows) ELSE Len(scenario.windows)
<1> DEFINE b == Len(scenario.windows)
           l == Len(OlderWindows)
           m == IF l > b THEN l ELSE b
<1>1. b \in 0..MaxBlocks /\ l \in 0..MaxBlocks /\ MaxBlocks \in Nat
  BY WritesFacts, StartFiles, ChainAssumption
<1>2. ASSUME NEW i \in 1..m PROVE dir[Csv(i)] # Absent
  <2>1. CASE i <= b
    <3>1. i \in 1..b
      BY <1>1, <2>1
    <3>2. dir[Csv(i)] = ListFile(scenario.windows[i].deltas)
      BY <3>1, WholeFiles
    <3>3. QED
      BY <3>2 DEF ListFile, Absent
  <2>2. CASE ~(i <= b)
    <3>1. i \in 1..l /\ i \in 1..MaxBlocks /\ i > b
      BY <1>1, <2>2
    <3>2. dir[Csv(i)] = ListFile(OlderWindows[i].deltas)
      BY <3>1, WholeFiles, StartFiles
    <3>3. QED
      BY <3>2 DEF ListFile, Absent
  <2>3. QED
    BY <2>1, <2>2
<1>3. ASSUME m < MaxBlocks PROVE dir[Csv(m + 1)] = Absent
  <2>1. m + 1 \in 1..MaxBlocks /\ m + 1 > b /\ m + 1 > l
    BY <1>1, <1>3
  <2>2. dir[Csv(m + 1)] = StartDir[Csv(m + 1)]
    BY <2>1, WholeFiles
  <2>3. StartDir[Csv(m + 1)] = Absent
    BY <2>1, StartFiles
  <2>4. QED
    BY <2>2, <2>3
<1>4. m \in 0..MaxBlocks
  BY <1>1
<1> HIDE DEF m
<1>5. WindowCount = m
  BY <1>2, <1>3, <1>4, WindowCountIs
<1>6. QED
  BY <1>5 DEF m

\* In a directory that held nothing, a scenario that is read under the whole root, or
\* after a single death under any, is the one that was generated: its windows are all
\* there and no others.
THEOREM FreshScenariosLoadWhole == Spec => []FreshLoadsWhole
<1>1. ASSUME FilesInv, ChainInv PROVE FreshLoadsWhole
  <2> SUFFICES ASSUME older = <<>>, NEW loaded \in LoadManifest
               PROVE  /\ loaded.root \in {scenario.root, Cut}
                      /\ loaded.root = scenario.root \/ crashes <= 1 =>
                           loaded = [request |-> request, root |-> loaded.root, reserves |-> scenario.reserves,
                                     windows |-> scenario.windows]
    BY DEF FreshLoadsWhole
  <2> DEFINE Win(i) == [old |-> dir[Meta(i)].old, new |-> dir[Meta(i)].new, deltas |-> dir[Csv(i)].list]
             Read(c) == [request |-> dir[Manifest].request, root |-> dir[Manifest].root,
                         reserves |-> dir[Reserve].list, windows |-> [i \in 1..c |-> Win(i)]]
  <2>1. dir[Manifest].kind = "manifest" /\ loaded = Read(WindowCount)
    BY DEF LoadManifest
  <2>2. stage # "generating"
    <3>1. ASSUME stage = "generating" PROVE FALSE
      <4>1. dir = StartDir
        BY <1>1, <3>1 DEF FilesInv
      <4>2. dir[Manifest] = Absent
        BY <1>1, <4>1, StartFiles DEF Path
      <4>3. QED
        BY <2>1, <4>2 DEF Absent
    <3>2. QED
      BY <3>1
  <2>3. PICK k \in Nat : Reached(k) /\ Fresh(k)
    BY <1>1, <2>2 DEF FilesInv
  <2>4. dir[Manifest] \in {ManifestFile(request, scenario.root), ManifestFile(request, Cut)}
    <3>1. dir[Manifest] \in {Absent, Broken, ManifestFile(request, scenario.root), ManifestFile(request, Cut)}
      BY <2>3 DEF Fresh
    <3>2. dir[Manifest] # Absent /\ dir[Manifest] # Broken
      BY <2>1 DEF Absent, Broken
    <3>3. QED
      BY <3>1, <3>2
  <2>5. dir[Manifest].request = request /\ dir[Manifest].root \in {scenario.root, Cut}
    BY <2>4 DEF ManifestFile
  <2>6. loaded.root = dir[Manifest].root
    BY <2>1
  <2>7. ASSUME loaded.root = scenario.root \/ crashes <= 1
        PROVE  loaded = [request |-> request, root |-> loaded.root, reserves |-> scenario.reserves,
                         windows |-> scenario.windows]
    <3>1. \A i \in 1..Len(Writes) - 1 : dir[Writes[i][1]] = Writes[i][2]
      <4>1. CASE loaded.root = scenario.root
        <5>1. dir[Manifest] # ManifestFile(request, Cut)
          <6>1. dir[Manifest].root # Cut
            BY <1>1, <2>6, <4>1, RootNotCut
          <6>2. ManifestFile(request, Cut).root = Cut
            BY DEF ManifestFile
          <6>3. QED
            BY <6>1, <6>2
        <5>2. k = Len(Writes)
          BY <2>3, <2>4, <5>1 DEF Fresh
        <5>3. Len(Writes) \in Nat
          BY <1>1, <2>2, WritesFacts
        <5>4. ASSUME NEW i \in 1..Len(Writes) - 1 PROVE dir[Writes[i][1]] = Writes[i][2]
          <6>1. i \in 1..k
            BY <5>2, <5>3
          <6>2. QED
            BY <2>3, <6>1 DEF Reached
        <5>5. QED
          BY <5>4
      <4>2. CASE crashes <= 1
        BY <2>1, <2>3, <4>2 DEF Fresh
      <4>3. QED
        BY <2>7, <4>1, <4>2
    <3>2. Len(OlderWindows) = 0 /\ Len(scenario.windows) \in Nat
      BY <1>1, <2>2, WritesFacts, ChainAssumption DEF OlderWindows
    <3>3. WindowCount = Len(scenario.windows)
      BY <1>1, <2>2, <3>1, <3>2, WholeCount
    <3>4. /\ dir[Reserve] = ListFile(scenario.reserves)
          /\ \A i \in 1..Len(scenario.windows) :
                /\ dir[Csv(i)] = ListFile(scenario.windows[i].deltas)
                /\ dir[Meta(i)] = MetaFile(scenario.windows[i].old, scenario.windows[i].new)
      BY <1>1, <2>2, <3>1, WholeFiles
    <3>5. dir[Reserve].list = scenario.reserves
      BY <3>4 DEF ListFile
    <3>6. scenario.windows \in Seq(ClosedWindows)
      BY <1>1 DEF ChainInv
    <3>7. ASSUME NEW i \in 1..Len(scenario.windows) PROVE Win(i) = scenario.windows[i]
      <4>1. scenario.windows[i] \in ClosedWindows
        BY <3>6
      <4>2. scenario.windows[i] = [old |-> scenario.windows[i].old, new |-> scenario.windows[i].new,
                                   deltas |-> scenario.windows[i].deltas]
        BY <4>1 DEF ClosedWindows
      <4>3. /\ dir[Csv(i)].list = scenario.windows[i].deltas
            /\ dir[Meta(i)].old = scenario.windows[i].old /\ dir[Meta(i)].new = scenario.windows[i].new
        <5>1. /\ dir[Csv(i)] = ListFile(scenario.windows[i].deltas)
              /\ dir[Meta(i)] = MetaFile(scenario.windows[i].old, scenario.windows[i].new)
          BY <3>4
        <5>2. dir[Csv(i)].list = scenario.windows[i].deltas
          BY <5>1 DEF ListFile
        <5>3. dir[Meta(i)].old = scenario.windows[i].old /\ dir[Meta(i)].new = scenario.windows[i].new
          BY <5>1 DEF MetaFile
        <5>4. QED
          BY <5>2, <5>3
      <4>4. QED
        BY <4>2, <4>3
    <3> HIDE DEF Win
    <3>8. scenario.windows = [i \in 1..Len(scenario.windows) |-> Win(i)]
      <4>1. scenario.windows = [i \in 1..Len(scenario.windows) |-> scenario.windows[i]]
        BY <3>6
      <4>2. QED
        BY <3>7, <4>1
    <3>9. Read(WindowCount) = [request |-> request, root |-> loaded.root, reserves |-> scenario.reserves,
                               windows |-> scenario.windows]
      <4>1. [i \in 1..WindowCount |-> Win(i)] = scenario.windows
        BY <3>3, <3>8
      <4>2. QED
        BY <2>5, <2>6, <3>5, <4>1
    <3>10. QED
      BY <2>1, <3>9
  <2>8. QED
    BY <2>5, <2>6, <2>7
<1>2. QED
  BY <1>1, FilesCorrect, LinkedCorrect, PTL

\* mock-gen's scenario is read back when it has ended: all its files are written after
\* the last death, and what else is there is windows of the older one, whose CSV and
\* labels are both there.
THEOREM RewrittenScenariosLoad == Spec => []RewrittenLoads
<1>1. ASSUME FilesInv, ChainInv PROVE RewrittenLoads
  <2> SUFFICES ASSUME stage = "done"
               PROVE  \E loaded \in LoadManifest :
                         /\ loaded.request = request /\ loaded.root = scenario.root
                         /\ loaded.reserves = scenario.reserves
                         /\ SubSeq(loaded.windows, 1, request.blocks) = scenario.windows
                         /\ \A i \in request.blocks + 1..Len(loaded.windows) :
                               \E n \in DOMAIN older : loaded.windows[i] = older[n].scenario.windows[i]
    BY DEF RewrittenLoads
  <2> DEFINE b == Len(scenario.windows)
             l == Len(OlderWindows)
             m == IF l > b THEN l ELSE b
             Win(i) == [old |-> dir[Meta(i)].old, new |-> dir[Meta(i)].new, deltas |-> dir[Csv(i)].list]
             windows == [i \in 1..m |-> Win(i)]
             loaded == [request |-> dir[Manifest].request, root |-> dir[Manifest].root,
                        reserves |-> dir[Reserve].list, windows |-> windows]
  <2>0. stage # "generating"
    OBVIOUS
  <2>1. b \in 0..MaxBlocks /\ l \in 0..MaxBlocks /\ MaxBlocks \in Nat /\ request.blocks = b
    BY <1>1, <2>0, WritesFacts, StartFiles, ChainAssumption DEF FilesInv
  <2>2. \A i \in 1..Len(Writes) : dir[Writes[i][1]] = Writes[i][2]
    <3>1. PICK k \in Nat : Reached(k) /\ k = Len(Writes)
      BY <1>1, <2>0 DEF FilesInv
    <3>2. QED
      BY <3>1 DEF Reached
  <2>3. \A i \in 1..Len(Writes) - 1 : dir[Writes[i][1]] = Writes[i][2]
    <3>1. Len(Writes) \in Nat
      BY <1>1, <2>0, WritesFacts
    <3>2. QED
      BY <2>2, <3>1
  <2>4. dir[Manifest] = ManifestFile(request, scenario.root)
    <3>1. /\ Len(Writes) \in Nat /\ Len(Writes) >= 2
          /\ Writes[Len(Writes)] = <<Manifest, ManifestFile(request, scenario.root)>>
      BY <1>1, <2>0, WritesFacts
    <3>2. Len(Writes) \in 1..Len(Writes)
      BY <3>1
    <3>3. QED
      BY <2>2, <3>1, <3>2
  <2>5. dir[Reserve] = ListFile(scenario.reserves)
    BY <1>1, <2>0, <2>3, WholeFiles
  <2>6. ASSUME NEW i \in 1..b
        PROVE  /\ dir[Csv(i)] = ListFile(scenario.windows[i].deltas)
               /\ dir[Meta(i)] = MetaFile(scenario.windows[i].old, scenario.windows[i].new)
    BY <1>1, <2>0, <2>3, WholeFiles
  <2>7. ASSUME NEW i \in 1..m, i > b
        PROVE  /\ dir[Csv(i)] = ListFile(OlderWindows[i].deltas)
               /\ dir[Meta(i)] = MetaFile(OlderWindows[i].old, OlderWindows[i].new)
               /\ OlderWindows[i] = [old |-> OlderWindows[i].old, new |-> OlderWindows[i].new,
                                     deltas |-> OlderWindows[i].deltas]
               /\ \E n \in DOMAIN older : OlderWindows[i] = older[n].scenario.windows[i]
    <3>1. i \in 1..l /\ i \in 1..MaxBlocks
      BY <2>1, <2>7
    <3>2. dir[Csv(i)] = StartDir[Csv(i)] /\ dir[Meta(i)] = StartDir[Meta(i)]
      BY <1>1, <2>0, <2>3, <2>7, <3>1, WholeFiles
    <3>3. QED
      BY <1>1, <3>1, <3>2, StartFiles
  <2>8. WindowCount = m
    BY <1>1, <2>0, <2>3, WholeCount
  <2>9. scenario.windows \in Seq(ClosedWindows)
    BY <1>1 DEF ChainInv
  <2>10. m \in Nat /\ b <= m /\ b \in Nat
    BY <2>1
  <2>11. ASSUME NEW i \in 1..b PROVE Win(i) = scenario.windows[i]
    <3>1. scenario.windows[i] \in ClosedWindows
      BY <2>9
    <3>2. scenario.windows[i] = [old |-> scenario.windows[i].old, new |-> scenario.windows[i].new,
                                 deltas |-> scenario.windows[i].deltas]
      BY <3>1 DEF ClosedWindows
    <3>a. /\ dir[Csv(i)] = ListFile(scenario.windows[i].deltas)
          /\ dir[Meta(i)] = MetaFile(scenario.windows[i].old, scenario.windows[i].new)
      BY <2>6
    <3>3. dir[Csv(i)].list = scenario.windows[i].deltas
      BY <3>a DEF ListFile
    <3>4. dir[Meta(i)].old = scenario.windows[i].old /\ dir[Meta(i)].new = scenario.windows[i].new
      BY <3>a DEF MetaFile
    <3>5. QED
      BY <3>2, <3>3, <3>4
  <2>12. ASSUME NEW i \in 1..m, i > b
         PROVE  \E n \in DOMAIN older : Win(i) = older[n].scenario.windows[i]
    <3>a. /\ dir[Csv(i)] = ListFile(OlderWindows[i].deltas)
          /\ dir[Meta(i)] = MetaFile(OlderWindows[i].old, OlderWindows[i].new)
      BY <2>7, <2>12
    <3>1. dir[Csv(i)].list = OlderWindows[i].deltas
      BY <3>a DEF ListFile
    <3>2. dir[Meta(i)].old = OlderWindows[i].old /\ dir[Meta(i)].new = OlderWindows[i].new
      BY <3>a DEF MetaFile
    <3>3. Win(i) = OlderWindows[i]
      BY <2>7, <2>12, <3>1, <3>2
    <3>4. QED
      BY <2>7, <2>12, <3>3
  <2>13. \A i \in 1..m : dir[Csv(i)].kind = "list" /\ dir[Meta(i)].kind = "meta"
    <3>1. ASSUME NEW i \in 1..m PROVE dir[Csv(i)].kind = "list" /\ dir[Meta(i)].kind = "meta"
      <4>1. \E list, old, new : dir[Csv(i)] = ListFile(list) /\ dir[Meta(i)] = MetaFile(old, new)
        <5>1. CASE i > b
          <6>1. /\ dir[Csv(i)] = ListFile(OlderWindows[i].deltas)
                /\ dir[Meta(i)] = MetaFile(OlderWindows[i].old, OlderWindows[i].new)
            BY <2>7, <5>1
          <6>2. QED
            BY <6>1
        <5>2. CASE ~(i > b)
          <6>1. i \in 1..b
            BY <2>10, <5>2
          <6>2. QED
            BY <2>6, <6>1
        <5>3. QED
          BY <5>1, <5>2
      <4>2. QED
        BY <4>1 DEF ListFile, MetaFile
    <3>2. QED
      BY <3>1
  <2>14. loaded \in LoadManifest
    <3>1. dir[Manifest].kind = "manifest" /\ dir[Reserve].kind = "list"
      BY <2>4, <2>5 DEF ManifestFile, ListFile
    <3>2. QED
      BY <2>8, <2>13, <3>1 DEF LoadManifest
  <2>15. loaded.request = request /\ loaded.root = scenario.root /\ loaded.reserves = scenario.reserves
    BY <2>4, <2>5 DEF ManifestFile, ListFile
  <2>16. loaded.windows = windows
    OBVIOUS
  <2>17. windows = [i \in 1..m |-> Win(i)]
    OBVIOUS
  <2> HIDE DEF loaded, windows, Win, b, l, m
  <2>18. Len(windows) = m /\ \A i \in 1..m : windows[i] = Win(i)
    BY <2>10, <2>17
  <2>19. SubSeq(windows, 1, b) = scenario.windows
    <3> DEFINE S == {Win(i) : i \in 1..m}
               cut == SubSeq(windows, 1, b)
    <3>1. \A i \in 1..b : windows[i] \in S
      BY <2>10, <2>18
    <3>2. 1 \in Int /\ b \in Int
      BY <2>10
    <3>3. /\ cut \in Seq(S) /\ Len(cut) = IF 1 <= b THEN b - 1 + 1 ELSE 0
          /\ \A i \in 1..b - 1 + 1 : cut[i] = windows[1 + i - 1]
      BY <3>1, <3>2, SubSeqProperties
    <3> HIDE DEF cut
    <3>4. Len(cut) = b /\ \A i \in 1..b : cut[i] = windows[i]
      BY <2>10, <3>3
    <3>5. \A i \in 1..b : cut[i] = scenario.windows[i]
      BY <2>10, <2>11, <2>18, <3>4
    <3>6. cut = scenario.windows
      <4>1. cut = [i \in 1..b |-> cut[i]]
        BY <3>3, <3>4
      <4>2. scenario.windows = [i \in 1..b |-> scenario.windows[i]]
        BY <2>9 DEF b
      <4>3. QED
        BY <3>5, <4>1, <4>2
    <3>7. QED
      BY <3>6 DEF cut
  <2>20. \A i \in b + 1..m : \E n \in DOMAIN older : windows[i] = older[n].scenario.windows[i]
    <3>1. \A i \in b + 1..m : i \in 1..m /\ i > b
      BY <2>10
    <3>2. QED
      BY <2>12, <2>18, <3>1
  <2>21. QED
    BY <2>1, <2>14, <2>15, <2>16, <2>18, <2>19, <2>20
<1>2. QED
  BY <1>1, FilesCorrect, LinkedCorrect, PTL

-----------------------------------------------------------------------------
(* mock-bench *)

\* The last states after the first windows.
IsBench(p, loaded) ==
    /\ p[0] = BenchStart(loaded)
    /\ \A i \in 1..Len(loaded.windows) : p[i] = BenchWindow(p[i - 1], loaded.windows[i])

\* mock-bench goes from one window to the next.
LEMMA BenchDef ==
    ASSUME NEW loaded, Len(loaded.windows) \in Nat
    PROVE  \E p : IsBench(p, loaded) /\ Bench(loaded) = p[Len(loaded.windows)]
<1> DEFINE n == Len(loaded.windows)
           Passed(v, i) == BenchWindow(v, loaded.windows[i])
           Value(s, i) == IF i = 0 THEN BenchStart(loaded) ELSE Passed(s[i - 1], i)
           Solves(s, m) == \A i \in 0..m : s[i] = Value(s, i)
           T == {m \in 0..n : \E s : Solves(s, m)}
<1>0. n \in Nat
  OBVIOUS
<1>p. Bench(loaded) = (CHOOSE s : s = [i \in 0..n |-> Value(s, i)])[n]
  BY DEF Bench
<1>q. ASSUME NEW p, p[0] = BenchStart(loaded), \A i \in 1..n : p[i] = Passed(p[i - 1], i) PROVE IsBench(p, loaded)
  BY <1>q DEF IsBench
<1> HIDE DEF Passed, n
<1>1. 0 \in T
  <2> DEFINE s == [i \in 0..0 |-> BenchStart(loaded)]
  <2>1. Solves(s, 0)
    OBVIOUS
  <2> HIDE DEF s, Solves
  <2>2. \E z : Solves(z, 0)
    BY <2>1
  <2>3. QED
    BY <1>0, <2>2
<1>2. ASSUME NEW m \in 0..(n - 1), m \in T PROVE m + 1 \in T
  <2>1. PICK s : Solves(s, m)
    BY <1>2
  <2> DEFINE t == [i \in 0..(m + 1) |-> IF i = m + 1 THEN Passed(s[m], m + 1) ELSE s[i]]
  <2>2. Solves(t, m + 1)
    <3> SUFFICES ASSUME NEW i \in 0..(m + 1) PROVE t[i] = Value(t, i)
      OBVIOUS
    <3>1. CASE i = m + 1
      <4>1. i # 0 /\ i - 1 = m /\ m # m + 1 /\ m \in 0..(m + 1)
        BY <1>0, <3>1
      <4>2. t[i] = Passed(s[m], m + 1) /\ t[i - 1] = s[m]
        BY <3>1, <4>1
      <4>3. QED
        BY <3>1, <4>1, <4>2
    <3>2. CASE i \in 0..m
      <4>1. s[i] = Value(s, i)
        BY <2>1, <3>2
      <4>2. t[i] = s[i]
        BY <1>0, <3>2
      <4>3. CASE i = 0
        BY <4>1, <4>2, <4>3
      <4>4. CASE i # 0
        <5>1. t[i - 1] = s[i - 1]
          BY <1>0, <3>2, <4>4
        <5>2. QED
          BY <4>1, <4>2, <4>4, <5>1
      <4>5. QED
        BY <4>3, <4>4
    <3>3. QED
      BY <1>0, <3>1, <3>2
  <2> HIDE DEF t, Solves
  <2>3. \E z : Solves(z, m + 1)
    BY <2>2
  <2>4. QED
    BY <1>0, <2>3
<1>3. 0..n \subseteq T
  <2> HIDE DEF T
  <2>1. QED
    BY <1>0, <1>1, <1>2, UpToInduction
<1>4. PICK s : Solves(s, n)
  <2>1. n \in T
    <3> HIDE DEF T
    <3>1. n \in 0..n
      BY <1>0
    <3>2. QED
      BY <1>3, <3>1
  <2> HIDE DEF Solves
  <2>2. QED
    BY <2>1
<1> DEFINE r == [i \in 0..n |-> s[i]]
<1>5. r = [i \in 0..n |-> Value(r, i)]
  <2>1. ASSUME NEW i \in 0..n PROVE r[i] = Value(r, i)
    <3>1. s[i] = Value(s, i)
      BY <1>4
    <3>2. CASE i = 0
      BY <3>1, <3>2
    <3>3. CASE i # 0
      <4>1. r[i - 1] = s[i - 1]
        BY <1>0, <3>3
      <4>2. QED
        BY <3>1, <3>3, <4>1
    <3>4. QED
      BY <3>2, <3>3
  <2>2. r = [i \in 0..n |-> r[i]]
    OBVIOUS
  <2> HIDE DEF r, Value
  <2>3. QED
    BY <2>1, <2>2
<1> HIDE DEF r
<1> DEFINE p == CHOOSE z : z = [i \in 0..n |-> Value(z, i)]
           step == [i \in 0..n |-> Value(p, i)]
<1>6. p = step
  BY <1>5
<1>7. Bench(loaded) = p[n]
  BY <1>p
<1> HIDE DEF p
<1>a. \A i \in 0..n : step[i] = Value(p, i)
  OBVIOUS
<1> HIDE DEF step, Value
<1>8. step[0] = BenchStart(loaded)
  <2>1. 0 \in 0..n
    BY <1>0
  <2>2. step[0] = Value(p, 0)
    BY <1>a, <2>1
  <2>3. QED
    BY <2>2 DEF Value
<1>9. ASSUME NEW i \in 1..n PROVE step[i] = Passed(p[i - 1], i)
  <2>1. i \in 0..n /\ i # 0
    BY <1>0
  <2>2. step[i] = Value(p, i)
    BY <1>a, <2>1
  <2>3. QED
    BY <2>1, <2>2 DEF Value
<1>10. p[0] = BenchStart(loaded) /\ \A i \in 1..n : p[i] = Passed(p[i - 1], i)
  BY <1>6, <1>8, <1>9
<1>11. IsBench(p, loaded)
  BY <1>10, <1>q
<1>12. QED
  BY <1>7, <1>11 DEF n

\* The money of the accounts fits an i128: the balances are 5000..49999, and
\* there are at most 2^64 accounts.
MoneyFits == \A b \in InitialBalances : N * b <= MaxI128

\* The amounts of some accounts, and what they sum up to.
Part(h, R) == [a \in R |-> h[a]]
PartTotal(h, R) == Total(OrZero(Part(h, R)))
Affordable(h) == h \in Holdings /\ Total(OrZero(h)) <= MaxI128

\* What some of the accounts hold is at most what all of them do.
LEMMA PartFits ==
    ASSUME job \in Jobs, NEW h, Affordable(h), NEW R \in SUBSET Accounts
    PROVE  /\ OrZero(Part(h, R)) \in [Address -> Int]
           /\ PartTotal(h, R) \in Int
           /\ \A n \in 0..N : /\ PartialSums(OrZero(Part(h, R)))[n] \in Int
                              /\ 0 <= PartialSums(OrZero(Part(h, R)))[n]
                              /\ PartialSums(OrZero(Part(h, R)))[n] <= MaxI128
           /\ 0 <= PartTotal(h, R) /\ PartTotal(h, R) <= MaxI128
           /\ InI128(PartTotal(h, R)) /\ SumFits(OrZero(Part(h, R)))
<1> DEFINE S == Accounts \ R
           f == OrZero(Part(h, R))
           g == OrZero(Part(h, S))
           e == OrZero(h)
<1>1. Accounts \subseteq Address /\ h \in [Accounts -> Nat]
  BY HoldingsAreAmounts DEF Affordable, Holdings
<1>2. \A a \in Accounts : h[a] \in Nat
  BY <1>1
<1>3. Part(h, R) \in [R -> Int] /\ Part(h, S) \in [S -> Int] /\ h \in [Accounts -> Int]
  BY <1>1, <1>2 DEF Part
<1>4. R \in SUBSET Address /\ S \in SUBSET Address /\ Accounts \in SUBSET Address
  BY <1>1
<1>5. f \in [Address -> Int] /\ g \in [Address -> Int] /\ e \in [Address -> Int]
  BY <1>3, <1>4, OrZeroType
<1>6. \A a \in Address : f[a] >= 0 /\ g[a] >= 0 /\ e[a] = f[a] + g[a]
  BY <1>1, <1>2 DEF OrZero, Part
<1> HIDE DEF f, g, e
<1>7. Total(e) = Total(f) + Total(g)
  BY <1>5, <1>6, TotalAdds
<1>8. N \in 0..N /\ N \in Nat /\ MaxI128 \in Nat
  BY NAssumption, WidthAssumption
<1>9. 0 <= Total(g)
  BY <1>5, <1>6, <1>8, PartialSumsGrow DEF Total
<1>10. Total(f) \in Int /\ Total(g) \in Int /\ Total(e) \in Int
  BY <1>5, TotalType
<1>11. Total(e) <= MaxI128
  BY DEF Affordable, e
<1>12. Total(f) <= MaxI128
  BY <1>7, <1>8, <1>9, <1>10, <1>11
<1>13. ASSUME NEW n \in 0..N
       PROVE  PartialSums(f)[n] \in Int /\ 0 <= PartialSums(f)[n] /\ PartialSums(f)[n] <= MaxI128
  <2>1. 0 <= PartialSums(f)[n] /\ PartialSums(f)[n] <= Total(f)
    BY <1>5, <1>6, PartialSumsGrow
  <2>2. PartialSums(f)[n] \in Int
    BY <1>5, PartialSumsDef
  <2>3. QED
    BY <1>8, <1>10, <1>12, <2>1, <2>2
<1>14. \A n \in 0..N : InI128(PartialSums(f)[n])
  BY <1>8, <1>13 DEF InI128
<1>15. Total(f) = PartialSums(f)[N]
  BY DEF Total
<1>16. PartTotal(h, R) = Total(f)
  BY DEF PartTotal, f
<1>17. QED
  BY <1>5, <1>8, <1>10, <1>13, <1>14, <1>15, <1>16 DEF SumFits, f

\* What moved some accounts from one root to another fits an i128 at every step of
\* its sum, which is the difference of what they hold.
LEMMA MoveFits ==
    ASSUME job \in Jobs, NEW h, Affordable(h), NEW k, Affordable(k), NEW R \in SUBSET Accounts,
           NEW d \in AmountLists, \A a \in Accounts : k[a] = h[a] + OrZero(d)[a]
    PROVE  LET e == Part(d, DOMAIN d \cap R)
           IN /\ SumFits(OrZero(e))
              /\ Total(OrZero(e)) \in Int /\ InI128(Total(OrZero(e)))
              /\ PartTotal(k, R) = PartTotal(h, R) + Total(OrZero(e))
<1> DEFINE S == DOMAIN d \cap R
           e == OrZero(Part(d, S))
           f == OrZero(Part(h, R))
           g == OrZero(Part(k, R))
<1>1. Accounts \subseteq Address /\ DOMAIN d \subseteq Address /\ d \in [DOMAIN d -> Int]
  BY HoldingsAreAmounts, AmountListType
<1>2. Part(d, S) \in [S -> Int] /\ S \in SUBSET Address
  BY <1>1 DEF Part
<1>3. e \in [Address -> Int]
  BY <1>2, OrZeroType
<1>4. /\ f \in [Address -> Int] /\ g \in [Address -> Int]
      /\ \A n \in 0..N : /\ PartialSums(f)[n] \in Int /\ PartialSums(g)[n] \in Int
                         /\ 0 <= PartialSums(f)[n] /\ PartialSums(f)[n] <= MaxI128
                         /\ 0 <= PartialSums(g)[n] /\ PartialSums(g)[n] <= MaxI128
  BY PartFits
<1>5. \A a \in Address : g[a] = f[a] + e[a]
  <2> SUFFICES ASSUME NEW a \in Address PROVE g[a] = f[a] + e[a]
    OBVIOUS
  <2>1. CASE a \in R
    <3>1. a \in Accounts /\ k[a] = h[a] + OrZero(d)[a]
      BY <2>1
    <3>2. f[a] = h[a] /\ g[a] = k[a]
      BY <2>1 DEF OrZero, Part
    <3>3. e[a] = OrZero(d)[a]
      BY <2>1 DEF OrZero, Part
    <3>4. QED
      BY <3>1, <3>2, <3>3
  <2>2. CASE a \notin R
    BY <2>2 DEF OrZero, Part
  <2>3. QED
    BY <2>1, <2>2
<1> HIDE DEF e, f, g
<1>6. ASSUME NEW n \in 0..N
      PROVE  /\ PartialSums(g)[n] = PartialSums(f)[n] + PartialSums(e)[n]
             /\ PartialSums(e)[n] \in Int /\ InI128(PartialSums(e)[n])
  <2>1. PartialSums(g)[n] = PartialSums(f)[n] + PartialSums(e)[n]
    BY <1>3, <1>4, <1>5, PartialSumsAdd
  <2>2. PartialSums(e)[n] \in Int
    BY <1>3, PartialSumsDef
  <2>3. QED
    BY <1>4, <2>1, <2>2, WidthAssumption DEF InI128
<1>7. N \in 0..N
  BY NAssumption
<1>8. SumFits(e) /\ Total(e) \in Int /\ InI128(Total(e)) /\ Total(g) = Total(f) + Total(e)
  BY <1>6, <1>7 DEF SumFits, Total
<1>9. QED
  BY <1>8 DEF e, f, g, S, PartTotal

\* A state of the chain's reserves at a root.
AtRoot(s, h) ==
    /\ s.poly = ReservePoly(scenario.reserves) /\ s.degree = MaxDegree
    /\ s.label = h /\ s.total = PartTotal(h, DOMAIN scenario.reserves)

\* What was drawn, and what is hashed: the reserves are some accounts, all the money
\* fits, and what the last block moved is in its window.
Drawn ==
    /\ scenario.reserves \in Reserves /\ DOMAIN scenario.reserves # {}
    /\ Total(OrZero(scenario.root)) <= MaxI128
    /\ \A i \in 1..Len(scenario.windows) :
          Total(OrZero(scenario.windows[i].new)) = Total(OrZero(scenario.root))
    /\ Len(scenario.windows) = request.blocks => deltaMap = NoDeltas

\* The SRS is for as many addresses as there are.
LargeEnough == MaxDegree \in Nat /\ N <= MaxDegree

\* Any set of addresses is then within its degree.
LEMMA AddressesFit ==
    ASSUME LargeEnough, NEW S \in SUBSET Address
    PROVE  Cardinality(S) \in Nat /\ Cardinality(S) <= MaxDegree
<1>1. N \in Nat /\ 1 \in Int /\ N \in Int
  BY NAssumption
<1>2. IsFiniteSet(Address) /\ Cardinality(Address) = N
  <2>1. IsFiniteSet(1..N) /\ Cardinality(1..N) = IF 1 > N THEN 0 ELSE N - 1 + 1
    BY <1>1, FS_Interval
  <2>2. QED
    BY <1>1, <2>1 DEF Address
<1>3. IsFiniteSet(S) /\ Cardinality(S) <= Cardinality(Address)
  BY <1>2, FS_Subset
<1>4. Cardinality(S) \in Nat
  BY <1>3, FS_CardinalityType
<1>5. QED
  BY <1>1, <1>2, <1>3, <1>4 DEF LargeEnough

\* The bench starts with the state of the first root.
LEMMA BenchStarts ==
    ASSUME LargeEnough, ChainInv, Linked, Drawn,
           NEW loaded, loaded.reserves = scenario.reserves, loaded.root = scenario.root
    PROVE  \E s : BenchStart(loaded) = {s} /\ AtRoot(s, scenario.root)
<1> DEFINE r == scenario.reserves
           R == DOMAIN scenario.reserves
           h == scenario.root
           srs == WholeSrs(MaxDegree)
           s == InitialState(r, h, srs)
           total == Wrap(Total(OrZero(r)))
<1>1. BenchStart(loaded) = {t \in {s} : Initializes(r, h, srs)}
  BY DEF BenchStart
<1>2. R \in SUBSET Accounts /\ r = Part(h, R) /\ Affordable(h) /\ job \in Jobs
  BY DEF Linked, Part, Affordable, Drawn, ChainInv
<1>3. SumFits(OrZero(r)) /\ Total(OrZero(r)) = PartTotal(h, R) /\ PartTotal(h, R) \in Int
      /\ InI128(PartTotal(h, R))
  BY <1>2, PartFits DEF PartTotal
<1>4. total = PartTotal(h, R)
  BY <1>3, WrapInRange
<1>5. /\ s.label = h /\ s.degree = srs.degree /\ s.poly = ReservePoly(r) /\ s.total = total
  BY DEF InitialState, ReservePoly
<1>6. srs.degree = MaxDegree
  BY DEF WholeSrs
<1>7. R \in SUBSET Address
  BY <1>2, HoldingsAreAmounts
<1>8. Cardinality(R) \in Nat /\ Cardinality(R) <= MaxDegree /\ MaxDegree \in Nat
  BY <1>7, AddressesFit DEF LargeEnough
<1> HIDE DEF s, total
<1>9. Commits(s.poly, srs, srs.g1) = "ok"
  <2>1. r \in Reserves
    BY DEF Drawn
  <2>2. ReservePoly(r) \in Coeffs /\ Len(ReservePoly(r)) <= Cardinality(R) + 1
    BY <2>1, ReservePolyType, PolynomialsType
  <2>3. Suffices(srs, Cardinality(R))
    BY <1>8, WholeSuffices
  <2> HIDE DEF srs
  <2>4. QED
    BY <1>5, <1>8, <2>2, <2>3, SufficientCommits
<1>10. Initializes(r, h, srs)
  BY <1>3, <1>9 DEF Initializes, Drawn, s
<1>11. BenchStart(loaded) = {s}
  BY <1>1, <1>10
<1>12. AtRoot(s, h)
  BY <1>4, <1>5, <1>6 DEF AtRoot
<1>13. QED
  BY <1>11, <1>12

\* A window takes the state of a root to that of the next, or none if it is empty.
LEMMA BenchPasses ==
    ASSUME WindowsListed, LargeEnough, ChainInv, Linked, Drawn,
           NEW w, NEW h, Follows(w, h), Affordable(h), Affordable(w.new),
           NEW s, AtRoot(s, h)
    PROVE  IF DOMAIN w.deltas = {} THEN BenchWindow({s}, w) = {}
           ELSE \E n : BenchWindow({s}, w) = {n} /\ AtRoot(n, w.new)
<1> DEFINE r == scenario.reserves
           R == DOMAIN scenario.reserves
           d == w.deltas
           k == w.new
           srs == WholeSrs(MaxDegree)
           owed == Total(OrZero([a \in DOMAIN d \cap R |-> d[a]]))
           proof == UpdateProof(s, d, k)
           new == NextState(s, proof)
           Verified(t, p) == {n \in {NextState(t, p)} : VerifyUpdate(srs, t, d, n, p)}
           Updated(t) == UNION {Verified(t, p) : p \in {UpdateProof(t, d, k)}}
<1>1. BenchWindow({s}, w) = UNION {Updated(t) : t \in {x \in {s} : Applies(x, d, srs)}}
  BY DEF BenchWindow
<1>2. /\ r \in Reserves /\ R \in SUBSET Accounts /\ job \in Jobs
      /\ d \in NonzeroLists /\ d \in AmountLists /\ d \in Windows
      /\ \A a \in Accounts : k[a] = h[a] + OrZero(d)[a]
  BY DEF Drawn, Linked, ChainInv, Follows, NonzeroLists, Balanced, WindowsListed
<1>3. R \in SUBSET Address /\ DOMAIN d \in SUBSET Address
  BY <1>2, HoldingsAreAmounts, AmountListType
<1>4. /\ Cardinality(R) \in Nat /\ Cardinality(R) <= MaxDegree
      /\ Cardinality(DOMAIN d) \in Nat /\ Cardinality(DOMAIN d) <= MaxDegree /\ MaxDegree \in Nat
  BY <1>3, AddressesFit DEF LargeEnough
<1>5. /\ s.poly = ReservePoly(r) /\ s.degree = MaxDegree /\ s.label = h /\ s.total = PartTotal(h, R)
  BY DEF AtRoot
<1>6. CASE DOMAIN d = {}
  <2>1. s.poly \in Polynomials /\ Len(s.poly) <= MaxDegree + 1
    <3>1. Len(ReservePoly(r)) \in Nat /\ ReservePoly(r) \in Polynomials
          /\ Len(ReservePoly(r)) <= Cardinality(R) + 1
      BY <1>2, ReservePolyType, PolynomialsType DEF Coeffs
    <3>2. QED
      BY <1>4, <1>5, <3>1
  <2>2. ~Opens(s.poly, d, srs)
    BY <1>2, <1>4, <1>6, <2>1, WindowOpens
  <2>3. ~Applies(s, d, srs)
    BY <2>2 DEF Applies
  <2> HIDE DEF Updated, srs, d
  <2>4. {x \in {s} : Applies(x, d, srs)} = {}
    BY <2>3
  <2>5. BenchWindow({s}, w) = {}
    BY <1>1, <2>4
  <2>6. QED
    BY <1>6, <2>5 DEF d
<1>7. CASE DOMAIN d # {}
  <2>1. /\ SumFits(OrZero([a \in DOMAIN d \cap R |-> d[a]]))
        /\ owed \in Int /\ InI128(owed) /\ PartTotal(k, R) = PartTotal(h, R) + owed
    <3>1. Affordable(h) /\ Affordable(k)
      OBVIOUS
    <3>2. [a \in DOMAIN d \cap R |-> d[a]] = Part(d, DOMAIN d \cap R)
      BY DEF Part
    <3> HIDE DEF d, k, R
    <3>3. LET e == Part(d, DOMAIN d \cap R)
          IN /\ SumFits(OrZero(e))
             /\ Total(OrZero(e)) \in Int /\ InI128(Total(OrZero(e)))
             /\ PartTotal(k, R) = PartTotal(h, R) + Total(OrZero(e))
      BY <1>2, <3>1, MoveFits
    <3>4. QED
      BY <3>2, <3>3
  <2>2. PartTotal(h, R) \in Int /\ InI128(PartTotal(k, R))
    BY <1>2, PartFits
  <2>3. s.total \in Int /\ InI128(s.total + owed)
    BY <1>5, <2>1, <2>2
  <2>4. GoesThrough(MaxDegree, s, d, k, owed)
    BY <1>2, <1>4, <1>5, <1>7, <2>1, <2>3, WindowGoesThrough
  <2>5. /\ Applies(s, d, srs)
        /\ VerifyUpdate(srs, s, d, new, proof)
        /\ new.label = k /\ new.poly = s.poly /\ new.degree = s.degree
        /\ new.total = s.total + owed
    BY <2>4 DEF GoesThrough
  <2> HIDE DEF srs, d, owed, k
  <2>6. Updated(s) = {new}
    <3>1. Updated(s) = Verified(s, proof)
      OBVIOUS
    <3> HIDE DEF new
    <3>2. Verified(s, proof) = {new}
      BY <2>5 DEF new
    <3>3. QED
      BY <3>1, <3>2
  <2> HIDE DEF Updated, new, proof
  <2>7. {x \in {s} : Applies(x, d, srs)} = {s}
    BY <2>5
  <2>8. BenchWindow({s}, w) = {new}
    BY <1>1, <2>6, <2>7
  <2>9. AtRoot(new, k)
    BY <1>5, <2>1, <2>5 DEF AtRoot
  <2>10. QED
    BY <1>7, <2>8, <2>9 DEF d, k
<1>8. QED
  BY <1>6, <1>7

\* The initial balances fit.
LEMMA DrawnFits ==
    ASSUME MoneyFits, job \in Jobs, NEW h \in [Accounts -> InitialBalances]
    PROVE  Total(OrZero(h)) <= MaxI128
<1>1. N \in Nat /\ MaxI128 \in Nat
  BY NAssumption, WidthAssumption
<1>2. \A a \in Accounts : h[a] \in Nat /\ h[a] \in Int /\ N * h[a] <= MaxI128
  <2>1. InitialBalances \subseteq Nat
    BY ChainAssumption
  <2>2. ASSUME NEW a \in Accounts PROVE h[a] \in Nat /\ h[a] \in Int /\ N * h[a] <= MaxI128
    <3>1. h[a] \in InitialBalances
      OBVIOUS
    <3>2. N * h[a] <= MaxI128
      <4> DEFINE v == h[a]
      <4>1. v \in InitialBalances
        BY <3>1
      <4> HIDE DEF v
      <4>2. N * v <= MaxI128
        BY <4>1, Zenon DEF MoneyFits
      <4>3. QED
        BY <4>2 DEF v
    <3>3. h[a] \in Nat /\ h[a] \in Int
      <4> DEFINE v == h[a]
      <4>1. v \in Nat
        BY <2>1, <3>1
      <4> HIDE DEF v
      <4>2. v \in Int
        BY <4>1
      <4>3. QED
        BY <4>1, <4>2 DEF v
    <3>4. QED
      BY <3>2, <3>3, Zenon
  <2>3. QED
    BY <2>2, Zenon
<1>3. Accounts \in SUBSET Address /\ h \in [Accounts -> Int]
  BY <1>2, HoldingsAreAmounts
<1> DEFINE f == OrZero(h)
<1>4. f \in [Address -> Int]
  BY <1>3, OrZeroType
<1>5. \A a \in Address : f[a] \in Nat /\ N * f[a] <= MaxI128
  <2>1. N * 0 = 0
    BY <1>1
  <2>2. QED
    BY <1>1, <1>2, <2>1 DEF OrZero
<1> HIDE DEF f
<1>6. CASE N = 0
  <2>1. 0 \in Nat /\ \A a \in Address : -0 <= f[a] /\ f[a] <= 0
    BY <1>6 DEF Address
  <2>2. Total(f) <= N * 0
    BY <1>4, <2>1, TotalIsBounded
  <2>3. Total(f) \in Int
    BY <1>4, TotalType
  <2>4. QED
    BY <1>1, <2>2, <2>3 DEF f
<1>7. CASE N # 0
  <2> DEFINE b == MaxI128 \div N
  <2>1. b \in Nat /\ N * b <= MaxI128
    BY <1>1, <1>7
  <2>2. ASSUME NEW v \in Nat, N * v <= MaxI128 PROVE v <= b
    <3>1. MaxI128 < N * b + N
      BY <1>1, <1>7
    <3> HIDE DEF b
    <3>2. CASE v <= b
      BY <3>2
    <3>3. CASE b + 1 <= v
      <4>1. PICK c \in Nat : v = b + 1 + c
        <5>1. v - (b + 1) \in Nat /\ v = b + 1 + (v - (b + 1))
          BY <2>1, <2>2, <3>3
        <5>2. QED
          BY <5>1
      <4>2. N * v = N * b + N + N * c
        BY <1>1, <2>1, <4>1
      <4>3. N * c \in Nat /\ N * b \in Nat
        BY <1>1, <2>1
      <4>4. QED
        BY <1>1, <2>2, <3>1, <4>2, <4>3
    <3>4. QED
      BY <2>1, <2>2, <3>2, <3>3
  <2> HIDE DEF b
  <2>3. \A a \in Address : -b <= f[a] /\ f[a] <= b
    BY <1>5, <2>1, <2>2
  <2>4. Total(f) <= N * b
    BY <1>4, <2>1, <2>3, TotalIsBounded
  <2>5. Total(f) \in Int /\ N * b \in Int
    BY <1>1, <1>4, <2>1, TotalType
  <2>6. QED
    BY <1>1, <2>1, <2>4, <2>5 DEF f
<1>8. QED
  BY <1>6, <1>7

\* Drawn holds when the reserves have been drawn.
LEMMA DrawnInit ==
    ASSUME ReservesListed, MoneyFits, Init PROVE Drawn
<1>1. job \in Jobs /\ balances \in [Accounts -> InitialBalances] /\ deltaMap = NoDeltas
      /\ request.reserves \in 1..request.accounts
  BY DEF Init, request
<1>2. PICK R \in kSubset(request.reserves, Accounts) :
         scenario = [root |-> balances, reserves |-> [a \in R |-> balances[a]], windows |-> <<>>]
  BY DEF Init
<1>3. R # {}
  <2>1. Cardinality(R) = request.reserves
    BY DEF kSubset
  <2>2. request.reserves # 0
    BY <1>1
  <2>3. QED
    BY <2>1, <2>2, FS_EmptySet
<1>4. scenario.reserves \in Reserves
  BY DrawnReservesListed
<1>5. scenario.root = balances /\ scenario.windows = <<>> /\ DOMAIN scenario.reserves = R
  BY <1>2
<1>6. Total(OrZero(scenario.root)) <= MaxI128
  BY <1>1, <1>5, DrawnFits
<1>7. QED
  BY <1>1, <1>3, <1>4, <1>5, <1>6 DEF Drawn

\* A block that closes hashes the balances, which are all the money, and leaves an
\* empty one.
LEMMA DrawnNext ==
    ASSUME ChainInv, Drawn, [Next]_vars PROVE Drawn'
<1>1. CASE CloseBlock
  <2> DEFINE ws == scenario.windows
             n == Len(ws)
             w == [old |-> LastRoot, new |-> balances, deltas |-> Nonzero(deltaMap)]
  <2>1. /\ scenario'.windows = Append(ws, w) /\ scenario'.root = scenario.root
        /\ scenario'.reserves = scenario.reserves /\ deltaMap' = NoDeltas
    BY <1>1 DEF CloseBlock, ChainInv, Reopened
  <2>2. ws \in Seq(ClosedWindows)
    BY DEF ChainInv
  <2>3. w.new = balances
    OBVIOUS
  <2> HIDE DEF w
  <2>4. Len(scenario'.windows) = n + 1 /\ n \in Nat
        /\ \A i \in 1..n + 1 : scenario'.windows[i] = IF i <= n THEN ws[i] ELSE w
    BY <2>1, <2>2
  <2>5. ASSUME NEW i \in 1..n + 1
        PROVE  Total(OrZero(scenario'.windows[i].new)) = Total(OrZero(scenario.root))
    <3>1. CASE i <= n
      BY <2>4, <3>1 DEF Drawn
    <3>2. CASE ~(i <= n)
      BY <2>3, <2>4, <3>2 DEF ChainInv
    <3>3. QED
      BY <3>1, <3>2
  <2>6. QED
    BY <2>1, <2>4, <2>5 DEF Drawn
<1>2. CASE Pay
  <2>1. scenario' = scenario /\ job' = job /\ Len(scenario.windows) < request.blocks
    BY <1>2 DEF Pay, Generating
  <2>2. Len(scenario.windows) \in Nat /\ request.blocks \in Nat
    BY ChainAssumption DEF ChainInv, request
  <2>3. Len(scenario'.windows) # request'.blocks
    BY <2>1, <2>2 DEF request
  <2>4. QED
    BY <2>1, <2>3 DEF Drawn
<1>3. CASE ~CloseBlock /\ ~Pay
  <2>1. UNCHANGED <<job, deltaMap, scenario>>
    BY <1>3 DEF Next, Step, Draw, Redraw, StartWriting, Write, Exit, Crash, vars, chainVars
  <2>2. QED
    BY <2>1 DEF Drawn, request
<1>4. QED
  BY <1>1, <1>2, <1>3

\* mock-bench goes from root to root up to a window that cancelled out, where it stops.
RootAt(i) == IF i = 0 THEN scenario.root ELSE scenario.windows[i].new
CancelledOut(i) == DOMAIN scenario.windows[i].deltas = {}

\* On the scenario as it was written the benchmark ends at the last root, or nowhere.
LEMMA BenchRuns ==
    ASSUME WindowsListed, LargeEnough, ChainInv, Linked, Drawn, NEW loaded,
           loaded.reserves = scenario.reserves, loaded.root = scenario.root,
           loaded.windows = scenario.windows
    PROVE  IF \E i \in 1..Len(scenario.windows) : CancelledOut(i) THEN Bench(loaded) = {}
           ELSE \E s : Bench(loaded) = {s} /\ AtRoot(s, LastRoot)
<1> DEFINE ws == scenario.windows
           n == Len(ws)
<1>1. ws \in Seq(ClosedWindows) /\ n \in Nat
  BY DEF ChainInv
<1>2. PICK p : IsBench(p, loaded) /\ Bench(loaded) = p[n]
  BY <1>1, BenchDef
<1> DEFINE At(i) == IF \E j \in 1..i : CancelledOut(j) THEN p[i] = {}
                    ELSE \E s : p[i] = {s} /\ AtRoot(s, RootAt(i))
           T == {i \in 0..n : At(i)}
<1>3. \A i \in 0..n : Affordable(RootAt(i))
  <2> SUFFICES ASSUME NEW i \in 0..n PROVE Affordable(RootAt(i))
    OBVIOUS
  <2>1. CASE i = 0
    BY <2>1 DEF RootAt, Affordable, Drawn, ChainInv
  <2>2. CASE i # 0
    <3>1. i \in 1..n /\ ws[i] \in ClosedWindows
      BY <1>1, <2>2
    <3>2. ws[i].new \in Holdings /\ Total(OrZero(ws[i].new)) <= MaxI128
      BY <3>1 DEF ClosedWindows, Drawn
    <3>3. QED
      BY <2>2, <3>2 DEF RootAt, Affordable
  <2>3. QED
    BY <2>1, <2>2
<1>4. 0 \in T
  <2>1. \E s : BenchStart(loaded) = {s} /\ AtRoot(s, scenario.root)
    BY BenchStarts
  <2>2. At(0)
    BY <1>2, <2>1 DEF IsBench, RootAt
  <2>3. QED
    BY <1>1, <2>2
<1>5. ASSUME NEW i \in 0..(n - 1), i \in T PROVE i + 1 \in T
  <2> DEFINE k == i + 1
  <2>1. k \in 1..n /\ k - 1 = i /\ k \in 0..n /\ i \in 0..n /\ k # 0 /\ 1..k = 1..i \cup {k}
    BY <1>1
  <2>2. p[k] = BenchWindow(p[i], ws[k])
    BY <1>2, <2>1 DEF IsBench
  <2>3. Follows(ws[k], RootAt(i)) /\ ws[k].new = RootAt(k)
    BY <2>1 DEF Linked, RootBefore, RootAt
  <2>4. At(i)
    BY <1>5
  <2>5. Affordable(RootAt(i)) /\ Affordable(RootAt(k))
    BY <1>3, <2>1
  <2> HIDE DEF k
  <2>6. CASE \E j \in 1..i : CancelledOut(j)
    <3>1. p[i] = {} /\ \E j \in 1..k : CancelledOut(j)
      BY <2>1, <2>4, <2>6
    <3>2. BenchWindow({}, ws[k]) = {}
      BY DEF BenchWindow
    <3>3. QED
      BY <2>1, <2>2, <3>1, <3>2
  <2>7. CASE ~(\E j \in 1..i : CancelledOut(j))
    <3>1. PICK s : p[i] = {s} /\ AtRoot(s, RootAt(i))
      BY <2>4, <2>7
    <3>2. IF CancelledOut(k) THEN BenchWindow({s}, ws[k]) = {}
          ELSE \E m : BenchWindow({s}, ws[k]) = {m} /\ AtRoot(m, RootAt(k))
      <4> DEFINE h == RootAt(i)
      <4>1. Follows(ws[k], h) /\ Affordable(h) /\ Affordable(ws[k].new) /\ AtRoot(s, h)
        BY <2>3, <2>5, <3>1
      <4> HIDE DEF h
      <4>2. IF DOMAIN ws[k].deltas = {} THEN BenchWindow({s}, ws[k]) = {}
            ELSE \E m : BenchWindow({s}, ws[k]) = {m} /\ AtRoot(m, ws[k].new)
        BY <4>1, BenchPasses
      <4>3. QED
        BY <2>3, <4>2 DEF CancelledOut
    <3>3. (\E j \in 1..k : CancelledOut(j)) <=> CancelledOut(k)
      BY <2>1, <2>7
    <3>4. At(k)
      BY <2>2, <3>1, <3>2, <3>3
    <3>5. QED
      BY <2>1, <3>4 DEF k
  <2>8. QED
    BY <2>6, <2>7 DEF k
<1>6. At(n)
  <2> HIDE DEF At
  <2>1. \A i \in 0..(n - 1) : i \in T => i + 1 \in T
    BY <1>5
  <2>2. 0..n \subseteq T
    BY <1>1, <1>4, <2>1, UpToInduction
  <2>3. QED
    BY <1>1, <2>2
<1>7. RootAt(n) = LastRoot
  BY <1>1 DEF LastRoot, RootAt
<1>8. QED
  BY <1>2, <1>6, <1>7

\* The scenario that a process alone wrote is read back as it was generated.
LEMMA EndLoadsWhole ==
    ASSUME FilesInv, ChainInv, FreshLoadsWhole, stage = "done", older = <<>>,
           NEW loaded \in LoadManifest
    PROVE  /\ loaded.root = scenario.root /\ loaded.reserves = scenario.reserves
           /\ loaded.windows = scenario.windows
<1>1. dir[Manifest] = ManifestFile(request, scenario.root)
  <2>1. stage # "generating"
    OBVIOUS
  <2>2. PICK k \in Nat : Reached(k) /\ k = Len(Writes)
    BY <2>1 DEF FilesInv
  <2>3. /\ Len(Writes) \in Nat /\ Len(Writes) >= 2
        /\ Writes[Len(Writes)] = <<Manifest, ManifestFile(request, scenario.root)>>
    BY <2>1, WritesFacts
  <2>4. Len(Writes) \in 1..k
    BY <2>2, <2>3
  <2>5. dir[Writes[Len(Writes)][1]] = Writes[Len(Writes)][2]
    BY <2>2, <2>4 DEF Reached
  <2>6. QED
    BY <2>3, <2>5
<1>2. loaded.root = dir[Manifest].root
  BY DEF LoadManifest
<1>3. loaded.root = scenario.root
  BY <1>1, <1>2 DEF ManifestFile
<1>4. loaded = [request |-> request, root |-> loaded.root, reserves |-> scenario.reserves,
                windows |-> scenario.windows]
  BY <1>3 DEF FreshLoadsWhole
<1>5. QED
  BY <1>3, <1>4

\* What is read back is proved and verified window by window, to the last root and to
\* what the reserves hold at it, and stops at a window that cancelled out.
THEOREM BenchProvesChain ==
    ASSUME ReservesListed, WindowsListed, MoneyFits, LargeEnough
    PROVE  Spec => []BenchFollowsChain
<1>1. ASSUME ChainInv, Linked, Drawn, FilesInv, FreshLoadsWhole PROVE BenchFollowsChain
  <2> SUFFICES ASSUME stage = "done", older = <<>>, NEW loaded \in LoadManifest
               PROVE  IF \E i \in DOMAIN scenario.windows : DOMAIN scenario.windows[i].deltas = {}
                        THEN Bench(loaded) = {}
                        ELSE \E s \in Bench(loaded) :
                                /\ s.label = LastRoot
                                /\ s.total = Total(OrZero([a \in DOMAIN scenario.reserves |-> balances[a]]))
    BY DEF BenchFollowsChain
  <2>1. /\ loaded.root = scenario.root /\ loaded.reserves = scenario.reserves
        /\ loaded.windows = scenario.windows
    BY <1>1, EndLoadsWhole
  <2>2. IF \E i \in 1..Len(scenario.windows) : CancelledOut(i) THEN Bench(loaded) = {}
        ELSE \E s : Bench(loaded) = {s} /\ AtRoot(s, LastRoot)
    BY <1>1, <2>1, BenchRuns
  <2>3. DOMAIN scenario.windows = 1..Len(scenario.windows)
    BY <1>1 DEF ChainInv
  <2>4. [a \in DOMAIN scenario.reserves |-> balances[a]] = Part(LastRoot, DOMAIN scenario.reserves)
    <3>1. stage # "generating"
      OBVIOUS
    <3>2. deltaMap = NoDeltas
      BY <1>1, <3>1 DEF FilesInv, Drawn
    <3>3. ASSUME NEW a \in DOMAIN scenario.reserves PROVE balances[a] = LastRoot[a]
      <4>1. a \in Accounts /\ a \in Address
        BY <1>1, HoldingsAreAmounts DEF Linked, ChainInv
      <4>2. balances[a] = LastRoot[a] + OrZero(deltaMap)[a]
        BY <1>1, <4>1 DEF Linked
      <4>3. LastRoot[a] \in Nat
        BY <1>1, <4>1, LastRootType DEF Holdings
      <4>4. OrZero(deltaMap)[a] = 0
        BY <3>2, <4>1 DEF OrZero, NoDeltas
      <4>5. QED
        BY <4>2, <4>3, <4>4
    <3>4. QED
      BY <3>3 DEF Part
  <2>5. QED
    BY <2>2, <2>3, <2>4 DEF CancelledOut, AtRoot, PartTotal
<1>2. Init => Drawn
  BY DrawnInit
<1>3. ChainInv /\ Drawn /\ [Next]_vars => Drawn'
  BY DrawnNext
<1>4. QED
  BY <1>1, <1>2, <1>3, LinkedCorrect, FilesCorrect, FreshScenariosLoadWhole, PTL DEF Spec
=============================================================================
