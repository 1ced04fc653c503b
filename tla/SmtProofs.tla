----------------------------- MODULE SmtProofs -----------------------------
(***************************************************************************)
(* Theorems about modules SmtTree, Smt and Sp1Host, for every set of       *)
(* addresses, keys, reserves, delta lists and balances and for every depth *)
(* whose node indices an index can hold.                                   *)
(*                                                                         *)
(* First the operators of the tree: what the recursive functions return,   *)
(* that an index names a prefix, that upserts keep a tree a tree, and that *)
(* a path of digests leads to the root exactly if it starts in what the    *)
(* tree holds.  Then the state: types, totals, witnesses, reloads and the  *)
(* ledger.  Then the prover: compact multiproofs expand to the proofs they *)
(* were made from, the guest programs agree with the library on updates    *)
(* and, as far as their sibling orders do, on insertions, and what is kept *)
(* only after it was proved implements the ledger in every build.          *)
(***************************************************************************)
EXTENDS Sp1Host, BalancesProofs, FiniteSetTheorems

-----------------------------------------------------------------------------
(* The recursive functions *)

\* f is a function.
IsFcn(f) == f = [x \in DOMAIN f |-> f[x]]

\* The powers of two double at each step.
LEMMA Pow2Def ==
    ASSUME NEW n \in Nat
    PROVE  \E f : /\ f[0] = 1 /\ \A l \in 1..n : f[l] = 2 * f[l - 1]
                  /\ Pow2(n) = f[n]
<1> DEFINE Step(x, l) == 2 * x
           Value(s, l) == IF l = 0 THEN 1 ELSE Step(s[l - 1], l)
           Solves(s, m) == \A l \in 0..m : s[l] = Value(s, l)
           T == {m \in 0..n : \E s : Solves(s, m)}
<1> HIDE DEF Step
<1>1. 0 \in T
  <2> DEFINE s == [l \in 0..0 |-> 1]
  <2>1. Solves(s, 0)
    OBVIOUS
  <2> HIDE DEF s, Solves
  <2>2. \E z : Solves(z, 0)
    BY <2>1
  <2>3. QED
    BY <2>2
<1>2. ASSUME NEW m \in 0..(n - 1), m \in T PROVE m + 1 \in T
  <2>1. PICK s : Solves(s, m)
    BY <1>2
  <2> DEFINE t == [l \in 0..(m + 1) |-> IF l = m + 1 THEN Step(s[m], m + 1) ELSE s[l]]
  <2>2. Solves(t, m + 1)
    <3> SUFFICES ASSUME NEW l \in 0..(m + 1) PROVE t[l] = Value(t, l)
      OBVIOUS
    <3>1. CASE l = m + 1
      BY <3>1
    <3>2. CASE l \in 0..m
      <4>1. s[l] = Value(s, l)
        BY <2>1, <3>2
      <4>2. QED
        BY <3>2, <4>1
    <3>3. QED
      BY <3>1, <3>2
  <2> HIDE DEF t, Solves
  <2>3. \E z : Solves(z, m + 1)
    BY <2>2
  <2>4. QED
    BY <2>3
<1>3. n \in T
  <2> HIDE DEF T
  <2>1. 0..n \subseteq T
    BY <1>1, <1>2, UpToInduction
  <2>2. QED
    BY <2>1
<1>4. PICK s : Solves(s, n)
  BY <1>3
<1> DEFINE r == [l \in 0..n |-> s[l]]
<1>5. r = [l \in 0..n |-> Value(r, l)]
  <2>1. ASSUME NEW l \in 0..n PROVE s[l] = Value(r, l)
    <3>1. s[l] = Value(s, l)
      BY <1>4
    <3>2. l # 0 => l - 1 \in 0..n
      OBVIOUS
    <3>3. QED
      BY <3>1, <3>2
  <2> HIDE DEF Value
  <2>2. QED
    BY <2>1
<1> HIDE DEF r
<1> DEFINE f == CHOOSE g : g = [l \in 0..n |-> Value(g, l)]
           step == [l \in 0..n |-> Value(f, l)]
<1>6. f = step
  BY <1>5
<1>7. Pow2(n) = f[n]
  BY DEF Pow2, Step
<1> HIDE DEF f
<1>8. step[0] = 1 /\ DOMAIN step = 0..n
  OBVIOUS
<1>9. ASSUME NEW l \in 1..n PROVE step[l] = Step(f[l - 1], l)
  <2>1. l \in 0..n /\ l # 0
    OBVIOUS
  <2>2. QED
    BY ONLY <2>1
<1> HIDE DEF step
<1>10. DOMAIN f = 0..n /\ f[0] = 1 /\ \A l \in 1..n : f[l] = Step(f[l - 1], l)
  BY <1>6, <1>8, <1>9
<1>11. QED
  BY <1>7, <1>10 DEF Step

\* prefix_index shifts in one bit after the other.
LEMMA PrefixIndexDef ==
    ASSUME NEW key, NEW len \in Nat
    PROVE  \E f : /\ f[0] = 0
                  /\ \A d \in 1..len : f[d] = (2 * f[d - 1] + KeyBit(key, d - 1)) % IndexLimit
                  /\ PrefixIndex(key, len) = f[len]
<1> DEFINE Step(x, d) == (2 * x + KeyBit(key, d - 1)) % IndexLimit
           Value(s, l) == IF l = 0 THEN 0 ELSE Step(s[l - 1], l)
           Solves(s, m) == \A l \in 0..m : s[l] = Value(s, l)
           T == {m \in 0..len : \E s : Solves(s, m)}
<1> HIDE DEF Step
<1>1. 0 \in T
  <2> DEFINE s == [l \in 0..0 |-> 0]
  <2>1. Solves(s, 0)
    OBVIOUS
  <2> HIDE DEF s, Solves
  <2>2. \E z : Solves(z, 0)
    BY <2>1
  <2>3. QED
    BY <2>2
<1>2. ASSUME NEW m \in 0..(len - 1), m \in T PROVE m + 1 \in T
  <2>1. PICK s : Solves(s, m)
    BY <1>2
  <2> DEFINE t == [l \in 0..(m + 1) |-> IF l = m + 1 THEN Step(s[m], m + 1) ELSE s[l]]
  <2>2. Solves(t, m + 1)
    <3> SUFFICES ASSUME NEW l \in 0..(m + 1) PROVE t[l] = Value(t, l)
      OBVIOUS
    <3>1. CASE l = m + 1
      BY <3>1
    <3>2. CASE l \in 0..m
      <4>1. s[l] = Value(s, l)
        BY <2>1, <3>2
      <4>2. QED
        BY <3>2, <4>1
    <3>3. QED
      BY <3>1, <3>2
  <2> HIDE DEF t, Solves
  <2>3. \E z : Solves(z, m + 1)
    BY <2>2
  <2>4. QED
    BY <2>3
<1>3. len \in T
  <2> HIDE DEF T
  <2>1. 0..len \subseteq T
    BY <1>1, <1>2, UpToInduction
  <2>2. QED
    BY <2>1
<1>4. PICK s : Solves(s, len)
  BY <1>3
<1> DEFINE r == [l \in 0..len |-> s[l]]
<1>5. r = [l \in 0..len |-> Value(r, l)]
  <2>1. ASSUME NEW l \in 0..len PROVE s[l] = Value(r, l)
    <3>1. s[l] = Value(s, l)
      BY <1>4
    <3>2. l # 0 => l - 1 \in 0..len
      OBVIOUS
    <3>3. QED
      BY <3>1, <3>2
  <2> HIDE DEF Value
  <2>2. QED
    BY <2>1
<1> HIDE DEF r
<1> DEFINE f == CHOOSE g : g = [l \in 0..len |-> Value(g, l)]
           step == [l \in 0..len |-> Value(f, l)]
<1>6. f = step
  BY <1>5
<1>7. PrefixIndex(key, len) = f[len]
  BY DEF PrefixIndex, Step
<1> HIDE DEF f
<1>8. step[0] = 0 /\ DOMAIN step = 0..len
  OBVIOUS
<1>9. ASSUME NEW l \in 1..len PROVE step[l] = Step(f[l - 1], l)
  <2>1. l \in 0..len /\ l # 0
    OBVIOUS
  <2>2. QED
    BY ONLY <2>1
<1> HIDE DEF step
<1>10. DOMAIN f = 0..len /\ f[0] = 0 /\ \A l \in 1..len : f[l] = Step(f[l - 1], l)
  BY <1>6, <1>8, <1>9
<1>11. QED
  BY <1>7, <1>10 DEF Step

\* The index of a node is halved on the way up.
LEMMA PathIndexDef ==
    ASSUME NEW key, NEW len \in Nat
    PROVE  /\ PathIndex(key, len)[0] = PrefixIndex(key, len)
           /\ \A l \in 1..len : PathIndex(key, len)[l] = PathIndex(key, len)[l - 1] \div 2
<1> DEFINE Step(x, l) == x \div 2
           Value(s, l) == IF l = 0 THEN PrefixIndex(key, len) ELSE Step(s[l - 1], l)
           Solves(s, m) == \A l \in 0..m : s[l] = Value(s, l)
           T == {m \in 0..len : \E s : Solves(s, m)}
<1> HIDE DEF Step
<1>1. 0 \in T
  <2> DEFINE s == [l \in 0..0 |-> PrefixIndex(key, len)]
  <2>1. Solves(s, 0)
    OBVIOUS
  <2> HIDE DEF s, Solves
  <2>2. \E z : Solves(z, 0)
    BY <2>1
  <2>3. QED
    BY <2>2
<1>2. ASSUME NEW m \in 0..(len - 1), m \in T PROVE m + 1 \in T
  <2>1. PICK s : Solves(s, m)
    BY <1>2
  <2> DEFINE t == [l \in 0..(m + 1) |-> IF l = m + 1 THEN Step(s[m], m + 1) ELSE s[l]]
  <2>2. Solves(t, m + 1)
    <3> SUFFICES ASSUME NEW l \in 0..(m + 1) PROVE t[l] = Value(t, l)
      OBVIOUS
    <3>1. CASE l = m + 1
      BY <3>1
    <3>2. CASE l \in 0..m
      <4>1. s[l] = Value(s, l)
        BY <2>1, <3>2
      <4>2. QED
        BY <3>2, <4>1
    <3>3. QED
      BY <3>1, <3>2
  <2> HIDE DEF t, Solves
  <2>3. \E z : Solves(z, m + 1)
    BY <2>2
  <2>4. QED
    BY <2>3
<1>3. len \in T
  <2> HIDE DEF T
  <2>1. 0..len \subseteq T
    BY <1>1, <1>2, UpToInduction
  <2>2. QED
    BY <2>1
<1>4. PICK s : Solves(s, len)
  BY <1>3
<1> DEFINE r == [l \in 0..len |-> s[l]]
<1>5. r = [l \in 0..len |-> Value(r, l)]
  <2>1. ASSUME NEW l \in 0..len PROVE s[l] = Value(r, l)
    <3>1. s[l] = Value(s, l)
      BY <1>4
    <3>2. l # 0 => l - 1 \in 0..len
      OBVIOUS
    <3>3. QED
      BY <3>1, <3>2
  <2> HIDE DEF Value
  <2>2. QED
    BY <2>1
<1> HIDE DEF r
<1> DEFINE f == CHOOSE g : g = [l \in 0..len |-> Value(g, l)]
           step == [l \in 0..len |-> Value(f, l)]
<1>6. f = step
  BY <1>5
<1>7. PathIndex(key, len) = f
  BY DEF PathIndex, Step
<1> HIDE DEF f
<1>8. step[0] = PrefixIndex(key, len) /\ DOMAIN step = 0..len
  OBVIOUS
<1>9. ASSUME NEW l \in 1..len PROVE step[l] = Step(f[l - 1], l)
  <2>1. l \in 0..len /\ l # 0
    OBVIOUS
  <2>2. QED
    BY ONLY <2>1
<1> HIDE DEF step
<1>10. DOMAIN f = 0..len /\ f[0] = PrefixIndex(key, len) /\ \A l \in 1..len : f[l] = Step(f[l - 1], l)
  BY <1>6, <1>8, <1>9
<1>11. QED
  BY <1>7, <1>10 DEF Step

\* default_hashes: each one from the one below it.
LEMMA DefaultHashDef ==
    ASSUME Depth \in Nat
    PROVE  /\ DefaultHash[0] = <<"empty">>
           /\ \A h \in 1..Depth : DefaultHash[h] = InternalHash(Depth - h, DefaultHash[h - 1], DefaultHash[h - 1])
<1> DEFINE Step(x, h) == InternalHash(Depth - h, x, x)
           Value(s, l) == IF l = 0 THEN <<"empty">> ELSE Step(s[l - 1], l)
           Solves(s, m) == \A l \in 0..m : s[l] = Value(s, l)
           T == {m \in 0..Depth : \E s : Solves(s, m)}
<1> HIDE DEF Step
<1>1. 0 \in T
  <2> DEFINE s == [l \in 0..0 |-> <<"empty">>]
  <2>1. Solves(s, 0)
    OBVIOUS
  <2> HIDE DEF s, Solves
  <2>2. \E z : Solves(z, 0)
    BY <2>1
  <2>3. QED
    BY <2>2
<1>2. ASSUME NEW m \in 0..(Depth - 1), m \in T PROVE m + 1 \in T
  <2>1. PICK s : Solves(s, m)
    BY <1>2
  <2> DEFINE t == [l \in 0..(m + 1) |-> IF l = m + 1 THEN Step(s[m], m + 1) ELSE s[l]]
  <2>2. Solves(t, m + 1)
    <3> SUFFICES ASSUME NEW l \in 0..(m + 1) PROVE t[l] = Value(t, l)
      OBVIOUS
    <3>1. CASE l = m + 1
      BY <3>1
    <3>2. CASE l \in 0..m
      <4>1. s[l] = Value(s, l)
        BY <2>1, <3>2
      <4>2. QED
        BY <3>2, <4>1
    <3>3. QED
      BY <3>1, <3>2
  <2> HIDE DEF t, Solves
  <2>3. \E z : Solves(z, m + 1)
    BY <2>2
  <2>4. QED
    BY <2>3
<1>3. Depth \in T
  <2> HIDE DEF T
  <2>1. 0..Depth \subseteq T
    BY <1>1, <1>2, UpToInduction
  <2>2. QED
    BY <2>1
<1>4. PICK s : Solves(s, Depth)
  BY <1>3
<1> DEFINE r == [l \in 0..Depth |-> s[l]]
<1>5. r = [l \in 0..Depth |-> Value(r, l)]
  <2>1. ASSUME NEW l \in 0..Depth PROVE s[l] = Value(r, l)
    <3>1. s[l] = Value(s, l)
      BY <1>4
    <3>2. l # 0 => l - 1 \in 0..Depth
      OBVIOUS
    <3>3. QED
      BY <3>1, <3>2
  <2> HIDE DEF Value
  <2>2. QED
    BY <2>1
<1> HIDE DEF r
<1> DEFINE f == CHOOSE g : g = [l \in 0..Depth |-> Value(g, l)]
           step == [l \in 0..Depth |-> Value(f, l)]
<1>6. f = step
  BY <1>5
<1>7. DefaultHash = f
  BY DEF DefaultHash, Step
<1> HIDE DEF f
<1>8. step[0] = <<"empty">> /\ DOMAIN step = 0..Depth
  OBVIOUS
<1>9. ASSUME NEW l \in 1..Depth PROVE step[l] = Step(f[l - 1], l)
  <2>1. l \in 0..Depth /\ l # 0
    OBVIOUS
  <2>2. QED
    BY ONLY <2>1
<1> HIDE DEF step
<1>10. DOMAIN f = 0..Depth /\ f[0] = <<"empty">> /\ \A l \in 1..Depth : f[l] = Step(f[l - 1], l)
  BY <1>6, <1>8, <1>9
<1>11. QED
  BY <1>7, <1>10 DEF Step

\* The digests on a path, each hashed with a sibling on the side the key says.
IsFold(f, key, d, start, siblings) ==
    /\ f[0] = start
    /\ \A l \in 1..d :
          f[l] = IF KeyBit(key, d - l) = 1 THEN InternalHash(d - l, siblings[l - 1], f[l - 1])
                 ELSE InternalHash(d - l, f[l - 1], siblings[l - 1])

\* A path is hashed with one sibling after the other, on the side the key says.
LEMMA FoldUpDef ==
    ASSUME NEW key, NEW d \in Nat, NEW start, NEW siblings
    PROVE  \E f : /\ IsFold(f, key, d, start, siblings)
                  /\ FoldUp(key, d, start, siblings) = f[d]
<1> DEFINE Step(x, l) == IF KeyBit(key, d - l) = 1 THEN InternalHash(d - l, siblings[l - 1], x)
                         ELSE InternalHash(d - l, x, siblings[l - 1])
           Value(s, l) == IF l = 0 THEN start ELSE Step(s[l - 1], l)
           Solves(s, m) == \A l \in 0..m : s[l] = Value(s, l)
           T == {m \in 0..d : \E s : Solves(s, m)}
<1> HIDE DEF Step
<1>1. 0 \in T
  <2> DEFINE s == [l \in 0..0 |-> start]
  <2>1. Solves(s, 0)
    OBVIOUS
  <2> HIDE DEF s, Solves
  <2>2. \E z : Solves(z, 0)
    BY <2>1
  <2>3. QED
    BY <2>2
<1>2. ASSUME NEW m \in 0..(d - 1), m \in T PROVE m + 1 \in T
  <2>1. PICK s : Solves(s, m)
    BY <1>2
  <2> DEFINE t == [l \in 0..(m + 1) |-> IF l = m + 1 THEN Step(s[m], m + 1) ELSE s[l]]
  <2>2. Solves(t, m + 1)
    <3> SUFFICES ASSUME NEW l \in 0..(m + 1) PROVE t[l] = Value(t, l)
      OBVIOUS
    <3>1. CASE l = m + 1
      BY <3>1
    <3>2. CASE l \in 0..m
      <4>1. s[l] = Value(s, l)
        BY <2>1, <3>2
      <4>2. QED
        BY <3>2, <4>1
    <3>3. QED
      BY <3>1, <3>2
  <2> HIDE DEF t, Solves
  <2>3. \E z : Solves(z, m + 1)
    BY <2>2
  <2>4. QED
    BY <2>3
<1>3. d \in T
  <2> HIDE DEF T
  <2>1. 0..d \subseteq T
    BY <1>1, <1>2, UpToInduction
  <2>2. QED
    BY <2>1
<1>4. PICK s : Solves(s, d)
  BY <1>3
<1> DEFINE r == [l \in 0..d |-> s[l]]
<1>5. r = [l \in 0..d |-> Value(r, l)]
  <2>1. ASSUME NEW l \in 0..d PROVE s[l] = Value(r, l)
    <3>1. s[l] = Value(s, l)
      BY <1>4
    <3>2. l # 0 => l - 1 \in 0..d
      OBVIOUS
    <3>3. QED
      BY <3>1, <3>2
  <2> HIDE DEF Value
  <2>2. QED
    BY <2>1
<1> HIDE DEF r
<1> DEFINE f == CHOOSE g : g = [l \in 0..d |-> Value(g, l)]
           step == [l \in 0..d |-> Value(f, l)]
<1>6. f = step
  BY <1>5
<1>7. FoldUp(key, d, start, siblings) = f[d]
  BY DEF FoldUp, Step
<1> HIDE DEF f
<1>8. step[0] = start /\ DOMAIN step = 0..d
  OBVIOUS
<1>9. ASSUME NEW l \in 1..d PROVE step[l] = Step(f[l - 1], l)
  <2>1. l \in 0..d /\ l # 0
    OBVIOUS
  <2>2. QED
    BY ONLY <2>1
<1> HIDE DEF step
<1>10. DOMAIN f = 0..d /\ f[0] = start /\ \A l \in 1..d : f[l] = Step(f[l - 1], l)
  BY <1>6, <1>8, <1>9
<1>11. QED
  BY <1>7, <1>10 DEF Step, IsFold

\* The digests that upsert hashes on the way up from the leaf's slot.
IsUpsertPath(f, ly, key, h) ==
    /\ f[0] = h
    /\ \A l \in 1..Depth :
          LET i == PathIndex(key, Depth)[l - 1]
              sibling == NodeAt(ly, l - 1, SiblingIndex(i))
          IN f[l] = IF i % 2 = 0 THEN InternalHash(Depth - l, f[l - 1], sibling)
                    ELSE InternalHash(Depth - l, sibling, f[l - 1])

\* upsert: the digests of the path, each with the sibling that the old layer stores.
LEMMA UpsertLayersDef ==
    ASSUME Depth \in Nat, NEW ly, NEW key, NEW h
    PROVE  \E f : /\ IsUpsertPath(f, ly, key, h)
                  /\ IsFcn(UpsertLayers(ly, key, h)) /\ DOMAIN UpsertLayers(ly, key, h) = 0..Depth
                  /\ \A l \in 0..Depth :
                        UpsertLayers(ly, key, h)[l] = Put(ly[l], PathIndex(key, Depth)[l], f[l])
<1> DEFINE index == PathIndex(key, Depth)
           Step(x, l) ==
               LET sibling == NodeAt(ly, l - 1, SiblingIndex(index[l - 1]))
               IN IF index[l - 1] % 2 = 0 THEN InternalHash(Depth - l, x, sibling)
                  ELSE InternalHash(Depth - l, sibling, x)
           Value(s, l) == IF l = 0 THEN h ELSE Step(s[l - 1], l)
           Solves(s, m) == \A l \in 0..m : s[l] = Value(s, l)
           T == {m \in 0..Depth : \E s : Solves(s, m)}
<1> HIDE DEF Step
<1>1. 0 \in T
  <2> DEFINE s == [l \in 0..0 |-> h]
  <2>1. Solves(s, 0)
    OBVIOUS
  <2> HIDE DEF s, Solves
  <2>2. \E z : Solves(z, 0)
    BY <2>1
  <2>3. QED
    BY <2>2
<1>2. ASSUME NEW m \in 0..(Depth - 1), m \in T PROVE m + 1 \in T
  <2>1. PICK s : Solves(s, m)
    BY <1>2
  <2> DEFINE t == [l \in 0..(m + 1) |-> IF l = m + 1 THEN Step(s[m], m + 1) ELSE s[l]]
  <2>2. Solves(t, m + 1)
    <3> SUFFICES ASSUME NEW l \in 0..(m + 1) PROVE t[l] = Value(t, l)
      OBVIOUS
    <3>1. CASE l = m + 1
      BY <3>1
    <3>2. CASE l \in 0..m
      <4>1. s[l] = Value(s, l)
        BY <2>1, <3>2
      <4>2. QED
        BY <3>2, <4>1
    <3>3. QED
      BY <3>1, <3>2
  <2> HIDE DEF t, Solves
  <2>3. \E z : Solves(z, m + 1)
    BY <2>2
  <2>4. QED
    BY <2>3
<1>3. Depth \in T
  <2> HIDE DEF T
  <2>1. 0..Depth \subseteq T
    BY <1>1, <1>2, UpToInduction
  <2>2. QED
    BY <2>1
<1>4. PICK s : Solves(s, Depth)
  BY <1>3
<1> DEFINE r == [l \in 0..Depth |-> s[l]]
<1>5. r = [l \in 0..Depth |-> Value(r, l)]
  <2>1. ASSUME NEW l \in 0..Depth PROVE s[l] = Value(r, l)
    <3>1. s[l] = Value(s, l)
      BY <1>4
    <3>2. l # 0 => l - 1 \in 0..Depth
      OBVIOUS
    <3>3. QED
      BY <3>1, <3>2
  <2> HIDE DEF Value
  <2>2. QED
    BY <2>1
<1> HIDE DEF r
<1> DEFINE f == CHOOSE g : g = [l \in 0..Depth |-> Value(g, l)]
           step == [l \in 0..Depth |-> Value(f, l)]
<1>6. f = step
  BY <1>5
<1>7. UpsertLayers(ly, key, h) = [l \in 0..Depth |-> Put(ly[l], PathIndex(key, Depth)[l], f[l])]
  BY DEF UpsertLayers, Step
<1> HIDE DEF f
<1>8. step[0] = h /\ DOMAIN step = 0..Depth
  OBVIOUS
<1>9. ASSUME NEW l \in 1..Depth PROVE step[l] = Step(f[l - 1], l)
  <2>1. l \in 0..Depth /\ l # 0
    OBVIOUS
  <2>2. QED
    BY ONLY <2>1
<1> HIDE DEF step
<1>10. DOMAIN f = 0..Depth /\ f[0] = h /\ \A l \in 1..Depth : f[l] = Step(f[l - 1], l)
  BY <1>6, <1>8, <1>9
<1>11. /\ IsFcn(UpsertLayers(ly, key, h)) /\ DOMAIN UpsertLayers(ly, key, h) = 0..Depth
       /\ \A l \in 0..Depth : UpsertLayers(ly, key, h)[l] = Put(ly[l], index[l], f[l])
  BY <1>7 DEF IsFcn
<1>12. QED
  BY <1>10, <1>11 DEF Step, IsUpsertPath

-----------------------------------------------------------------------------
(* Keys, prefixes and indices *)

Keys == [1..KeyBits -> {0, 1}]

\* An index holds a whole path: at most 128 levels.
IndexFits == Depth <= IndexBits

\* Every address has a key, and its bits are bits.
LEMMA KeyType ==
    ASSUME NEW a \in Address PROVE KeyOf(a) \in Keys
<1> QED BY KeyAssumption DEF KeyOf, Keys

\* A bit of a key.
LEMMA KeyBitType ==
    ASSUME NEW key \in Keys, NEW d \in 0..(Depth - 1) PROVE KeyBit(key, d) \in {0, 1}
<1>1. d + 1 \in 1..KeyBits
  BY DepthAssumption
<1>2. QED
  BY <1>1 DEF KeyBit, Keys

\* A key's index at one depth is twice the one at the depth above plus its bit:
\* no bit is lost as long as an index holds a path.
LEMMA PrefixIndexStep ==
    ASSUME IndexFits, NEW key \in Keys
    PROVE  /\ PrefixIndex(key, 0) = 0
           /\ \A d \in 0..Depth : PrefixIndex(key, d) \in Nat
           /\ \A d \in 0..(Depth - 1) :
                 PrefixIndex(key, d + 1) = 2 * PrefixIndex(key, d) + KeyBit(key, d)
<1> USE DepthAssumption
<1>1. PICK p : /\ p[0] = 1 /\ \A n \in 1..IndexBits : p[n] = 2 * p[n - 1]
               /\ IndexLimit = p[IndexBits]
  BY Pow2Def DEF IndexLimit
<1> DEFINE T == {n \in 0..IndexBits : p[n] \in Nat \ {0} /\ \A m \in 0..n : p[m] \in Nat /\ p[m] <= p[n]}
<1>2. IndexBits \in T
  <2>1. 0 \in T
    BY <1>1
  <2>2. ASSUME NEW n \in 0..(IndexBits - 1), n \in T PROVE n + 1 \in T
    <3>1. p[n + 1] = 2 * p[n] /\ p[n] \in Nat \ {0}
      BY <1>1, <2>2
    <3>2. p[n + 1] \in Nat \ {0} /\ p[n] <= p[n + 1]
      BY <3>1
    <3>3. ASSUME NEW m \in 0..(n + 1) PROVE p[m] \in Nat /\ p[m] <= p[n + 1]
      <4>1. CASE m = n + 1
        BY <3>2, <4>1
      <4>2. CASE m \in 0..n
        BY <2>2, <3>1, <3>2, <4>2
      <4>3. QED
        BY <4>1, <4>2
    <3>4. QED
      BY <3>2, <3>3
  <2> HIDE DEF T
  <2>3. 0..IndexBits \subseteq T
    BY <2>1, <2>2, UpToInduction
  <2>4. QED
    BY <2>3
<1>3. IndexLimit \in Nat \ {0} /\ \A m \in 0..Depth : p[m] \in Nat /\ p[m] <= IndexLimit
  BY <1>1, <1>2 DEF IndexFits
\* The loop, as long as nothing is shifted out.
<1> DEFINE Loop(f, len) ==
             /\ f[0] = 0
             /\ \A d \in 1..len : f[d] = (2 * f[d - 1] + KeyBit(key, d - 1)) % IndexLimit
<1>4. ASSUME NEW len \in 0..Depth, NEW f, Loop(f, len)
      PROVE  \A d \in 0..len : /\ f[d] \in Nat /\ f[d] < p[d]
                               /\ d > 0 => f[d] = 2 * f[d - 1] + KeyBit(key, d - 1)
  <2> DEFINE U == {d \in 0..len : /\ f[d] \in Nat /\ f[d] < p[d]
                                  /\ d > 0 => f[d] = 2 * f[d - 1] + KeyBit(key, d - 1)}
  <2>1. 0 \in U
    BY <1>1, <1>4
  <2>2. ASSUME NEW d \in 0..(len - 1), d \in U PROVE d + 1 \in U
    <3>1. f[d + 1] = (2 * f[d] + KeyBit(key, d)) % IndexLimit
      BY <1>4
    <3>2. KeyBit(key, d) \in {0, 1} /\ d + 1 \in 1..IndexBits /\ d + 1 \in 0..Depth
      BY KeyBitType DEF IndexFits
    <3>3. p[d + 1] = 2 * p[d] /\ p[d] \in Nat /\ p[d + 1] <= IndexLimit
      BY <1>1, <1>3, <3>2
    <3> DEFINE x == 2 * f[d] + KeyBit(key, d)
    <3>4. x \in Nat /\ x < p[d + 1] /\ x < IndexLimit
      BY <1>3, <2>2, <3>2, <3>3
    <3>5. x % IndexLimit = x
      <4> HIDE DEF x
      <4> QED BY <1>3, <3>4
    <3>6. QED
      BY <3>1, <3>4, <3>5
  <2> HIDE DEF U
  <2>3. 0..len \subseteq U
    BY <2>1, <2>2, UpToInduction
  <2>4. QED
    BY <2>3 DEF U
<1> HIDE DEF Loop
<1>5. ASSUME NEW len \in 0..Depth PROVE \E f : Loop(f, len) /\ PrefixIndex(key, len) = f[len]
  BY PrefixIndexDef DEF Loop
<1>6. PrefixIndex(key, 0) = 0
  BY <1>5 DEF Loop
<1>7. ASSUME NEW d \in 0..Depth PROVE PrefixIndex(key, d) \in Nat
  BY <1>4, <1>5
<1>8. ASSUME NEW d \in 0..(Depth - 1)
      PROVE  PrefixIndex(key, d + 1) = 2 * PrefixIndex(key, d) + KeyBit(key, d)
  <2>1. d \in 0..Depth /\ d + 1 \in 0..Depth
    OBVIOUS
  <2>2. PICK f : Loop(f, d) /\ PrefixIndex(key, d) = f[d]
    BY <1>5, <2>1
  <2>3. PICK g : Loop(g, d + 1) /\ PrefixIndex(key, d + 1) = g[d + 1]
    BY <1>5, <2>1
  <2>4. g[d + 1] = 2 * g[d] + KeyBit(key, d)
    BY <1>4, <2>1, <2>3
  <2> DEFINE U == {e \in 0..d : f[e] = g[e]}
  <2>5. 0 \in U
    BY <2>2, <2>3 DEF Loop
  <2>6. ASSUME NEW e \in 0..(d - 1), e \in U PROVE e + 1 \in U
    BY <2>2, <2>3, <2>6 DEF Loop
  <2> HIDE DEF U
  <2>7. 0..d \subseteq U
    BY <2>5, <2>6, UpToInduction
  <2>8. f[d] = g[d]
    BY <2>7 DEF U
  <2>9. QED
    BY <2>2, <2>3, <2>4, <2>8
<1>9. QED
  BY <1>6, <1>7, <1>8

\* The bit and the parent of an index.
LEMMA Halves ==
    ASSUME NEW p \in Nat, NEW b \in {0, 1}
    PROVE  (2 * p + b) \div 2 = p /\ (2 * p + b) % 2 = b
<1> QED OBVIOUS

\* An index is made of its half and its last bit.
LEMMA HalfAndBit ==
    ASSUME NEW i \in Nat
    PROVE  i \div 2 \in Nat /\ i % 2 \in {0, 1} /\ i = 2 * (i \div 2) + (i % 2)
<1> QED OBVIOUS

\* Halving an index goes to the index of the shorter prefix.
LEMMA PathIndexIsPrefix ==
    ASSUME IndexFits, NEW key \in Keys, NEW d \in 0..Depth, NEW l \in 0..d
    PROVE  PathIndex(key, d)[l] = PrefixIndex(key, d - l)
<1> USE DepthAssumption
<1> DEFINE T == {m \in 0..d : PathIndex(key, d)[m] = PrefixIndex(key, d - m)}
<1>1. /\ PathIndex(key, d)[0] = PrefixIndex(key, d)
      /\ \A m \in 1..d : PathIndex(key, d)[m] = PathIndex(key, d)[m - 1] \div 2
  BY PathIndexDef
<1>2. 0 \in T
  BY <1>1
<1>3. ASSUME NEW m \in 0..(d - 1), m \in T PROVE m + 1 \in T
  <2> DEFINE e == d - (m + 1)
  <2>1. e \in 0..(Depth - 1) /\ e \in 0..Depth /\ e + 1 = d - m
    OBVIOUS
  <2> HIDE DEF e
  <2>2. PrefixIndex(key, d - m) = 2 * PrefixIndex(key, e) + KeyBit(key, e)
    BY <2>1, PrefixIndexStep
  <2>3. PrefixIndex(key, e) \in Nat /\ KeyBit(key, e) \in {0, 1}
    BY <2>1, PrefixIndexStep, KeyBitType
  <2>4. PrefixIndex(key, d - m) \div 2 = PrefixIndex(key, e)
    BY <2>2, <2>3, Halves
  <2>5. PathIndex(key, d)[m + 1] = PathIndex(key, d)[m] \div 2
    BY <1>1
  <2>6. QED
    BY <1>3, <2>4, <2>5 DEF e
<1>4. 0..d \subseteq T
  <2> HIDE DEF T
  <2> QED BY <1>2, <1>3, UpToInduction
<1>5. QED
  BY <1>4

\* Two keys have one index at a depth exactly if their bits above it are the same.
LEMMA PrefixIndexEqual ==
    ASSUME IndexFits, NEW k1 \in Keys, NEW k2 \in Keys, NEW n \in 0..Depth
    PROVE  PrefixIndex(k1, n) = PrefixIndex(k2, n)
              <=> \A d \in 0..(n - 1) : KeyBit(k1, d) = KeyBit(k2, d)
<1> USE DepthAssumption
<1> DEFINE Same(m) == \A d \in 0..(m - 1) : KeyBit(k1, d) = KeyBit(k2, d)
           T == {m \in 0..n : PrefixIndex(k1, m) = PrefixIndex(k2, m) <=> Same(m)}
<1>1. 0 \in T
  BY PrefixIndexStep
<1>2. ASSUME NEW m \in 0..(n - 1), m \in T PROVE m + 1 \in T
  <2>1. m \in 0..(Depth - 1) /\ m \in 0..Depth
    OBVIOUS
  <2>2. /\ PrefixIndex(k1, m + 1) = 2 * PrefixIndex(k1, m) + KeyBit(k1, m)
        /\ PrefixIndex(k2, m + 1) = 2 * PrefixIndex(k2, m) + KeyBit(k2, m)
        /\ PrefixIndex(k1, m) \in Nat /\ PrefixIndex(k2, m) \in Nat
    BY <2>1, PrefixIndexStep
  <2>3. KeyBit(k1, m) \in {0, 1} /\ KeyBit(k2, m) \in {0, 1}
    BY <2>1, KeyBitType
  <2>4. PrefixIndex(k1, m + 1) = PrefixIndex(k2, m + 1)
          <=> PrefixIndex(k1, m) = PrefixIndex(k2, m) /\ KeyBit(k1, m) = KeyBit(k2, m)
    BY <2>2, <2>3
  <2>5. Same(m + 1) <=> Same(m) /\ KeyBit(k1, m) = KeyBit(k2, m)
    OBVIOUS
  <2> HIDE DEF Same
  <2>6. QED
    BY <1>2, <2>4, <2>5
<1>3. 0..n \subseteq T
  <2> HIDE DEF T
  <2> QED BY <1>1, <1>2, UpToInduction
<1>4. QED
  BY <1>3

\* A set of numbers up to n that is not empty has a largest member.
LEMMA LargestExists ==
    ASSUME NEW n \in Nat, NEW S \in SUBSET (0..n), S # {}
    PROVE  Largest(S) \in S /\ \A y \in S : y <= Largest(S)
<1> DEFINE T == {m \in 0..n : (\E x \in S : x <= m) => \E x \in S : \A y \in S : y <= m => y <= x}
<1>1. 0 \in T
  OBVIOUS
<1>2. ASSUME NEW m \in 0..(n - 1), m \in T PROVE m + 1 \in T
  <2>1. CASE m + 1 \in S
    <3>1. \A y \in S : y <= m + 1 => y <= m + 1
      OBVIOUS
    <3>2. QED
      BY <2>1, <3>1
  <2>2. CASE m + 1 \notin S
    <3>1. \A y \in S : y <= m + 1 <=> y <= m
      BY <2>2
    <3>2. QED
      BY <1>2, <3>1
  <2>3. QED
    BY <2>1, <2>2
<1>3. n \in T
  <2> HIDE DEF T
  <2>1. 0..n \subseteq T
    BY <1>1, <1>2, UpToInduction
  <2>2. QED
    BY <2>1
<1>4. (\E x \in S : x <= n) => \E x \in S : \A y \in S : y <= n => y <= x
  BY <1>3
<1> HIDE DEF T
<1>5. \A x \in S : x \in Int /\ x <= n
  OBVIOUS
<1>6. \E x \in S : \A y \in S : y <= x
  BY <1>4, <1>5
<1>7. QED
  BY <1>6 DEF Largest

\* A set of natural numbers that is not empty has a smallest member.
LEMMA SmallestExists ==
    ASSUME NEW S \in SUBSET Nat, S # {}
    PROVE  Smallest(S) \in S /\ \A y \in S : Smallest(S) <= y
<1> DEFINE Less == OpToRel(<, Nat)
<1>1. IsWellFoundedOn(Less, Nat)
  BY NatLessThanWellFounded
<1> HIDE DEF Less
<1>2. PICK x \in S : \A y \in S : ~(<<y, x>> \in Less)
  BY <1>1, WFMin
<1>3. ASSUME NEW y \in S PROVE x <= y
  <2>1. x \in Nat /\ y \in Nat
    OBVIOUS
  <2>2. y < x => <<y, x>> \in Less
    BY <2>1 DEF Less, OpToRel
  <2>3. QED
    BY <1>2, <2>1, <2>2
<1>4. QED
  BY <1>3 DEF Smallest

\* The common prefix is a depth, and the whole depth exactly if the two keys lead
\* to one slot.
LEMMA CommonPrefixLenIsDepth ==
    ASSUME IndexFits, NEW k1 \in Keys, NEW k2 \in Keys
    PROVE  /\ CommonPrefixLen(k1, k2) \in 0..Depth
           /\ CommonPrefixLen(k1, k2) = Depth <=> PrefixIndex(k1, Depth) = PrefixIndex(k2, Depth)
           /\ \A d \in 0..Depth : d <= CommonPrefixLen(k1, k2)
                                     <=> PrefixIndex(k1, d) = PrefixIndex(k2, d)
<1> USE DepthAssumption
<1> DEFINE S == {n \in 0..Depth : \A d \in 0..(n - 1) : KeyBit(k1, d) = KeyBit(k2, d)}
           c == CommonPrefixLen(k1, k2)
<1>1. S \in SUBSET (0..Depth) /\ 0 \in S
  OBVIOUS
<1>2. c \in S /\ \A y \in S : y <= c
  BY <1>1, LargestExists DEF CommonPrefixLen
<1>3. ASSUME NEW d \in 0..Depth PROVE d <= c <=> PrefixIndex(k1, d) = PrefixIndex(k2, d)
  <2>1. PrefixIndex(k1, d) = PrefixIndex(k2, d) <=> d \in S
    BY PrefixIndexEqual
  <2>2. d \in S => d <= c
    BY <1>2
  <2>3. d <= c => d \in S
    BY <1>2
  <2>4. QED
    BY <2>1, <2>2, <2>3
<1> HIDE DEF S, c
<1>4. c \in 0..Depth
  BY <1>1, <1>2
<1>5. c = Depth <=> Depth <= c
  BY <1>4
<1>6. QED
  BY <1>3, <1>4, <1>5 DEF c
-----------------------------------------------------------------------------
(* The tree *)

\* compute_layers: the leaf layer, and every other one from the one below it.
LEMMA ComputeLayersDef ==
    ASSUME NEW lv
    PROVE  /\ IsFcn(ComputeLayers(lv)) /\ DOMAIN ComputeLayers(lv) = 0..Depth
           /\ ComputeLayers(lv)[0] = LeafLayer(lv)
           /\ \A l \in 1..Depth :
                 ComputeLayers(lv)[l] = ParentLayer(ComputeLayers(lv)[l - 1], l - 1)
<1> USE DepthAssumption
<1> DEFINE Value(s, l) == IF l = 0 THEN LeafLayer(lv) ELSE ParentLayer(s[l - 1], l - 1)
           Solves(s, m) == DOMAIN s = 0..m /\ \A l \in 0..m : s[l] = Value(s, l)
           T == {m \in 0..Depth : \E s : Solves(s, m)}
<1>1. 0 \in T
  <2> DEFINE s == [l \in 0..0 |-> LeafLayer(lv)]
  <2>1. Solves(s, 0)
    OBVIOUS
  <2> HIDE DEF s, Solves
  <2>2. \E z : Solves(z, 0)
    BY <2>1
  <2>3. QED
    BY <2>2
<1>2. ASSUME NEW m \in 0..(Depth - 1), m \in T PROVE m + 1 \in T
  <2>1. PICK s : Solves(s, m)
    BY <1>2
  <2> DEFINE t == [l \in 0..(m + 1) |-> IF l = m + 1 THEN ParentLayer(s[m], m) ELSE s[l]]
  <2>2. Solves(t, m + 1)
    <3> SUFFICES ASSUME NEW l \in 0..(m + 1) PROVE t[l] = Value(t, l)
      OBVIOUS
    <3>1. CASE l = m + 1
      BY <3>1
    <3>2. CASE l \in 0..m
      <4>1. s[l] = Value(s, l)
        BY <2>1, <3>2
      <4>2. QED
        BY <3>2, <4>1
    <3>3. QED
      BY <3>1, <3>2
  <2> HIDE DEF t, Solves
  <2>3. \E z : Solves(z, m + 1)
    BY <2>2
  <2>4. QED
    BY <2>3
<1>3. Depth \in T
  <2> HIDE DEF T
  <2>1. 0..Depth \subseteq T
    BY <1>1, <1>2, UpToInduction
  <2>2. QED
    BY <2>1
<1>4. PICK s : Solves(s, Depth)
  BY <1>3
<1> DEFINE r == [l \in 0..Depth |-> s[l]]
<1>5. r = [l \in 0..Depth |-> Value(r, l)]
  <2>1. ASSUME NEW l \in 0..Depth PROVE s[l] = Value(r, l)
    <3>1. s[l] = Value(s, l)
      BY <1>4
    <3>2. l # 0 => l - 1 \in 0..Depth
      OBVIOUS
    <3>3. QED
      BY <3>1, <3>2
  <2> HIDE DEF Value
  <2>2. QED
    BY <2>1
<1> HIDE DEF r
<1> DEFINE g == ComputeLayers(lv)
           step == [l \in 0..Depth |-> Value(g, l)]
<1>6. g = step
  BY <1>5 DEF ComputeLayers
<1> HIDE DEF g
<1>7. DOMAIN step = 0..Depth /\ step[0] = LeafLayer(lv) /\ IsFcn(step)
  BY DEF IsFcn
<1>8. ASSUME NEW l \in 1..Depth PROVE step[l] = ParentLayer(g[l - 1], l - 1)
  <2>1. l \in 0..Depth /\ l # 0
    OBVIOUS
  <2>2. QED
    BY ONLY <2>1
<1> HIDE DEF step
<1>9. QED
  BY <1>6, <1>7, <1>8 DEF g

\* A series of upserts goes through the trees after[0], .., after[N], in address
\* order: the first is the given one and each address of W upserts its leaf.
LEMMA UpsertAllDef ==
    ASSUME NEW ly, NEW lv, NEW W
    PROVE  \E after :
              /\ after[0] = ly
              /\ \A n \in Address :
                    after[n] = IF n \in W
                                 THEN UpsertLayers(after[n - 1], KeyOf(n), HashOfLeaf(lv, n))
                                 ELSE after[n - 1]
              /\ UpsertAll(ly, lv, W) = after[N]
<1> USE NAssumption
<1> DEFINE Step(x, n) == IF n \in W THEN UpsertLayers(x, KeyOf(n), HashOfLeaf(lv, n)) ELSE x
           Value(s, n) == IF n = 0 THEN ly ELSE Step(s[n - 1], n)
           Solves(s, m) == \A n \in 0..m : s[n] = Value(s, n)
           T == {m \in 0..N : \E s : Solves(s, m)}
<1> HIDE DEF Step
<1>1. 0 \in T
  <2> DEFINE s == [n \in 0..0 |-> ly]
  <2>1. Solves(s, 0)
    OBVIOUS
  <2> HIDE DEF s, Solves
  <2>2. \E z : Solves(z, 0)
    BY <2>1
  <2>3. QED
    BY <2>2
<1>2. ASSUME NEW m \in 0..(N - 1), m \in T PROVE m + 1 \in T
  <2>1. PICK s : Solves(s, m)
    BY <1>2
  <2> DEFINE t == [n \in 0..(m + 1) |-> IF n = m + 1 THEN Step(s[m], m + 1) ELSE s[n]]
  <2>2. Solves(t, m + 1)
    <3> SUFFICES ASSUME NEW n \in 0..(m + 1) PROVE t[n] = Value(t, n)
      OBVIOUS
    <3>1. CASE n = m + 1
      BY <3>1
    <3>2. CASE n \in 0..m
      <4>1. s[n] = Value(s, n)
        BY <2>1, <3>2
      <4>2. QED
        BY <3>2, <4>1
    <3>3. QED
      BY <3>1, <3>2
  <2> HIDE DEF t, Solves
  <2>3. \E z : Solves(z, m + 1)
    BY <2>2
  <2>4. QED
    BY <2>3
<1>3. N \in T
  <2> HIDE DEF T
  <2>1. 0..N \subseteq T
    BY <1>1, <1>2, UpToInduction
  <2>2. QED
    BY <2>1
<1>4. PICK s : Solves(s, N)
  BY <1>3
<1> DEFINE r == [n \in 0..N |-> s[n]]
<1>5. r = [n \in 0..N |-> Value(r, n)]
  <2>1. ASSUME NEW n \in 0..N PROVE s[n] = Value(r, n)
    <3>1. s[n] = Value(s, n)
      BY <1>4
    <3>2. n # 0 => n - 1 \in 0..N
      OBVIOUS
    <3>3. QED
      BY <3>1, <3>2
  <2> HIDE DEF Value
  <2>2. QED
    BY <2>1
<1> HIDE DEF r
<1> DEFINE g == CHOOSE after : after = [n \in 0..N |-> Value(after, n)]
           step == [n \in 0..N |-> Value(g, n)]
<1>6. g = step
  BY <1>5
<1>7. UpsertAll(ly, lv, W) = g[N]
  BY DEF UpsertAll, Step
<1> HIDE DEF g
<1>8. step[0] = ly
  OBVIOUS
<1>9. ASSUME NEW n \in Address PROVE step[n] = Step(g[n - 1], n)
  <2>1. n \in 0..N /\ n # 0
    BY DEF Address
  <2>2. QED
    BY ONLY <2>1
<1> HIDE DEF step
<1>10. g[0] = ly /\ \A n \in Address : g[n] = Step(g[n - 1], n)
  BY <1>6, <1>8, <1>9
<1>11. QED
  BY <1>7, <1>10 DEF Step

\* A series of upserts keeps one layer per level.
LEMMA UpsertAllDomain ==
    ASSUME NEW ly, DOMAIN ly = 0..Depth, NEW lv, NEW W
    PROVE  DOMAIN UpsertAll(ly, lv, W) = 0..Depth
<1> USE NAssumption
<1>1. PICK after :
        /\ after[0] = ly
        /\ \A n \in Address :
              after[n] = IF n \in W
                           THEN UpsertLayers(after[n - 1], KeyOf(n), HashOfLeaf(lv, n))
                           ELSE after[n - 1]
        /\ UpsertAll(ly, lv, W) = after[N]
  BY UpsertAllDef
<1> DEFINE T == {n \in 0..N : DOMAIN after[n] = 0..Depth}
<1>2. 0 \in T
  BY <1>1
<1>3. ASSUME NEW n \in 0..(N - 1), n \in T PROVE n + 1 \in T
  <2>1. n + 1 \in Address /\ (n + 1) - 1 = n
    BY DEF Address
  <2>2. after[n + 1] = IF n + 1 \in W
                         THEN UpsertLayers(after[n], KeyOf(n + 1), HashOfLeaf(lv, n + 1))
                         ELSE after[n]
    BY <1>1, <2>1
  <2>3. DOMAIN UpsertLayers(after[n], KeyOf(n + 1), HashOfLeaf(lv, n + 1)) = 0..Depth
    BY DEF UpsertLayers
  <2>4. QED
    BY <1>3, <2>2, <2>3
<1>4. N \in T
  <2> HIDE DEF T
  <2>1. 0..N \subseteq T
    BY <1>2, <1>3, UpToInduction
  <2>2. QED
    BY <2>1
<1>5. QED
  BY <1>1, <1>4

\* Each layer is computed from the one below it.
TreeOK(ly) ==
    /\ IsFcn(ly) /\ DOMAIN ly = 0..Depth
    /\ IsFcn(ly[0]) /\ \A l \in 0..Depth : DOMAIN ly[l] \subseteq Nat
    /\ \A l \in 1..Depth : ly[l] = ParentLayer(ly[l - 1], l - 1)

\* What ParentLayer reads at an index.
ChildAt(layer, l, i) == IF i \in DOMAIN layer THEN layer[i] ELSE DefaultHash[l]

\* A parent layer has the halves of the indices, and hashes the two children of each.
LEMMA ParentLayerDef ==
    ASSUME NEW layer, NEW l
    PROVE  /\ DOMAIN ParentLayer(layer, l) = {j \div 2 : j \in DOMAIN layer}
           /\ IsFcn(ParentLayer(layer, l))
           /\ \A i \in DOMAIN ParentLayer(layer, l) :
                 ParentLayer(layer, l)[i] =
                    InternalHash(Depth - l - 1, ChildAt(layer, l, 2 * i), ChildAt(layer, l, 2 * i + 1))
<1> QED BY DEF ParentLayer, IsFcn, ChildAt

\* The parents of a layer's indices are indices.
LEMMA ParentDomain ==
    ASSUME NEW layer, NEW l, DOMAIN layer \subseteq Nat
    PROVE  DOMAIN ParentLayer(layer, l) \subseteq Nat
<1>1. \A j \in DOMAIN layer : j \div 2 \in Nat
  BY HalfAndBit
<1>2. DOMAIN ParentLayer(layer, l) = {j \div 2 : j \in DOMAIN layer}
  BY ParentLayerDef
<1>3. QED
  BY <1>1, <1>2

\* A node, stored or default, hashes its two children, stored or default.
LEMMA NodeEquation ==
    ASSUME NEW ly, TreeOK(ly), NEW l \in 1..Depth, NEW i \in Nat
    PROVE  NodeAt(ly, l, i) =
              InternalHash(Depth - l, NodeAt(ly, l - 1, 2 * i), NodeAt(ly, l - 1, 2 * i + 1))
<1> USE DepthAssumption
<1> DEFINE L == ly[l - 1]
           m == l - 1
<1>1. m \in 0..Depth /\ Depth - m - 1 = Depth - l
  OBVIOUS
<1>2. ly[l] = ParentLayer(L, m) /\ DOMAIN L \subseteq Nat
  BY <1>1 DEF TreeOK
<1>3. NodeAt(ly, m, 2 * i) = ChildAt(L, m, 2 * i) /\ NodeAt(ly, m, 2 * i + 1) = ChildAt(L, m, 2 * i + 1)
  BY DEF NodeAt, ChildAt
<1>4. CASE i \in DOMAIN ly[l]
  <2> HIDE DEF L, m
  <2>1. ly[l][i] = InternalHash(Depth - m - 1, ChildAt(L, m, 2 * i), ChildAt(L, m, 2 * i + 1))
    BY <1>2, <1>4, ParentLayerDef
  <2>2. NodeAt(ly, l, i) = ly[l][i]
    BY <1>4 DEF NodeAt
  <2>3. QED
    BY <1>1, <1>3, <2>1, <2>2 DEF m
<1>5. CASE i \notin DOMAIN ly[l]
  <2>1. 2 * i \in Nat /\ 2 * i + 1 \in Nat /\ (2 * i + 0) \div 2 = i /\ (2 * i + 1) \div 2 = i
    BY Halves
  <2>2. 2 * i \notin DOMAIN L /\ 2 * i + 1 \notin DOMAIN L
    <3>1. DOMAIN ly[l] = {j \div 2 : j \in DOMAIN L}
      BY <1>2, ParentLayerDef
    <3> HIDE DEF L
    <3>2. QED
      BY <1>5, <2>1, <3>1
  <2>3. ChildAt(L, m, 2 * i) = DefaultHash[m] /\ ChildAt(L, m, 2 * i + 1) = DefaultHash[m]
    BY <2>2 DEF ChildAt
  <2>4. DefaultHash[l] = InternalHash(Depth - l, DefaultHash[m], DefaultHash[m])
    BY DefaultHashDef
  <2>5. NodeAt(ly, l, i) = DefaultHash[l]
    BY <1>5 DEF NodeAt
  <2> HIDE DEF L, m
  <2>6. QED
    BY <1>3, <2>3, <2>4, <2>5 DEF m
<1>6. QED
  BY <1>4, <1>5

\* A tree is determined by its leaf layer.
LEMMA TreeUnique ==
    ASSUME NEW x, NEW y, TreeOK(x), TreeOK(y), x[0] = y[0]
    PROVE  x = y
<1> USE DepthAssumption
<1> DEFINE T == {l \in 0..Depth : x[l] = y[l]}
<1>1. 0 \in T
  OBVIOUS
<1>2. ASSUME NEW l \in 0..(Depth - 1), l \in T PROVE l + 1 \in T
  <2>1. l + 1 \in 1..Depth /\ (l + 1) - 1 = l
    OBVIOUS
  <2>2. x[l + 1] = ParentLayer(x[l], l) /\ y[l + 1] = ParentLayer(y[l], l)
    BY <2>1 DEF TreeOK
  <2>3. QED
    BY <1>2, <2>2
<1> HIDE DEF T
<1>3. 0..Depth \subseteq T
  BY <1>1, <1>2, UpToInduction
<1>4. \A l \in 0..Depth : x[l] = y[l]
  BY <1>3 DEF T
<1>5. QED
  BY <1>4 DEF TreeOK, IsFcn

\* compute_layers builds a tree on any leaves.
LEMMA ComputedTree ==
    ASSUME IndexFits, NEW lv, DOMAIN lv \subseteq Address
    PROVE  TreeOK(ComputeLayers(lv)) /\ ComputeLayers(lv)[0] = LeafLayer(lv)
<1> USE DepthAssumption
<1> DEFINE ly == ComputeLayers(lv)
           T == {l \in 0..Depth : DOMAIN ly[l] \subseteq Nat}
<1>1. /\ IsFcn(ly) /\ DOMAIN ly = 0..Depth
      /\ ly[0] = LeafLayer(lv)
      /\ \A l \in 1..Depth : ly[l] = ParentLayer(ly[l - 1], l - 1)
  BY ComputeLayersDef
<1>3. IsFcn(LeafLayer(lv)) /\ DOMAIN LeafLayer(lv) \subseteq Nat
  <2>1. ASSUME NEW a \in DOMAIN lv PROVE LeafIndex(a) \in Nat
    BY KeyType, PrefixIndexStep DEF LeafIndex
  <2>2. QED
    BY <2>1 DEF LeafLayer, IsFcn
<1> HIDE DEF ly
<1>4. 0 \in T
  BY <1>1, <1>3
<1>5. ASSUME NEW l \in 0..(Depth - 1), l \in T PROVE l + 1 \in T
  <2>1. ly[l + 1] = ParentLayer(ly[l], l)
    BY <1>1
  <2>2. QED
    BY <1>5, <2>1, ParentDomain
<1> HIDE DEF T
<1>6. 0..Depth \subseteq T
  BY <1>4, <1>5, UpToInduction
<1>7. \A l \in 0..Depth : DOMAIN ly[l] \subseteq Nat
  BY <1>6 DEF T
<1>8. QED
  BY <1>1, <1>3, <1>7 DEF TreeOK, ly

\* Writing one node and rehashing its parent is recomputing the layer above.
LEMMA PutParent ==
    ASSUME NEW L, DOMAIN L \subseteq Nat, NEW i \in Nat, NEW v, NEW l \in Nat,
           NEW p, p = (IF i % 2 = 0
                         THEN InternalHash(Depth - l - 1, v, ChildAt(L, l, SiblingIndex(i)))
                         ELSE InternalHash(Depth - l - 1, ChildAt(L, l, SiblingIndex(i)), v))
    PROVE  ParentLayer(Put(L, i, v), l) = Put(ParentLayer(L, l), i \div 2, p)
<1> DEFINE M == Put(L, i, v)
           A == ParentLayer(M, l)
           B == Put(ParentLayer(L, l), i \div 2, p)
           h == i \div 2
<1>1. /\ DOMAIN M = DOMAIN L \cup {i} /\ M[i] = v
      /\ \A j \in DOMAIN L : j # i => M[j] = L[j]
  BY DEF Put
<1>2. h \in Nat /\ i % 2 \in {0, 1} /\ i = 2 * h + (i % 2)
  BY HalfAndBit
<1>3. ASSUME NEW j PROVE ChildAt(M, l, j) = IF j = i THEN v ELSE ChildAt(L, l, j)
  BY <1>1 DEF ChildAt
<1>4. /\ DOMAIN A = {j \div 2 : j \in DOMAIN M} /\ IsFcn(A)
      /\ \A k \in DOMAIN A :
            A[k] = InternalHash(Depth - l - 1, ChildAt(M, l, 2 * k), ChildAt(M, l, 2 * k + 1))
      /\ DOMAIN ParentLayer(L, l) = {j \div 2 : j \in DOMAIN L}
      /\ \A k \in DOMAIN ParentLayer(L, l) :
            ParentLayer(L, l)[k]
               = InternalHash(Depth - l - 1, ChildAt(L, l, 2 * k), ChildAt(L, l, 2 * k + 1))
  BY ParentLayerDef
<1>5. /\ DOMAIN B = DOMAIN ParentLayer(L, l) \cup {h} /\ IsFcn(B) /\ B[h] = p
      /\ \A k \in DOMAIN ParentLayer(L, l) : k # h => B[k] = ParentLayer(L, l)[k]
  BY DEF Put, IsFcn
<1>6. DOMAIN A \subseteq Nat
  BY <1>1, <1>4, HalfAndBit
<1>7. SiblingIndex(i) = IF i % 2 = 0 THEN i + 1 ELSE i - 1
  BY DEF SiblingIndex
<1> HIDE DEF M, A, B, h
<1>8. DOMAIN A = DOMAIN B
  <2>1. DOMAIN A = {j \div 2 : j \in DOMAIN L} \cup {i \div 2}
    BY <1>1, <1>4
  <2>2. QED
    BY <1>4, <1>5, <2>1 DEF h
<1>9. ASSUME NEW k \in DOMAIN A PROVE A[k] = B[k]
  <2>1. k \in Nat
    BY <1>6
  <2>2. A[k] = InternalHash(Depth - l - 1, ChildAt(M, l, 2 * k), ChildAt(M, l, 2 * k + 1))
    BY <1>4
  <2>3. CASE k = h
    <3>1. CASE i % 2 = 0
      <4>1. i = 2 * k /\ SiblingIndex(i) = 2 * k + 1 /\ 2 * k + 1 # i
        BY <1>2, <1>7, <2>1, <2>3, <3>1
      <4>2. ChildAt(M, l, 2 * k) = v /\ ChildAt(M, l, 2 * k + 1) = ChildAt(L, l, SiblingIndex(i))
        BY <1>3, <4>1
      <4>3. QED
        BY <1>5, <2>2, <2>3, <3>1, <4>2
    <3>2. CASE i % 2 = 1
      <4>1. i = 2 * k + 1 /\ SiblingIndex(i) = 2 * k /\ 2 * k # i
        BY <1>2, <1>7, <2>1, <2>3, <3>2
      <4>2. ChildAt(M, l, 2 * k + 1) = v /\ ChildAt(M, l, 2 * k) = ChildAt(L, l, SiblingIndex(i))
        BY <1>3, <4>1
      <4>3. i % 2 # 0
        BY <3>2
      <4>4. QED
        BY <1>5, <2>2, <2>3, <4>2, <4>3
    <3>3. QED
      BY <1>2, <3>1, <3>2
  <2>4. CASE k # h
    <3>1. 2 * k # i /\ 2 * k + 1 # i
      BY <1>2, <2>1, <2>4
    <3>2. ChildAt(M, l, 2 * k) = ChildAt(L, l, 2 * k) /\ ChildAt(M, l, 2 * k + 1) = ChildAt(L, l, 2 * k + 1)
      BY <1>3, <3>1
    <3>3. k \in DOMAIN ParentLayer(L, l)
      BY <1>5, <1>8, <2>4
    <3>4. B[k] = ParentLayer(L, l)[k]
      BY <1>5, <2>4, <3>3
    <3>5. QED
      BY <1>4, <2>2, <3>2, <3>3, <3>4
  <2>5. QED
    BY <2>3, <2>4
<1>10. A = B
  BY <1>4, <1>5, <1>8, <1>9 DEF IsFcn
<1>11. QED
  BY <1>10 DEF A, B, M, h

\* An upsert leaves a tree, in which only the slot of its key has changed.
LEMMA UpsertTree ==
    ASSUME IndexFits, NEW ly, TreeOK(ly), NEW key \in Keys, NEW h
    PROVE  /\ TreeOK(UpsertLayers(ly, key, h))
           /\ UpsertLayers(ly, key, h)[0] = Put(ly[0], PrefixIndex(key, Depth), h)
<1> USE DepthAssumption
<1>1. PICK f :
        /\ IsUpsertPath(f, ly, key, h)
        /\ IsFcn(UpsertLayers(ly, key, h)) /\ DOMAIN UpsertLayers(ly, key, h) = 0..Depth
        /\ \A l \in 0..Depth :
              UpsertLayers(ly, key, h)[l] = Put(ly[l], PathIndex(key, Depth)[l], f[l])
  BY UpsertLayersDef
<1> DEFINE u == UpsertLayers(ly, key, h)
           index(l) == PrefixIndex(key, Depth - l)
<1>2. ASSUME NEW l \in 0..Depth
      PROVE  index(l) \in Nat /\ PathIndex(key, Depth)[l] = index(l)
  <2>1. Depth - l \in 0..Depth /\ l \in 0..Depth
    OBVIOUS
  <2>2. QED
    BY <2>1, PathIndexIsPrefix, PrefixIndexStep
<1>3. /\ IsFcn(u) /\ DOMAIN u = 0..Depth
      /\ \A l \in 0..Depth : u[l] = Put(ly[l], index(l), f[l])
  <2>1. \A l \in 0..Depth : u[l] = Put(ly[l], PathIndex(key, Depth)[l], f[l])
    BY <1>1
  <2>2. IsFcn(u) /\ DOMAIN u = 0..Depth
    BY <1>1
  <2> HIDE DEF u, index
  <2>3. QED
    BY <1>2, <2>1, <2>2
<1> HIDE DEF u
<1>4. ASSUME NEW l \in 0..Depth
      PROVE  DOMAIN u[l] \subseteq Nat /\ IsFcn(u[l])
  <2>1. DOMAIN ly[l] \subseteq Nat
    BY DEF TreeOK
  <2>2. index(l) \in Nat /\ u[l] = Put(ly[l], index(l), f[l])
    BY <1>2, <1>3
  <2> HIDE DEF index
  <2>3. QED
    BY <2>1, <2>2 DEF Put, IsFcn
<1>5. ASSUME NEW l \in 1..Depth PROVE u[l] = ParentLayer(u[l - 1], l - 1)
  <2> DEFINE m == l - 1
             i == index(m)
             L == ly[m]
  <2>1. m \in 0..Depth /\ m \in Nat /\ l \in 0..Depth /\ Depth - m - 1 = Depth - l
    OBVIOUS
  <2>2. i \in Nat /\ PathIndex(key, Depth)[m] = i
    BY <1>2, <2>1
  <2>3. i \div 2 = index(l)
    <3> DEFINE e == Depth - l
    <3>1. e \in 0..(Depth - 1) /\ e \in 0..Depth /\ Depth - m = e + 1
      OBVIOUS
    <3> HIDE DEF e
    <3>2. PrefixIndex(key, Depth - m) = 2 * PrefixIndex(key, e) + KeyBit(key, e)
      BY <3>1, PrefixIndexStep
    <3>3. PrefixIndex(key, e) \in Nat /\ KeyBit(key, e) \in {0, 1}
      BY <3>1, PrefixIndexStep, KeyBitType
    <3>4. QED
      BY <3>2, <3>3, Halves DEF e
  <2>4. NodeAt(ly, m, SiblingIndex(i)) = ChildAt(L, m, SiblingIndex(i))
    BY DEF NodeAt, ChildAt
  <2>5. f[l] = IF i % 2 = 0
                 THEN InternalHash(Depth - l, f[m], NodeAt(ly, m, SiblingIndex(i)))
                 ELSE InternalHash(Depth - l, NodeAt(ly, m, SiblingIndex(i)), f[m])
    BY <1>1, <2>2 DEF IsUpsertPath
  <2>6. DOMAIN L \subseteq Nat /\ ly[l] = ParentLayer(L, m)
    BY <2>1 DEF TreeOK
  <2>7. u[l] = Put(ly[l], index(l), f[l]) /\ u[m] = Put(L, i, f[m])
    BY <1>3, <2>1
  <2> HIDE DEF m, i, L, index
  <2>8. ParentLayer(Put(L, i, f[m]), m) = Put(ParentLayer(L, m), i \div 2, f[l])
    BY <2>1, <2>2, <2>4, <2>5, <2>6, PutParent
  <2>9. QED
    BY <2>3, <2>6, <2>7, <2>8 DEF m
<1>6. u[0] = Put(ly[0], PrefixIndex(key, Depth), h)
  <2>1. 0 \in 0..Depth /\ Depth - 0 = Depth
    OBVIOUS
  <2>2. u[0] = Put(ly[0], index(0), f[0])
    BY <1>3, <2>1
  <2>3. f[0] = h
    BY <1>1 DEF IsUpsertPath
  <2>4. QED
    BY <2>1, <2>2, <2>3
<1>7. TreeOK(u)
  <2>1. IsFcn(u[0])
    BY <1>4
  <2>2. QED
    BY <1>3, <1>4, <1>5, <2>1 DEF TreeOK
<1>8. QED
  BY <1>6, <1>7 DEF u

\* Upserting the leaves of W leaves a tree; each slot holds a leaf of W that leads
\* to it, or else what it held before.
LEMMA UpsertAllTree ==
    ASSUME IndexFits, NEW ly, TreeOK(ly), NEW lv, NEW W \in SUBSET Address
    PROVE  /\ TreeOK(UpsertAll(ly, lv, W))
           /\ DOMAIN UpsertAll(ly, lv, W)[0] = DOMAIN ly[0] \cup {LeafIndex(a) : a \in W}
           /\ \A i \in DOMAIN UpsertAll(ly, lv, W)[0] :
                 \/ \E a \in W : /\ LeafIndex(a) = i
                                 /\ UpsertAll(ly, lv, W)[0][i] = HashOfLeaf(lv, a)
                 \/ /\ i \in DOMAIN ly[0] /\ \A a \in W : LeafIndex(a) # i
                    /\ UpsertAll(ly, lv, W)[0][i] = ly[0][i]
<1> USE NAssumption
<1>0. \A a \in W : a \in Nat /\ 1 <= a /\ a <= N
  BY DEF Address
<1>1. PICK after :
        /\ after[0] = ly
        /\ \A n \in Address :
              after[n] = IF n \in W
                           THEN UpsertLayers(after[n - 1], KeyOf(n), HashOfLeaf(lv, n))
                           ELSE after[n - 1]
        /\ UpsertAll(ly, lv, W) = after[N]
  BY UpsertAllDef
<1> DEFINE Upto(n) == {a \in W : a <= n}
           Right(x, n) ==
              /\ TreeOK(x)
              /\ DOMAIN x[0] = DOMAIN ly[0] \cup {LeafIndex(a) : a \in Upto(n)}
              /\ \A i \in DOMAIN x[0] :
                    \/ \E a \in Upto(n) : LeafIndex(a) = i /\ x[0][i] = HashOfLeaf(lv, a)
                    \/ /\ i \in DOMAIN ly[0] /\ \A a \in Upto(n) : LeafIndex(a) # i
                       /\ x[0][i] = ly[0][i]
           T == {n \in 0..N : Right(after[n], n)}
<1>2. 0 \in T
  <2>1. Upto(0) = {}
    BY <1>0
  <2>2. QED
    BY <1>1, <2>1
<1>3. ASSUME NEW m \in 0..(N - 1), m \in T PROVE m + 1 \in T
  <2> DEFINE n == m + 1
             x == after[m]
             y == after[n]
  <2>1. n \in Address /\ n \in 0..N /\ n - 1 = m
    BY DEF Address
  <2>2. Right(x, m)
    BY <1>3
  <2>3. y = IF n \in W THEN UpsertLayers(x, KeyOf(n), HashOfLeaf(lv, n)) ELSE x
    BY <1>1, <2>1
  <2>4. CASE n \notin W
    <3>1. Upto(n) = Upto(m) /\ y = x
      <4>1. \A a \in W : a <= n <=> a <= m
        BY <2>4 DEF Address
      <4>2. QED
        BY <4>1, <2>3, <2>4
    <3> HIDE DEF Upto, x, y
    <3>2. Right(y, n)
      BY <2>2, <3>1
    <3>3. QED
      BY <2>1, <3>2 DEF y
  <2>5. CASE n \in W
    <3>1. Upto(n) = Upto(m) \cup {n}
      <4>1. \A a \in W : a <= n <=> a <= m \/ a = n
        BY DEF Address
      <4>2. QED
        BY <4>1, <2>5
    <3>2. KeyOf(n) \in Keys
      BY <2>1, KeyType
    <3> HIDE DEF Upto, x, y
    <3>3. TreeOK(y) /\ y[0] = Put(x[0], LeafIndex(n), HashOfLeaf(lv, n))
      BY <2>2, <2>3, <2>5, <3>2, UpsertTree DEF LeafIndex
    <3>4. DOMAIN y[0] = DOMAIN x[0] \cup {LeafIndex(n)}
      BY <3>3 DEF Put
    <3>5. DOMAIN y[0] = DOMAIN ly[0] \cup {LeafIndex(a) : a \in Upto(n)}
      BY <2>2, <3>1, <3>4
    <3>6. ASSUME NEW i \in DOMAIN y[0]
          PROVE  \/ \E a \in Upto(n) : LeafIndex(a) = i /\ y[0][i] = HashOfLeaf(lv, a)
                 \/ /\ i \in DOMAIN ly[0] /\ \A a \in Upto(n) : LeafIndex(a) # i
                    /\ y[0][i] = ly[0][i]
      <4>1. CASE i = LeafIndex(n)
        <5>1. y[0][i] = HashOfLeaf(lv, n)
          BY <3>3, <3>4, <4>1 DEF Put
        <5>2. QED
          BY <3>1, <4>1, <5>1
      <4>2. CASE i # LeafIndex(n)
        <5>1. i \in DOMAIN x[0] /\ y[0][i] = x[0][i]
          BY <3>3, <3>4, <4>2 DEF Put
        <5>2. \/ \E a \in Upto(m) : LeafIndex(a) = i /\ x[0][i] = HashOfLeaf(lv, a)
              \/ /\ i \in DOMAIN ly[0] /\ \A a \in Upto(m) : LeafIndex(a) # i
                 /\ x[0][i] = ly[0][i]
          BY <2>2, <5>1
        <5>3. QED
          BY <3>1, <4>2, <5>1, <5>2
      <4>3. QED
        BY <4>1, <4>2
    <3>7. Right(y, n)
      BY <3>3, <3>5, <3>6
    <3> HIDE DEF Right
    <3>8. QED
      BY <2>1, <3>7 DEF y
  <2>6. QED
    BY <2>4, <2>5
<1>4. N \in T
  <2> HIDE DEF T
  <2>1. 0..N \subseteq T
    BY <1>2, <1>3, UpToInduction
  <2>2. QED
    BY <2>1
<1>5. Upto(N) = W
  BY <1>0
<1>6. Right(after[N], N)
  BY <1>4
<1> HIDE DEF Upto
<1>7. QED
  BY <1>1, <1>5, <1>6

\* A layer stores exactly the nodes on the paths to the slots in use.
LEMMA StoredNodes ==
    ASSUME IndexFits, NEW ly, TreeOK(ly), NEW S \in SUBSET Keys,
           DOMAIN ly[0] = {PrefixIndex(k, Depth) : k \in S}, NEW d \in 0..Depth
    PROVE  DOMAIN ly[Depth - d] = {PrefixIndex(k, d) : k \in S}
<1> USE DepthAssumption
<1> DEFINE T == {l \in 0..Depth : DOMAIN ly[l] = {PrefixIndex(k, Depth - l) : k \in S}}
<1>1. 0 \in T
  <2>1. Depth - 0 = Depth
    OBVIOUS
  <2>2. QED
    BY <2>1
<1>2. ASSUME NEW l \in 0..(Depth - 1), l \in T PROVE l + 1 \in T
  <2> DEFINE e == Depth - (l + 1)
  <2>1. e \in 0..(Depth - 1) /\ e \in 0..Depth /\ Depth - l = e + 1 /\ l + 1 \in 1..Depth
    OBVIOUS
  <2>2. ly[l + 1] = ParentLayer(ly[l], l)
    BY <2>1 DEF TreeOK
  <2>3. DOMAIN ly[l + 1] = {j \div 2 : j \in DOMAIN ly[l]}
    BY <2>2, ParentLayerDef
  <2> HIDE DEF e
  <2>4. ASSUME NEW k \in S PROVE PrefixIndex(k, Depth - l) \div 2 = PrefixIndex(k, e)
    <3>1. PrefixIndex(k, Depth - l) = 2 * PrefixIndex(k, e) + KeyBit(k, e)
      BY <2>1, PrefixIndexStep
    <3>2. PrefixIndex(k, e) \in Nat /\ KeyBit(k, e) \in {0, 1}
      BY <2>1, PrefixIndexStep, KeyBitType
    <3>3. QED
      BY <3>1, <3>2, Halves
  <2>5. DOMAIN ly[l] = {PrefixIndex(k, Depth - l) : k \in S}
    BY <1>2
  <2>6. DOMAIN ly[l + 1] = {PrefixIndex(k, e) : k \in S}
    BY <2>3, <2>4, <2>5
  <2>7. QED
    BY <2>1, <2>6 DEF e
<1>3. 0..Depth \subseteq T
  <2> HIDE DEF T
  <2> QED BY <1>1, <1>2, UpToInduction
<1>4. Depth - d \in 0..Depth /\ Depth - (Depth - d) = d
  OBVIOUS
<1>5. DOMAIN ly[Depth - d] = {PrefixIndex(k, Depth - (Depth - d)) : k \in S}
  BY <1>3, <1>4
<1>6. QED
  BY <1>4, <1>5

\* A digest fixes what was hashed.
LEMMA InternalHashInjective ==
    ASSUME NEW d, NEW l1, NEW r1, NEW l2, NEW r2,
           InternalHash(d, l1, r1) = InternalHash(d, l2, r2)
    PROVE  l1 = l2 /\ r1 = r2
<1> QED BY DEF InternalHash

\* The child of a node on the path to a key.
LEMMA ChildOnPath ==
    ASSUME IndexFits, NEW ly, TreeOK(ly), NEW key \in Keys, NEW m \in 0..(Depth - 1)
    PROVE  LET node == NodeAt(ly, Depth - m, PrefixIndex(key, m))
               child == NodeAt(ly, Depth - m - 1, PrefixIndex(key, m + 1))
               sibling == NodeAt(ly, Depth - m - 1, SiblingIndex(PrefixIndex(key, m + 1)))
           IN node = IF KeyBit(key, m) = 1 THEN InternalHash(m, sibling, child)
                                           ELSE InternalHash(m, child, sibling)
<1> USE DepthAssumption
<1> DEFINE p == PrefixIndex(key, m)
           q == PrefixIndex(key, m + 1)
           b == KeyBit(key, m)
           l == Depth - m
<1>1. p \in Nat /\ q = 2 * p + b
  BY PrefixIndexStep
<1>2. b \in {0, 1}
  BY KeyBitType
<1>3. l \in 1..Depth /\ Depth - l = m
  OBVIOUS
<1> HIDE DEF p, q, b, l
<1>4. NodeAt(ly, l, p) = InternalHash(m, NodeAt(ly, l - 1, 2 * p), NodeAt(ly, l - 1, 2 * p + 1))
  BY <1>1, <1>3, NodeEquation
<1>5. CASE b = 0
  <2>1. q = 2 * p /\ q % 2 = 0
    BY <1>1, <1>5
  <2>2. SiblingIndex(q) = 2 * p + 1
    BY <2>1 DEF SiblingIndex
  <2>3. QED
    BY <1>4, <1>5, <2>1, <2>2 DEF p, q, b, l
<1>6. CASE b = 1
  <2>1. q = 2 * p + 1 /\ q % 2 = 1
    BY <1>1, <1>2, <1>6, Halves
  <2>2. SiblingIndex(q) = 2 * p
    BY <1>1, <2>1 DEF SiblingIndex
  <2>3. QED
    BY <1>4, <1>6, <2>1, <2>2 DEF p, q, b, l
<1>7. QED
  BY <1>2, <1>5, <1>6

\* Whatever siblings a proof brings, a path that ends in the root starts in the
\* digest that the tree has at its index.
LEMMA FoldDown ==
    ASSUME IndexFits, NEW ly, TreeOK(ly), NEW key \in Keys, NEW d \in 0..Depth,
           NEW start, NEW siblings, FoldUp(key, d, start, siblings) = Root(ly)
    PROVE  start = NodeAt(ly, Depth - d, PrefixIndex(key, d))
<1> USE DepthAssumption
<1>1. PICK f : IsFold(f, key, d, start, siblings) /\ FoldUp(key, d, start, siblings) = f[d]
  BY FoldUpDef
<1> DEFINE Node(m) == NodeAt(ly, Depth - m, PrefixIndex(key, m))
           T == {m \in 0..d : f[d - m] = Node(m)}
<1>2. 0 \in T
  <2>1. PrefixIndex(key, 0) = 0 /\ Depth - 0 = Depth /\ d - 0 = d
    BY PrefixIndexStep
  <2>2. f[d] = Node(0)
    BY <1>1, <2>1 DEF Root
  <2>3. QED
    BY <2>1, <2>2
<1>3. ASSUME NEW m \in 0..(d - 1), m \in T PROVE m + 1 \in T
  <2> DEFINE l == d - m
             sibling == NodeAt(ly, Depth - m - 1, SiblingIndex(PrefixIndex(key, m + 1)))
  <2>1. l \in 1..d /\ d - l = m /\ l - 1 = d - (m + 1) /\ m \in 0..(Depth - 1)
        /\ Depth - m - 1 = Depth - (m + 1)
    OBVIOUS
  <2>2. Node(m) = IF KeyBit(key, m) = 1 THEN InternalHash(m, sibling, Node(m + 1))
                                        ELSE InternalHash(m, Node(m + 1), sibling)
    BY <2>1, ChildOnPath
  <2>3. f[l] = IF KeyBit(key, m) = 1 THEN InternalHash(m, siblings[l - 1], f[l - 1])
                                     ELSE InternalHash(m, f[l - 1], siblings[l - 1])
    BY <1>1, <2>1 DEF IsFold
  <2>4. f[l] = Node(m)
    BY <1>3
  <2> HIDE DEF Node, sibling, l
  <2>5. f[l - 1] = Node(m + 1)
    BY <2>2, <2>3, <2>4, InternalHashInjective
  <2>6. QED
    BY <2>1, <2>5
<1>4. d \in T
  <2> HIDE DEF T
  <2>1. 0..d \subseteq T
    BY <1>2, <1>3, UpToInduction
  <2>2. QED
    BY <2>1
<1>5. f[d - d] = Node(d) /\ d - d = 0
  BY <1>4
<1>6. QED
  BY <1>1, <1>5 DEF IsFold

\* A path that starts in the digest the tree has at its index, with the siblings
\* the tree stores, ends in the root.
LEMMA FoldComplete ==
    ASSUME IndexFits, NEW ly, TreeOK(ly), NEW key \in Keys, NEW d \in 0..Depth
    PROVE  FoldUp(key, d, NodeAt(ly, Depth - d, PrefixIndex(key, d)),
                  DefaultSiblings(ly, key, d)) = Root(ly)
<1> USE DepthAssumption
<1> DEFINE start == NodeAt(ly, Depth - d, PrefixIndex(key, d))
           siblings == DefaultSiblings(ly, key, d)
           Node(m) == NodeAt(ly, Depth - m, PrefixIndex(key, m))
<1>1. PICK f : IsFold(f, key, d, start, siblings) /\ FoldUp(key, d, start, siblings) = f[d]
  BY FoldUpDef
<1> DEFINE T == {l \in 0..d : f[l] = Node(d - l)}
<1>2. 0 \in T
  <2>1. d - 0 = d
    OBVIOUS
  <2>2. f[0] = Node(d)
    BY <1>1 DEF IsFold
  <2>3. QED
    BY <2>1, <2>2
<1>3. ASSUME NEW o \in 0..(d - 1), o \in T PROVE o + 1 \in T
  <2> DEFINE m == d - (o + 1)
             sibling == NodeAt(ly, Depth - m - 1, SiblingIndex(PrefixIndex(key, m + 1)))
  <2>1. /\ m \in 0..(Depth - 1) /\ m + 1 = d - o /\ Depth - m - 1 = Depth - d + o
        /\ o \in 0..d /\ o + 1 \in 1..d /\ (o + 1) - 1 = o
        /\ Depth - m - 1 = Depth - (m + 1)
    OBVIOUS
  <2>2. Node(m) = IF KeyBit(key, m) = 1 THEN InternalHash(m, sibling, Node(m + 1))
                                        ELSE InternalHash(m, Node(m + 1), sibling)
    BY <2>1, ChildOnPath
  <2>3. PathIndex(key, d)[o] = PrefixIndex(key, d - o)
    BY <2>1, PathIndexIsPrefix
  <2>4. siblings[o] = NodeAt(ly, Depth - d + o, SiblingIndex(PathIndex(key, d)[o]))
    BY DEF DefaultSiblings
  <2>5. siblings[o] = sibling
    BY <2>1, <2>3, <2>4
  <2>6. f[o + 1] = IF KeyBit(key, m) = 1 THEN InternalHash(m, siblings[o], f[o])
                                         ELSE InternalHash(m, f[o], siblings[o])
    BY <1>1, <2>1 DEF IsFold
  <2>7. f[o] = Node(m + 1)
    BY <1>3, <2>1
  <2> HIDE DEF Node, sibling, siblings, m
  <2>8. f[o + 1] = Node(m)
    BY <2>2, <2>5, <2>6, <2>7
  <2>9. QED
    BY <2>1, <2>8 DEF m
<1>4. d \in T
  <2> HIDE DEF T
  <2>1. 0..d \subseteq T
    BY <1>2, <1>3, UpToInduction
  <2>2. QED
    BY <2>1
<1>5. f[d] = Node(d - d) /\ d - d = 0
  BY <1>4
<1>6. PrefixIndex(key, 0) = 0 /\ Depth - 0 = Depth
  BY PrefixIndexStep
<1>7. QED
  BY <1>1, <1>5, <1>6 DEF Root

\* A membership proof is a path from the leaf layer.
LEMMA MembershipIsFullPath ==
    ASSUME NEW ly, NEW key
    PROVE  MembershipSiblings(ly, key) = DefaultSiblings(ly, key, Depth)
<1> USE DepthAssumption
<1>1. ASSUME NEW l \in 0..(Depth - 1)
      PROVE  Depth - Depth + l = l
  OBVIOUS
<1>2. QED
  BY <1>1 DEF MembershipSiblings, DefaultSiblings

\* Below a default digest there are only default digests, down to the slot.
LEMMA DefaultBelow ==
    ASSUME IndexFits, NEW ly, TreeOK(ly), NEW key \in Keys, NEW d \in 0..Depth,
           NodeAt(ly, Depth - d, PrefixIndex(key, d)) = DefaultHash[Depth - d]
    PROVE  NodeAt(ly, 0, PrefixIndex(key, Depth)) = <<"empty">>
<1> USE DepthAssumption
<1> DEFINE Node(m) == NodeAt(ly, Depth - m, PrefixIndex(key, m))
           T == {m \in 0..Depth : m >= d => Node(m) = DefaultHash[Depth - m]}
<1>1. 0 \in T
  <2>1. d = 0 \/ ~(0 >= d)
    OBVIOUS
  <2>2. QED
    BY <2>1
<1>2. ASSUME NEW m \in 0..(Depth - 1), m \in T PROVE m + 1 \in T
  <2> DEFINE n == m + 1
             sibling == NodeAt(ly, Depth - m - 1, SiblingIndex(PrefixIndex(key, n)))
             half == DefaultHash[Depth - n]
  <2>1. /\ n \in 0..Depth /\ Depth - m - 1 = Depth - n
        /\ Depth - m \in 1..Depth /\ Depth - (Depth - m) = m /\ (Depth - m) - 1 = Depth - n
    OBVIOUS
  <2>2. CASE n = d
    BY <2>2
  <2>3. CASE m >= d
    <3>1. Node(m) = DefaultHash[Depth - m]
      BY <1>2, <2>3
    <3>2. DefaultHash[Depth - m] = InternalHash(m, half, half)
      BY <2>1, DefaultHashDef
    <3>3. Node(m) = IF KeyBit(key, m) = 1 THEN InternalHash(m, sibling, Node(n))
                                          ELSE InternalHash(m, Node(n), sibling)
      BY <2>1, ChildOnPath
    <3> HIDE DEF Node, half, sibling, n
    <3>4. Node(n) = half
      BY <3>1, <3>2, <3>3, InternalHashInjective
    <3>5. QED
      BY <2>1, <3>4 DEF half, n
  <2>4. CASE n < d
    BY <2>4
  <2>5. QED
    BY <2>2, <2>3, <2>4
<1>3. Depth \in T
  <2> HIDE DEF T
  <2>1. 0..Depth \subseteq T
    BY <1>1, <1>2, UpToInduction
  <2>2. QED
    BY <2>1
<1>4. Depth - Depth = 0 /\ Depth >= d
  OBVIOUS
<1>5. Node(Depth) = DefaultHash[Depth - Depth]
  BY <1>3, <1>4
<1>6. DefaultHash[0] = <<"empty">>
  BY DefaultHashDef
<1>7. QED
  BY <1>4, <1>5, <1>6

\* Trees with one root have the same digest in every slot.
LEMMA RootFixesSlots ==
    ASSUME IndexFits, NEW x, NEW y, TreeOK(x), TreeOK(y), Root(x) = Root(y), NEW key \in Keys
    PROVE  NodeAt(x, 0, PrefixIndex(key, Depth)) = NodeAt(y, 0, PrefixIndex(key, Depth))
<1> USE DepthAssumption
<1>1. Depth \in 0..Depth /\ Depth - Depth = 0
  OBVIOUS
<1>2. FoldUp(key, Depth, NodeAt(x, 0, PrefixIndex(key, Depth)), DefaultSiblings(x, key, Depth))
         = Root(x)
  BY <1>1, FoldComplete
<1>3. QED
  BY <1>1, <1>2, FoldDown

-----------------------------------------------------------------------------
(* The slots of the leaves *)

\* The slots in use are the ones leaves lead to, and each holds such a leaf.
SlotsOK(ly, lv) ==
    /\ DOMAIN ly[0] = {LeafIndex(a) : a \in DOMAIN lv}
    /\ \A i \in DOMAIN ly[0] :
          \E a \in DOMAIN lv : LeafIndex(a) = i /\ ly[0][i] = HashOfLeaf(lv, a)

\* The slot of an address is a number.
LEMMA LeafIndexType ==
    ASSUME IndexFits, NEW a \in Address PROVE LeafIndex(a) \in Nat
<1> QED BY KeyType, PrefixIndexStep, DepthAssumption DEF LeafIndex

\* The leaf of a slot that compute_layers fills leads to it.
LEMMA SlotOwnerExists ==
    ASSUME NEW lv, DOMAIN lv \subseteq Address, NEW a \in DOMAIN lv
    PROVE  LET others == {b \in DOMAIN lv : LeafIndex(b) = LeafIndex(a)}
           IN Largest(others) \in others
<1> DEFINE others == {b \in DOMAIN lv : LeafIndex(b) = LeafIndex(a)}
<1>1. others \in SUBSET (0..N) /\ others # {}
  BY NAssumption DEF Address
<1> HIDE DEF others
<1>2. Largest(others) \in others
  BY <1>1, LargestExists, NAssumption
<1>3. QED
  BY <1>2 DEF others

\* compute_layers fills the slots as SlotsOK says.
LEMMA ComputedSlots ==
    ASSUME IndexFits, NEW lv, DOMAIN lv \subseteq Address
    PROVE  SlotsOK(ComputeLayers(lv), lv)
<1> DEFINE L == LeafLayer(lv)
           Owner(i) == Largest({b \in DOMAIN lv : LeafIndex(b) = i})
<1>1. ComputeLayers(lv)[0] = L
  BY ComputedTree
<1>2. /\ DOMAIN L = {LeafIndex(a) : a \in DOMAIN lv}
      /\ \A i \in DOMAIN L : L[i] = HashOfLeaf(lv, Owner(i))
  BY DEF LeafLayer
<1>3. ASSUME NEW i \in DOMAIN L PROVE Owner(i) \in DOMAIN lv /\ LeafIndex(Owner(i)) = i
  <2>1. PICK a \in DOMAIN lv : i = LeafIndex(a)
    BY <1>2
  <2>2. QED
    BY <2>1, SlotOwnerExists
<1> HIDE DEF L, Owner
<1>4. QED
  BY <1>1, <1>2, <1>3 DEF SlotsOK

\* What a verified membership path starts with is what the tree's slot holds.
LEMMA MembershipIsSlot ==
    ASSUME IndexFits, NEW ly, TreeOK(ly), NEW a \in Address, NEW b, NEW s, NEW sib,
           MembershipVerifies(Root(ly), KeyOf(a), b, s, sib)
    PROVE  LeafIndex(a) \in DOMAIN ly[0] /\ ly[0][LeafIndex(a)] = LeafHash(KeyOf(a), b, s)
<1> USE DepthAssumption
<1>1. Depth \in 0..Depth /\ Depth - Depth = 0 /\ KeyOf(a) \in Keys
  BY KeyType
<1>2. LeafHash(KeyOf(a), b, s) = NodeAt(ly, 0, LeafIndex(a))
  BY <1>1, FoldDown DEF MembershipVerifies, LeafIndex
<1>3. LeafHash(KeyOf(a), b, s) # <<"empty">>
  BY DEF LeafHash
<1>4. DefaultHash[0] = <<"empty">>
  BY DefaultHashDef
<1>5. QED
  BY <1>2, <1>3, <1>4 DEF NodeAt

\* The path that the tree hands out for a slot verifies with what the slot holds.
LEMMA SlotIsMembership ==
    ASSUME IndexFits, NEW ly, TreeOK(ly), NEW a \in Address, NEW b, NEW s,
           LeafIndex(a) \in DOMAIN ly[0], ly[0][LeafIndex(a)] = LeafHash(KeyOf(a), b, s)
    PROVE  MembershipVerifies(Root(ly), KeyOf(a), b, s, MembershipSiblings(ly, KeyOf(a)))
<1> USE DepthAssumption
<1>1. Depth \in 0..Depth /\ Depth - Depth = 0 /\ KeyOf(a) \in Keys
  BY KeyType
<1>2. NodeAt(ly, 0, PrefixIndex(KeyOf(a), Depth)) = LeafHash(KeyOf(a), b, s)
  BY DEF NodeAt, LeafIndex
<1>3. FoldUp(KeyOf(a), Depth, LeafHash(KeyOf(a), b, s), DefaultSiblings(ly, KeyOf(a), Depth))
         = Root(ly)
  BY <1>1, <1>2, FoldComplete
<1>4. DOMAIN MembershipSiblings(ly, KeyOf(a)) = 0..(Depth - 1)
  BY DEF MembershipSiblings
<1>5. QED
  BY <1>3, <1>4, MembershipIsFullPath DEF MembershipVerifies

\* A default proof is accepted, from whatever siblings, only for an empty slot.
LEMMA DefaultIsEmptySlot ==
    ASSUME IndexFits, NEW ly, NEW lv, TreeOK(ly), SlotsOK(ly, lv), NEW a \in Address,
           NEW proof, proof.depth \in Nat, DefaultVerifies(Root(ly), KeyOf(a), proof)
    PROVE  \A b \in DOMAIN lv : LeafIndex(b) # LeafIndex(a)
<1> USE DepthAssumption
<1>1. proof.depth \in 0..Depth /\ KeyOf(a) \in Keys
  BY KeyType DEF DefaultVerifies
<1>2. DefaultHash[Depth - proof.depth]
         = NodeAt(ly, Depth - proof.depth, PrefixIndex(KeyOf(a), proof.depth))
  BY <1>1, FoldDown DEF DefaultVerifies
<1>3. NodeAt(ly, 0, LeafIndex(a)) = <<"empty">>
  BY <1>1, <1>2, DefaultBelow DEF LeafIndex
<1>4. LeafIndex(a) \notin DOMAIN ly[0]
  <2>1. SUFFICES ASSUME LeafIndex(a) \in DOMAIN ly[0] PROVE FALSE
    OBVIOUS
  <2>2. PICK b \in DOMAIN lv : ly[0][LeafIndex(a)] = HashOfLeaf(lv, b)
    BY <2>1 DEF SlotsOK
  <2>3. HashOfLeaf(lv, b) # <<"empty">>
    BY DEF HashOfLeaf, LeafHash
  <2>4. QED
    BY <1>3, <2>1, <2>2, <2>3 DEF NodeAt
<1>5. QED
  BY <1>4 DEF SlotsOK

\* A collision proof is accepted only if its own address holds the slot.
LEMMA CollisionIsSlot ==
    ASSUME IndexFits, NEW ly, TreeOK(ly), NEW a \in Address,
           NEW proof, proof.address \in Address, CollisionVerifies(Root(ly), KeyOf(a), proof)
    PROVE  /\ KeyOf(proof.address) # KeyOf(a)
           /\ LeafIndex(proof.address) = LeafIndex(a)
           /\ LeafIndex(a) \in DOMAIN ly[0]
           /\ ly[0][LeafIndex(a)] = LeafHash(KeyOf(proof.address), proof.balance, proof.salt)
<1>1. KeyOf(a) \in Keys /\ KeyOf(proof.address) \in Keys
  BY KeyType
<1>2. LeafIndex(proof.address) = LeafIndex(a) /\ KeyOf(proof.address) # KeyOf(a)
  BY <1>1, CommonPrefixLenIsDepth DEF CollisionVerifies, LeafIndex
<1>3. QED
  BY <1>2, MembershipIsSlot DEF CollisionVerifies

\* The depth of a default proof is a depth of the tree, and no leaf lies below it
\* on the key's path.
LEMMA DefaultDepth ==
    ASSUME IndexFits, NEW lv, DOMAIN lv \subseteq Address, NEW key \in Keys,
           SharesPath(lv, key) = {}
    PROVE  /\ DefaultSubtreeDepth(lv, key) \in 0..Depth
           /\ \A a \in DOMAIN lv : PrefixIndex(KeyOf(a), DefaultSubtreeDepth(lv, key))
                                     # PrefixIndex(key, DefaultSubtreeDepth(lv, key))
<1> USE DepthAssumption
<1>1. CASE DOMAIN lv = {}
  BY <1>1 DEF DefaultSubtreeDepth
<1>2. CASE DOMAIN lv # {}
  <2> DEFINE C(a) == CommonPrefixLen(KeyOf(a), key)
             S == {C(a) : a \in DOMAIN lv}
             m == Largest(S)
  <2>1. ASSUME NEW a \in DOMAIN lv
        PROVE  /\ C(a) \in 0..Depth /\ C(a) # Depth
               /\ \A d \in 0..Depth : d <= C(a)
                                         <=> PrefixIndex(KeyOf(a), d) = PrefixIndex(key, d)
    <3>1. KeyOf(a) \in Keys
      BY KeyType
    <3>2. C(a) # Depth
      BY DEF SharesPath
    <3>3. QED
      BY <3>1, <3>2, CommonPrefixLenIsDepth
  <2> HIDE DEF C
  <2>2. S \in SUBSET (0..Depth) /\ S # {}
    BY <1>2, <2>1
  <2>3. m \in S /\ \A c \in S : c <= m
    BY <2>2, LargestExists
  <2>4. m \in 0..(Depth - 1)
    BY <2>1, <2>3
  <2>5. DefaultSubtreeDepth(lv, key) = Smallest({Depth, m + 1})
    BY <1>2 DEF DefaultSubtreeDepth, C
  <2> HIDE DEF m
  <2>6. Smallest({Depth, m + 1}) = m + 1
    <3>1. {Depth, m + 1} \in SUBSET Nat
      BY <2>4
    <3>2. /\ Smallest({Depth, m + 1}) \in {Depth, m + 1}
          /\ \A y \in {Depth, m + 1} : Smallest({Depth, m + 1}) <= y
      BY <3>1, SmallestExists
    <3>3. QED
      BY <2>4, <3>2
  <2>7. m + 1 \in 0..Depth
    BY <2>4
  <2>8. ASSUME NEW a \in DOMAIN lv
        PROVE  PrefixIndex(KeyOf(a), m + 1) # PrefixIndex(key, m + 1)
    <3>1. C(a) <= m /\ C(a) \in 0..Depth
      BY <2>1, <2>3
    <3>2. ~(m + 1 <= C(a))
      BY <2>4, <3>1
    <3>3. QED
      BY <2>1, <2>7, <3>2
  <2>9. QED
    BY <2>5, <2>6, <2>7, <2>8
<1>3. QED
  BY <1>1, <1>2

\* The default proof that the tree hands out for a path without a leaf verifies.
LEMMA HonestDefault ==
    ASSUME IndexFits, NEW ly, NEW lv, TreeOK(ly), SlotsOK(ly, lv), DOMAIN lv \subseteq Address,
           NEW key \in Keys, SharesPath(lv, key) = {},
           NEW d, d = DefaultSubtreeDepth(lv, key)
    PROVE  DefaultVerifies(Root(ly), key,
              [kind |-> "default", depth |-> d, siblings |-> DefaultSiblings(ly, key, d)])
<1> USE DepthAssumption
<1> DEFINE S == {KeyOf(a) : a \in DOMAIN lv}
<1>1. d \in 0..Depth /\ \A k \in S : PrefixIndex(k, d) # PrefixIndex(key, d)
  BY DefaultDepth
<1>2. S \in SUBSET Keys
  BY KeyType
<1>3. DOMAIN ly[0] = {PrefixIndex(k, Depth) : k \in S}
  BY DEF SlotsOK, LeafIndex
<1> HIDE DEF S
<1>4. PrefixIndex(key, d) \notin DOMAIN ly[Depth - d]
  BY <1>1, <1>2, <1>3, StoredNodes
<1>5. NodeAt(ly, Depth - d, PrefixIndex(key, d)) = DefaultHash[Depth - d]
  BY <1>4 DEF NodeAt
<1>6. FoldUp(key, d, DefaultHash[Depth - d], DefaultSiblings(ly, key, d)) = Root(ly)
  BY <1>1, <1>5, FoldComplete
<1>7. d <= Depth /\ DOMAIN DefaultSiblings(ly, key, d) = 0..(d - 1)
  BY <1>1 DEF DefaultSiblings
<1>8. QED
  BY <1>6, <1>7 DEF DefaultVerifies

\* An entry verified as a member is one of the tree's leaves.
LEMMA MemberEntriesTracked ==
    ASSUME NEW w, UpdateVerifies(w)
    PROVE  MemberEntries(w) \subseteq DOMAIN leaves
<1> QED
  BY DEF UpdateVerifies, MemberEntries, AddressProofVerifies, NonMembershipVerifies

-----------------------------------------------------------------------------
(* Type correctness *)

\* A salt made for a known address and an integer balance is one of Salts.
LEMMA SaltType ==
    ASSUME NEW a \in Address, NEW b \in Int
    PROVE  FreshSalt("init", a, b) \in Salts /\ FreshSalt("insert", a, b) \in Salts
<1> QED BY DEF FreshSalt, Salts

\* The leaves made from a reserve list are typed.
LEMMA NewLeavesType ==
    ASSUME NEW r \in Reserves
    PROVE  /\ DOMAIN NewLeaves(r) = DOMAIN r /\ DOMAIN r \subseteq Address
           /\ NewLeaves(r) \in [DOMAIN NewLeaves(r) -> [balance : Int, salt : Salts]]
<1>1. DOMAIN r \subseteq Address /\ \A a \in DOMAIN r : r[a] \in Int
  BY ReservesAssumption
<1>2. ASSUME NEW a \in DOMAIN r
      PROVE  [balance |-> r[a], salt |-> FreshSalt("init", a, r[a])]
                \in [balance : Int, salt : Salts]
  BY <1>1, SaltType
<1>3. QED
  BY <1>1, <1>2 DEF NewLeaves

\* The deltas of the entries that are members are integers on known addresses.
LEMMA MemberDeltaType ==
    ASSUME NEW w, w.delta \in DeltaLists
    PROVE  /\ MemberEntries(w) \in SUBSET Address
           /\ MemberDelta(w) \in [MemberEntries(w) -> Int]
           /\ OrZero(MemberDelta(w)) \in [Address -> Int]
<1>1. /\ DOMAIN w.delta \subseteq Address
      /\ \A a \in DOMAIN w.delta : w.delta[a] \in Int
  BY DeltaListsAssumption
<1>2. /\ MemberEntries(w) \in SUBSET Address
      /\ MemberDelta(w) \in [MemberEntries(w) -> Int]
  BY <1>1 DEF MemberEntries, MemberDelta
<1>3. QED
  BY <1>2, OrZeroType

\* WriteUpdate and WriteInsert, which are all that apply actions write, keep the
\* state typed.
LEMMA WriteUpdateType ==
    ASSUME TypeOK, NEW w \in held, w.op = "update", WriteUpdate(w) PROVE TypeOK'
<1>1. WitnessOK(w) /\ w.delta \in DeltaLists
  BY DEF TypeOK, WitnessOK
<1>2. Aggregate(w) \in Int
  BY <1>1, MemberDeltaType, TotalType, WrapType DEF Aggregate
<1>3. total' \in Int
  <2>1. total + Aggregate(w) \in Int
    BY <1>2 DEF TypeOK
  <2>2. QED
    BY <2>1, WrapType DEF WriteUpdate, UpdatedTotal
<1>4. DOMAIN layers' = 0..Depth
  BY UpsertAllDomain DEF WriteUpdate, UpdatedLayers, TypeOK
<1>5. leaves' \in [DOMAIN leaves -> [balance : Int, salt : Salts]]
  <2>1. ASSUME NEW a \in DOMAIN leaves
        PROVE  UpdatedLeaves(w)[a] \in [balance : Int, salt : Salts]
    <3>1. leaves[a] \in [balance : Int, salt : Salts]
      BY DEF TypeOK
    <3>2. a \in MemberEntries(w) => w.delta[a] \in Int
      BY <1>1, DeltaListsAssumption DEF MemberEntries
    <3>3. QED
      BY <3>1, <3>2 DEF UpdatedLeaves
  <2>2. QED
    BY <2>1 DEF WriteUpdate, UpdatedLeaves
<1>6. DOMAIN leaves' = DOMAIN leaves /\ held' = held
  BY DEF WriteUpdate, UpdatedLeaves
<1>7. QED
  BY <1>3, <1>4, <1>5, <1>6 DEF TypeOK, WitnessOK

\* An insertion keeps the type.
LEMMA WriteInsertType ==
    ASSUME TypeOK, NEW w \in held, w.op = "insert", WriteInsert(w) PROVE TypeOK'
<1>1. w.address \in Address /\ w.balance \in Int /\ w.salt \in Salts
  BY InsertBalancesAssumption DEF TypeOK, WitnessOK
<1>2. total' \in Int
  <2>1. total + w.balance \in Int
    BY <1>1 DEF TypeOK
  <2>2. QED
    BY <2>1, WrapType DEF WriteInsert
<1>3. DOMAIN layers' = 0..Depth
  BY UpsertAllDomain DEF WriteInsert, InsertedLayers, TypeOK
<1>4. /\ DOMAIN leaves' = DOMAIN leaves \cup {w.address}
      /\ leaves' \in [DOMAIN leaves \cup {w.address} -> [balance : Int, salt : Salts]]
  BY <1>1 DEF WriteInsert, InsertedLeaves, Put, TypeOK
<1>5. QED
  BY <1>1, <1>2, <1>3, <1>4 DEF WriteInsert, TypeOK, WitnessOK

\* TypeOK is an invariant: whatever witnesses are held and applied, the leaves
\* stay typed records under known addresses and the layers one per level.
THEOREM TypeCorrect == Spec => []TypeOK
<1>1. Init => TypeOK
  <2> SUFFICES ASSUME NEW r \in Reserves,
                      leaves = NewLeaves(r),
                      layers = ComputeLayers(NewLeaves(r)),
                      total = Wrap(Total(OrZero(r))),
                      held = {}
               PROVE  TypeOK
    BY DEF Init
  <2>1. total \in Int
    <3>1. r \in [DOMAIN r -> Int] /\ DOMAIN r \in SUBSET Address
      BY ReservesAssumption
    <3>2. QED
      BY <3>1, OrZeroType, TotalType, WrapType
  <2>2. QED
    BY <2>1, NewLeavesType, ComputeLayersDef DEF TypeOK
<1>2. TypeOK /\ [Next]_vars => TypeOK'
  <2> SUFFICES ASSUME TypeOK, [Next]_vars PROVE TypeOK'
    OBVIOUS
  <2>1. ASSUME NEW d \in DeltaLists, BuildUpdateWitness(d) PROVE TypeOK'
    <3>1. WitnessOK(UpdateWitness(d))
      BY DEF WitnessOK, UpdateWitness
    <3>2. QED
      BY <2>1, <3>1 DEF BuildUpdateWitness, TypeOK, WitnessOK
  <2>2. ASSUME NEW a \in Address, NEW b \in InsertBalances, BuildInsertWitness(a, b)
        PROVE  TypeOK'
    <3>1. WitnessOK(InsertWitness(a, b))
      BY SaltType, InsertBalancesAssumption DEF WitnessOK, InsertWitness
    <3>2. QED
      BY <2>2, <3>1 DEF BuildInsertWitness, TypeOK, WitnessOK
  <2>3. ASSUME NEW w \in held, Discard(w) PROVE TypeOK'
    BY <2>3 DEF Discard, TypeOK, WitnessOK
  <2>4. ASSUME NEW w \in held, ApplyUpdate(w) \/ LateRejectedUpdate(w) PROVE TypeOK'
    BY <2>4, WriteUpdateType DEF ApplyUpdate, LateRejectedUpdate
  <2>5. ASSUME NEW w \in held, ApplyInsert(w) \/ LateRejectedInsert(w) PROVE TypeOK'
    BY <2>5, WriteInsertType DEF ApplyInsert, LateRejectedInsert
  <2>6. CASE Reload
    BY <2>6, ComputeLayersDef DEF Reload, TypeOK, WitnessOK
  <2>7. CASE UNCHANGED vars
    BY <2>7 DEF vars, TypeOK, WitnessOK
  <2>8. QED
    BY <2>1, <2>2, <2>3, <2>4, <2>5, <2>6, <2>7 DEF Next
<1>3. QED
  BY <1>1, <1>2, PTL DEF Spec

-----------------------------------------------------------------------------
(* The total is the sum of the balances *)

\* An i128 sum that does not overflow has its exact value.
LEMMA NewTotalIsSum ==
    ASSUME NEW r \in Reserves, SumFits(OrZero(r))
    PROVE  Wrap(Total(OrZero(r))) = Total(OrZero(BalanceOf(NewLeaves(r))))
<1>1. r \in [DOMAIN r -> Int] /\ DOMAIN r \in SUBSET Address
  BY ReservesAssumption
<1>2. Total(OrZero(r)) \in Int
  BY <1>1, OrZeroType, TotalType
<1>3. InI128(Total(OrZero(r)))
  BY NAssumption DEF SumFits, Total
<1>4. OrZero(BalanceOf(NewLeaves(r))) = OrZero(r)
  BY DEF BalanceOf, NewLeaves, OrZero
<1>5. QED
  BY <1>2, <1>3, <1>4, WrapInRange

\* In the checked build the aggregate of a window is the exact sum of the
\* deltas of its members, and the new total the old one plus that sum.
LEMMA UpdatedTotalExact ==
    ASSUME OverflowPanics, TypeOK, NEW w \in held, w.op = "update", WriteUpdate(w)
    PROVE  /\ Aggregate(w) = Total(OrZero(MemberDelta(w)))
           /\ total' = total + Aggregate(w)
<1>1. OrZero(MemberDelta(w)) \in [Address -> Int]
  BY MemberDeltaType DEF TypeOK, WitnessOK
<1>2. /\ SumFits(OrZero(MemberDelta(w)))
      /\ InI128(total + Aggregate(w))
      /\ total' = Wrap(total + Aggregate(w))
  BY DEF WriteUpdate, UpdateDoesNotPanic, UpdatedTotal
<1>3. Total(OrZero(MemberDelta(w))) \in Int /\ InI128(Total(OrZero(MemberDelta(w))))
  BY <1>1, <1>2, TotalType, NAssumption DEF SumFits, Total
<1>4. Aggregate(w) = Total(OrZero(MemberDelta(w)))
  BY <1>3, WrapInRange DEF Aggregate
<1>5. total + Aggregate(w) \in Int
  BY <1>3, <1>4 DEF TypeOK
<1>6. QED
  BY <1>2, <1>4, <1>5, WrapInRange

\* The balances of all leaves, as a function on all addresses, are integers.
LEMMA BalancesType ==
    ASSUME TypeOK PROVE OrZero(BalanceOf(leaves)) \in [Address -> Int]
<1>1. DOMAIN leaves \in SUBSET Address /\ BalanceOf(leaves) \in [DOMAIN leaves -> Int]
  BY DEF TypeOK, BalanceOf
<1>2. QED
  BY <1>1, OrZeroType

\* An update changes the sum of the balances by the deltas of its members: every
\* member it counts is a leaf, and no other leaf is touched.
LEMMA UpdatedSum ==
    ASSUME TypeOK, NEW w \in held, w.op = "update", WriteUpdate(w)
    PROVE  Total(OrZero(BalanceOf(leaves')))
              = Total(OrZero(BalanceOf(leaves))) + Total(OrZero(MemberDelta(w)))
<1> DEFINE before == OrZero(BalanceOf(leaves))
           moved  == OrZero(MemberDelta(w))
           after  == OrZero(BalanceOf(UpdatedLeaves(w)))
<1>1. before \in [Address -> Int] /\ moved \in [Address -> Int]
  BY BalancesType, MemberDeltaType DEF TypeOK, WitnessOK
<1>2. MemberEntries(w) \subseteq DOMAIN leaves
  BY MemberEntriesTracked DEF WriteUpdate
<1>3. ASSUME NEW a \in Address PROVE after[a] = before[a] + moved[a]
  <2>1. CASE a \in MemberEntries(w)
    <3>1. a \in DOMAIN leaves
      BY <1>2, <2>1
    <3>2. /\ after[a] = leaves[a].balance + w.delta[a]
          /\ before[a] = leaves[a].balance
          /\ moved[a] = w.delta[a]
      BY <2>1, <3>1 DEF UpdatedLeaves, BalanceOf, MemberDelta, OrZero
    <3>3. QED
      BY <3>2
  <2>2. CASE a \notin MemberEntries(w)
    <3>1. moved[a] = 0
      BY <2>2 DEF MemberDelta, OrZero
    <3>2. after[a] = before[a]
      BY <2>2 DEF UpdatedLeaves, BalanceOf, OrZero
    <3>3. QED
      BY <1>1, <3>1, <3>2
  <2>3. QED
    BY <2>1, <2>2
<1>4. after \in [Address -> Int]
  <2>1. DOMAIN after = Address /\ after = [a \in Address |-> after[a]]
    BY DEF OrZero
  <2> HIDE DEF after, before, moved
  <2>2. ASSUME NEW a \in Address PROVE after[a] \in Int
    BY <1>1, <1>3
  <2>3. QED
    BY <2>1, <2>2
<1>5. leaves' = UpdatedLeaves(w)
  BY DEF WriteUpdate
<1> HIDE DEF after, before, moved
<1>6. Total(after) = Total(before) + Total(moved)
  BY <1>1, <1>3, <1>4, TotalAdds
<1>7. QED
  BY <1>5, <1>6 DEF after, before, moved

\* An insertion changes the sum by the balance of the new leaf: its address was
\* not a leaf before.
LEMMA InsertedSum ==
    ASSUME TypeOK, NEW w \in held, w.op = "insert", WriteInsert(w)
    PROVE  Total(OrZero(BalanceOf(leaves')))
              = Total(OrZero(BalanceOf(leaves))) + w.balance
<1> DEFINE before == OrZero(BalanceOf(leaves))
           moved  == [a \in Address |-> IF a = w.address THEN w.balance ELSE 0]
           after  == OrZero(BalanceOf(InsertedLeaves(w)))
<1>1. w.address \in Address /\ w.balance \in Int
  BY InsertBalancesAssumption DEF TypeOK, WitnessOK
<1>2. before \in [Address -> Int] /\ moved \in [Address -> Int]
  BY <1>1, BalancesType
<1>3. w.address \notin DOMAIN leaves
  BY DEF WriteInsert, InsertVerifies
<1>4. ASSUME NEW a \in Address PROVE after[a] = before[a] + moved[a]
  <2>1. CASE a = w.address
    <3>1. after[a] = w.balance /\ before[a] = 0 /\ moved[a] = w.balance
      BY <1>3, <2>1 DEF InsertedLeaves, Put, BalanceOf, OrZero
    <3>2. QED
      BY <1>1, <3>1
  <2>2. CASE a # w.address
    <3>1. after[a] = before[a] /\ moved[a] = 0
      BY <2>2 DEF InsertedLeaves, Put, BalanceOf, OrZero
    <3>2. QED
      BY <1>2, <3>1
  <2>3. QED
    BY <2>1, <2>2
<1>5. after \in [Address -> Int]
  <2>1. DOMAIN after = Address /\ after = [a \in Address |-> after[a]]
    BY DEF OrZero
  <2> HIDE DEF after, before, moved
  <2>2. ASSUME NEW a \in Address PROVE after[a] \in Int
    BY <1>2, <1>4
  <2>3. QED
    BY <2>1, <2>2
<1>6. leaves' = InsertedLeaves(w)
  BY DEF WriteInsert
<1>7. Total(moved) = w.balance
  BY <1>1, <1>2, TotalOfOne
<1> HIDE DEF after, before, moved
<1>8. Total(after) = Total(before) + Total(moved)
  BY <1>2, <1>4, <1>5, TotalAdds
<1>9. QED
  BY <1>6, <1>7, <1>8 DEF after, before

\* In the checked build balance_total is the sum of the leaves' balances after
\* every history of builds, updates, insertions and reloads, with witnesses
\* held, repeated and reordered at will.
THEOREM TotalCorrect ==
    ASSUME OverflowPanics PROVE Spec => []TotalIsSum
<1>1. Init => TotalIsSum
  BY NewTotalIsSum DEF Init, TotalIsSum
<1>2. TypeOK /\ TotalIsSum /\ [Next]_vars => TotalIsSum'
  <2> SUFFICES ASSUME TypeOK, TotalIsSum, [Next]_vars PROVE TotalIsSum'
    OBVIOUS
  <2> USE DEF TotalIsSum
  <2>1. ASSUME NEW d \in DeltaLists, BuildUpdateWitness(d) PROVE TotalIsSum'
    BY <2>1 DEF BuildUpdateWitness
  <2>2. ASSUME NEW a \in Address, NEW b \in InsertBalances, BuildInsertWitness(a, b)
        PROVE  TotalIsSum'
    BY <2>2 DEF BuildInsertWitness
  <2>3. ASSUME NEW w \in held, Discard(w) PROVE TotalIsSum'
    BY <2>3 DEF Discard
  <2>4. ASSUME NEW w \in held, ApplyUpdate(w) \/ LateRejectedUpdate(w) PROVE TotalIsSum'
    <3>1. w.op = "update" /\ WriteUpdate(w)
      BY <2>4 DEF ApplyUpdate, LateRejectedUpdate
    <3>2. QED
      BY <3>1, UpdatedTotalExact, UpdatedSum
  <2>5. ASSUME NEW w \in held, ApplyInsert(w) \/ LateRejectedInsert(w) PROVE TotalIsSum'
    <3>1. w.op = "insert" /\ WriteInsert(w)
      BY <2>5 DEF ApplyInsert, LateRejectedInsert
    <3>2. total + w.balance \in Int /\ InI128(total + w.balance)
      BY <3>1, InsertBalancesAssumption DEF WriteInsert, TypeOK, WitnessOK
    <3>3. total' = total + w.balance
      BY <3>1, <3>2, WrapInRange DEF WriteInsert
    <3>4. QED
      BY <3>1, <3>3, InsertedSum
  <2>6. CASE Reload
    BY <2>6 DEF Reload
  <2>7. CASE UNCHANGED vars
    BY <2>7 DEF vars
  <2>8. QED
    BY <2>1, <2>2, <2>3, <2>4, <2>5, <2>6, <2>7 DEF Next
<1>3. QED
  BY <1>1, <1>2, TypeCorrect, PTL DEF Spec

-----------------------------------------------------------------------------
(* The total in every build *)

\* In every build balance_total is the sum of the leaves' balances modulo the
\* i128 range: additions that wrap, of a window's deltas, of its aggregate and of
\* an insertion, lose whole turns of the range and nothing else, also in an
\* operation that wrote the state and then reported an error.
THEOREM TotalCorrectModWidth == Spec => []TotalIsSumModWidth
<1>1. Init => TotalIsSumModWidth
  <2> SUFFICES ASSUME NEW r \in Reserves, leaves = NewLeaves(r), total = Wrap(Total(OrZero(r)))
               PROVE  TotalIsSumModWidth
    BY DEF Init
  <2>1. OrZero(BalanceOf(NewLeaves(r))) = OrZero(r)
    BY DEF BalanceOf, NewLeaves, OrZero
  <2>2. QED
    BY <2>1 DEF TotalIsSumModWidth
<1>2. TypeOK /\ TotalIsSumModWidth /\ [Next]_vars => TotalIsSumModWidth'
  <2> SUFFICES ASSUME TypeOK, TotalIsSumModWidth, [Next]_vars PROVE TotalIsSumModWidth'
    OBVIOUS
  <2> DEFINE sum == Total(OrZero(BalanceOf(leaves)))
  <2>0. sum \in Int /\ total = Wrap(sum)
    BY BalancesType, TotalType DEF TotalIsSumModWidth
  <2>1. ASSUME NEW d \in DeltaLists, BuildUpdateWitness(d) PROVE TotalIsSumModWidth'
    BY <2>1 DEF BuildUpdateWitness, TotalIsSumModWidth
  <2>2. ASSUME NEW a \in Address, NEW b \in InsertBalances, BuildInsertWitness(a, b)
        PROVE  TotalIsSumModWidth'
    BY <2>2 DEF BuildInsertWitness, TotalIsSumModWidth
  <2>3. ASSUME NEW w \in held, Discard(w) PROVE TotalIsSumModWidth'
    BY <2>3 DEF Discard, TotalIsSumModWidth
  <2>4. ASSUME NEW w \in held, ApplyUpdate(w) \/ LateRejectedUpdate(w)
        PROVE  TotalIsSumModWidth'
    <3> DEFINE moved == Total(OrZero(MemberDelta(w)))
    <3>1. w.op = "update" /\ WriteUpdate(w)
      BY <2>4 DEF ApplyUpdate, LateRejectedUpdate
    <3>2. moved \in Int
      BY <3>1, MemberDeltaType, TotalType DEF TypeOK, WitnessOK
    <3>3. total' = Wrap(Wrap(sum) + Wrap(moved))
      BY <2>0, <3>1 DEF WriteUpdate, UpdatedTotal, Aggregate
    <3>4. Total(OrZero(BalanceOf(leaves'))) = sum + moved
      BY <3>1, UpdatedSum
    <3> HIDE DEF sum, moved
    <3>5. Wrap(Wrap(sum) + Wrap(moved)) = Wrap(sum + Wrap(moved))
      BY <2>0, <3>2, WrapType, WrapAdds
    <3>6. Wrap(Wrap(moved) + sum) = Wrap(moved + sum)
      BY <2>0, <3>2, WrapAdds
    <3>7. sum + Wrap(moved) = Wrap(moved) + sum /\ moved + sum = sum + moved
      BY <2>0, <3>2, WrapType
    <3>8. QED
      BY <3>3, <3>4, <3>5, <3>6, <3>7 DEF TotalIsSumModWidth
  <2>5. ASSUME NEW w \in held, ApplyInsert(w) \/ LateRejectedInsert(w)
        PROVE  TotalIsSumModWidth'
    <3>1. w.op = "insert" /\ WriteInsert(w)
      BY <2>5 DEF ApplyInsert, LateRejectedInsert
    <3>2. w.balance \in Int
      BY <3>1, InsertBalancesAssumption DEF TypeOK, WitnessOK
    <3>3. total' = Wrap(Wrap(sum) + w.balance)
      BY <2>0, <3>1 DEF WriteInsert
    <3>4. Total(OrZero(BalanceOf(leaves'))) = sum + w.balance
      BY <3>1, InsertedSum
    <3> HIDE DEF sum
    <3>5. QED
      BY <2>0, <3>2, <3>3, <3>4, WrapAdds DEF TotalIsSumModWidth
  <2>6. CASE Reload
    BY <2>6 DEF Reload, TotalIsSumModWidth
  <2>7. CASE UNCHANGED vars
    BY <2>7 DEF vars, TotalIsSumModWidth
  <2>8. QED
    BY <2>1, <2>2, <2>3, <2>4, <2>5, <2>6, <2>7 DEF Next
<1>3. QED
  BY <1>1, <1>2, TypeCorrect, PTL DEF Spec

-----------------------------------------------------------------------------
(* The tree *)

\* The layers are a tree, and its slots hold leaves that lead to them.
TreeInv == TreeOK(layers) /\ SlotsOK(layers, leaves)

\* An update rewrites slots that hold its members and leaves every slot's key as it
\* is: a member entry was verified against the slot it is written to.
LEMMA UpdateSlots ==
    ASSUME IndexFits, TypeOK, TreeInv, NEW w \in held, w.op = "update", WriteUpdate(w)
    PROVE  /\ TreeInv'
           /\ DOMAIN leaves' = DOMAIN leaves
           /\ DOMAIN layers'[0] = DOMAIN layers[0]
           /\ \A i \in DOMAIN layers[0] : layers'[0][i][2] = layers[0][i][2]
<1> DEFINE W == MemberEntries(w)
           lv == UpdatedLeaves(w)
           up == UpsertAll(layers, lv, W)
<1>1. leaves' = lv /\ layers' = up
  BY DEF WriteUpdate, UpdatedLayers
<1>2. W \subseteq DOMAIN leaves /\ DOMAIN leaves \subseteq Address
  BY MemberEntriesTracked DEF WriteUpdate, TypeOK
<1>3. /\ DOMAIN lv = DOMAIN leaves
      /\ \A a \in DOMAIN leaves : a \notin W => HashOfLeaf(lv, a) = HashOfLeaf(leaves, a)
  BY DEF UpdatedLeaves, HashOfLeaf
<1>4. /\ TreeOK(up)
      /\ DOMAIN up[0] = DOMAIN layers[0] \cup {LeafIndex(a) : a \in W}
      /\ \A i \in DOMAIN up[0] :
            \/ \E a \in W : LeafIndex(a) = i /\ up[0][i] = HashOfLeaf(lv, a)
            \/ /\ i \in DOMAIN layers[0] /\ \A a \in W : LeafIndex(a) # i
               /\ up[0][i] = layers[0][i]
  BY <1>2, UpsertAllTree DEF TreeInv
<1>5. DOMAIN layers[0] = {LeafIndex(a) : a \in DOMAIN leaves}
  BY DEF TreeInv, SlotsOK
<1>6. ASSUME NEW a \in W PROVE layers[0][LeafIndex(a)] = HashOfLeaf(leaves, a)
  <2>1. /\ a \in Address /\ a \in DOMAIN w.delta /\ w.proof[a].kind = "member"
        /\ AddressProofVerifies(leaves, layers, a, w.proof[a])
    BY <1>2 DEF MemberEntries, WriteUpdate, UpdateVerifies
  <2>2. MembershipVerifies(Root(layers), KeyOf(a), leaves[a].balance, leaves[a].salt,
                           w.proof[a].siblings)
    BY <2>1 DEF AddressProofVerifies, NonMembershipVerifies
  <2>3. QED
    BY <2>1, <2>2, MembershipIsSlot DEF TreeInv, HashOfLeaf
<1> HIDE DEF W, lv, up
<1>7. DOMAIN up[0] = DOMAIN layers[0]
  BY <1>2, <1>4, <1>5
<1>8. ASSUME NEW i \in DOMAIN up[0]
      PROVE  \E a \in DOMAIN lv : LeafIndex(a) = i /\ up[0][i] = HashOfLeaf(lv, a)
  <2>1. CASE \E a \in W : LeafIndex(a) = i /\ up[0][i] = HashOfLeaf(lv, a)
    BY <1>2, <1>3, <2>1
  <2>2. CASE /\ i \in DOMAIN layers[0] /\ \A a \in W : LeafIndex(a) # i
             /\ up[0][i] = layers[0][i]
    <3>1. PICK a \in DOMAIN leaves : LeafIndex(a) = i /\ layers[0][i] = HashOfLeaf(leaves, a)
      BY <2>2 DEF TreeInv, SlotsOK
    <3>2. a \notin W
      BY <2>2, <3>1
    <3>3. QED
      BY <1>3, <2>2, <3>1, <3>2
  <2>3. QED
    BY <1>4, <2>1, <2>2
<1>9. ASSUME NEW i \in DOMAIN layers[0] PROVE up[0][i][2] = layers[0][i][2]
  <2>1. CASE \E a \in W : LeafIndex(a) = i /\ up[0][i] = HashOfLeaf(lv, a)
    <3>1. PICK a \in W : LeafIndex(a) = i /\ up[0][i] = HashOfLeaf(lv, a)
      BY <2>1
    <3>2. layers[0][i] = HashOfLeaf(leaves, a)
      BY <1>6, <3>1
    <3>3. HashOfLeaf(lv, a)[2] = KeyOf(a) /\ HashOfLeaf(leaves, a)[2] = KeyOf(a)
      BY DEF HashOfLeaf, LeafHash
    <3>4. QED
      BY <3>1, <3>2, <3>3
  <2>2. CASE up[0][i] = layers[0][i]
    BY <2>2
  <2>3. QED
    BY <1>4, <1>7, <2>1, <2>2
<1>10. SlotsOK(up, lv)
  BY <1>3, <1>5, <1>7, <1>8 DEF SlotsOK
<1>11. QED
  BY <1>1, <1>3, <1>4, <1>7, <1>9, <1>10 DEF TreeInv

\* An insertion takes the slot of its address and leaves every other one alone.
LEMMA InsertSlots ==
    ASSUME IndexFits, TypeOK, TreeInv, NEW w \in held, w.op = "insert", WriteInsert(w)
    PROVE  /\ TreeInv'
           /\ DOMAIN leaves' = DOMAIN leaves \cup {w.address}
           /\ DOMAIN layers'[0] = DOMAIN layers[0] \cup {LeafIndex(w.address)}
           /\ layers'[0][LeafIndex(w.address)][2] = KeyOf(w.address)
           /\ \A i \in DOMAIN layers[0] :
                 i # LeafIndex(w.address) => layers'[0][i] = layers[0][i]
<1> DEFINE x == w.address
           lv == InsertedLeaves(w)
           up == UpsertAll(layers, lv, {x})
<1>1. leaves' = lv /\ layers' = up
  BY DEF WriteInsert, InsertedLayers
<1>2. {x} \in SUBSET Address /\ DOMAIN leaves \subseteq Address /\ x \notin DOMAIN leaves
  BY DEF WriteInsert, InsertVerifies, TypeOK, WitnessOK
<1>3. /\ DOMAIN lv = DOMAIN leaves \cup {x}
      /\ \A a \in DOMAIN leaves : HashOfLeaf(lv, a) = HashOfLeaf(leaves, a)
  BY <1>2 DEF InsertedLeaves, Put, HashOfLeaf
<1>4. /\ TreeOK(up)
      /\ DOMAIN up[0] = DOMAIN layers[0] \cup {LeafIndex(a) : a \in {x}}
      /\ \A i \in DOMAIN up[0] :
            \/ \E a \in {x} : LeafIndex(a) = i /\ up[0][i] = HashOfLeaf(lv, a)
            \/ /\ i \in DOMAIN layers[0] /\ \A a \in {x} : LeafIndex(a) # i
               /\ up[0][i] = layers[0][i]
  BY <1>2, UpsertAllTree DEF TreeInv
<1>5. /\ DOMAIN layers[0] = {LeafIndex(a) : a \in DOMAIN leaves}
      /\ \A i \in DOMAIN layers[0] :
            \E a \in DOMAIN leaves : LeafIndex(a) = i /\ layers[0][i] = HashOfLeaf(leaves, a)
  BY DEF TreeInv, SlotsOK
<1>6. HashOfLeaf(lv, x)[2] = KeyOf(x)
  BY DEF HashOfLeaf, LeafHash
<1> HIDE DEF x, lv, up
<1>7. DOMAIN up[0] = DOMAIN layers[0] \cup {LeafIndex(x)}
  BY <1>4
<1>8. up[0][LeafIndex(x)] = HashOfLeaf(lv, x)
  BY <1>4, <1>7
<1>9. \A i \in DOMAIN layers[0] : i # LeafIndex(x) => up[0][i] = layers[0][i]
  BY <1>4, <1>7
<1>10. SlotsOK(up, lv)
  <2>1. DOMAIN up[0] = {LeafIndex(a) : a \in DOMAIN lv}
    BY <1>3, <1>5, <1>7
  <2>2. ASSUME NEW i \in DOMAIN up[0]
        PROVE  \E a \in DOMAIN lv : LeafIndex(a) = i /\ up[0][i] = HashOfLeaf(lv, a)
    <3>1. CASE i = LeafIndex(x)
      BY <1>3, <1>8, <3>1
    <3>2. CASE i # LeafIndex(x)
      BY <1>3, <1>5, <1>7, <1>9, <3>2
    <3>3. QED
      BY <3>1, <3>2
  <2>3. QED
    BY <2>1, <2>2 DEF SlotsOK
<1>11. QED
  BY <1>1, <1>3, <1>4, <1>6, <1>7, <1>8, <1>9, <1>10 DEF TreeInv, x

\* A reload that succeeds changes nothing: the recomputed tree has the stored root,
\* so each of its slots holds the same leaf, and with them every layer is the same.
LEMMA ReloadKeepsLayers ==
    ASSUME IndexFits, TypeOK, TreeInv, Reload
    PROVE  UNCHANGED vars
<1> DEFINE new == ComputeLayers(leaves)
<1>1. DOMAIN leaves \subseteq Address
  BY DEF TypeOK
<1>2. TreeOK(new) /\ SlotsOK(new, leaves) /\ TreeOK(layers) /\ SlotsOK(layers, leaves)
  BY <1>1, ComputedTree, ComputedSlots DEF TreeInv
<1>3. Root(new) = Root(layers)
  BY DEF Reload, Reloadable
<1> HIDE DEF new
<1>4. DOMAIN new[0] = DOMAIN layers[0]
  BY <1>2 DEF SlotsOK
<1>5. ASSUME NEW i \in DOMAIN layers[0] PROVE new[0][i] = layers[0][i]
  <2>1. PICK a \in DOMAIN leaves : i = LeafIndex(a)
    BY <1>2 DEF SlotsOK
  <2>2. KeyOf(a) \in Keys
    BY <1>1, KeyType
  <2>3. NodeAt(new, 0, i) = NodeAt(layers, 0, i)
    BY <1>2, <1>3, <2>1, <2>2, RootFixesSlots DEF LeafIndex
  <2>4. QED
    BY <1>4, <2>3 DEF NodeAt
<1>6. new[0] = layers[0]
  BY <1>2, <1>4, <1>5 DEF TreeOK, IsFcn
<1>7. new = layers
  BY <1>2, <1>6, TreeUnique
<1>8. QED
  BY <1>7 DEF Reload, vars, new

\* What a step can be, as long as the layers are a tree.
LEMMA StepCases ==
    ASSUME IndexFits, TypeOK, TreeInv, [Next]_vars
    PROVE  \/ UNCHANGED vars
           \/ \E d \in DeltaLists : BuildUpdateWitness(d)
           \/ \E a \in Address, b \in InsertBalances : BuildInsertWitness(a, b)
           \/ \E w \in held : Discard(w)
           \/ \E w \in held : w.op = "update" /\ WriteUpdate(w)
           \/ \E w \in held : w.op = "insert" /\ WriteInsert(w)
<1>1. CASE Reload
  BY <1>1, ReloadKeepsLayers
<1>2. CASE \E w \in held : ApplyUpdate(w) \/ LateRejectedUpdate(w)
  BY <1>2 DEF ApplyUpdate, LateRejectedUpdate
<1>3. CASE \E w \in held : ApplyInsert(w) \/ LateRejectedInsert(w)
  BY <1>3 DEF ApplyInsert, LateRejectedInsert
<1>4. QED
  BY <1>1, <1>2, <1>3 DEF Next

\* The layers that upserts maintain stay a tree over the leaves, after any history
\* and also where leaves clash: every stored node hashes its children, a slot is
\* in use exactly if a leaf leads to it, and it holds one of those leaves.
THEOREM TreeCorrect ==
    ASSUME IndexFits PROVE Spec => []TreeInv
<1>1. Init => TreeInv
  <2> SUFFICES ASSUME NEW r \in Reserves, leaves = NewLeaves(r),
                      layers = ComputeLayers(NewLeaves(r))
               PROVE  TreeInv
    BY DEF Init
  <2>1. DOMAIN NewLeaves(r) \subseteq Address
    BY NewLeavesType
  <2>2. QED
    BY <2>1, ComputedTree, ComputedSlots DEF TreeInv
<1>2. TypeOK /\ TreeInv /\ [Next]_vars => TreeInv'
  <2> SUFFICES ASSUME TypeOK, TreeInv, [Next]_vars PROVE TreeInv'
    OBVIOUS
  <2>1. ASSUME UNCHANGED <<leaves, layers>> PROVE TreeInv'
    BY <2>1 DEF TreeInv
  <2>2. ASSUME NEW w \in held, w.op = "update", WriteUpdate(w) PROVE TreeInv'
    BY <2>2, UpdateSlots
  <2>3. ASSUME NEW w \in held, w.op = "insert", WriteInsert(w) PROVE TreeInv'
    BY <2>3, InsertSlots
  <2>4. CASE UNCHANGED vars
    BY <2>1, <2>4 DEF vars
  <2>5. QED
    BY <2>1, <2>2, <2>3, <2>4, StepCases
       DEF BuildUpdateWitness, BuildInsertWitness, Discard
<1>3. QED
  BY <1>1, <1>2, TypeCorrect, PTL DEF Spec

-----------------------------------------------------------------------------
(* Held proofs *)

\* The addresses that occur are in their normal form (init and the canonical
\* delta reader normalise what they read).
NormalForms == \A a \in Address : Normal[a] = a

\* No two keys share the whole path of the tree's depth.
NoPathClash == \A a, b \in Address : KeyOf(a) # KeyOf(b) => LeafIndex(a) # LeafIndex(b)

\* No two addresses that occur are one to key_hash: all are in normal form, and no
\* two differ only by multiples of the field's prime in their words.  The code
\* does not check it, so a theorem that needs it names it.
DistinctInputs == \A a, b \in Address : KeyInput(a) = KeyInput(b) => a = b

\* Either no two keys share a path or no two addresses share a key.
KeysApart == NoPathClash \/ DistinctInputs

\* Different inputs have different keys.
LEMMA KeysDiffer ==
    ASSUME DistinctInputs, NEW a \in Address, NEW b \in Address, KeyOf(a) = KeyOf(b)
    PROVE  a = b
<1> QED BY KeyAssumption DEF DistinctInputs

\* A second spelling of an address has the key of the first.
LEMMA DistinctAreNormal ==
    ASSUME DistinctInputs PROVE NormalForms
<1>1. \A a \in Address : Normal[a] \in Address /\ KeyInput(Normal[a]) = KeyInput(a)
  BY NormalAssumption DEF KeyInput
<1>2. QED
  BY <1>1 DEF DistinctInputs, NormalForms

\* A proof of non-membership that proof_for hands out names a depth or an address.
ProofTyped(proof) ==
    /\ proof.kind = "default" => proof.depth \in Nat
    /\ proof.kind = "collision" => proof.address \in Address

\* A collision proof of account a names a leaf on a's path.  Only a leaf that has been
\* in the slot since the proof was made, when it was the first one on the path, is
\* there still: not so once a itself is a leaf.
NotReturned(lv, ly, a, proof) ==
    proof.kind = "collision" /\ ~NoPathClash =>
        /\ proof.address \in DOMAIN lv
        /\ LeafIndex(proof.address) = LeafIndex(a)
        /\ ly[0][LeafIndex(a)][2] = KeyOf(proof.address)
              => /\ a \notin DOMAIN lv
                 /\ proof.address = Smallest(SharesPath(lv, KeyOf(a)))

HeldTyped ==
    \A w \in held :
        /\ w.op = "insert" => ProofTyped(w.proof)
        /\ w.op # "insert" => \A a \in DOMAIN w.delta : ProofTyped(w.proof[a])

HeldNotReturned ==
    \A w \in held :
        /\ w.op = "insert" => NotReturned(leaves, layers, w.address, w.proof)
        /\ w.op # "insert" =>
              \A a \in DOMAIN w.delta : NotReturned(leaves, layers, a, w.proof[a])

\* What a proof just handed out is like.
LEMMA ProofForTyped ==
    ASSUME IndexFits, TypeOK, NEW a \in Address
    PROVE  /\ ProofTyped(ProofFor(leaves, layers, a))
           /\ NotReturned(leaves, layers, a, ProofFor(leaves, layers, a))
<1> DEFINE key == KeyOf(a)
           S == SharesPath(leaves, key)
           p == ProofFor(leaves, layers, a)
<1>1. key \in Keys /\ DOMAIN leaves \subseteq Address
  BY KeyType DEF TypeOK
<1>2. CASE a \in DOMAIN leaves
  <2>1. p.kind = "member"
    BY <1>2 DEF ProofFor, MembershipProof
  <2>2. QED
    BY <2>1 DEF ProofTyped, NotReturned
<1>3. CASE a \notin DOMAIN leaves /\ S # {}
  <2>1. p.kind = "collision" /\ p.address = Smallest(S)
    BY <1>3 DEF ProofFor
  <2>2. S \in SUBSET Nat
    BY <1>1 DEF SharesPath, Address
  <2>3. Smallest(S) \in S
    BY <1>3, <2>2, SmallestExists
  <2>4. Smallest(S) \in DOMAIN leaves /\ CommonPrefixLen(KeyOf(Smallest(S)), key) = Depth
    BY <2>3 DEF SharesPath
  <2>5. KeyOf(Smallest(S)) \in Keys
    BY <1>1, <2>4, KeyType
  <2> HIDE DEF S, p
  <2>6. LeafIndex(Smallest(S)) = LeafIndex(a)
    BY <1>1, <2>4, <2>5, CommonPrefixLenIsDepth DEF LeafIndex
  <2>7. ProofTyped(p) /\ NotReturned(leaves, layers, a, p)
    BY <1>1, <1>3, <2>1, <2>4, <2>6 DEF ProofTyped, NotReturned, S
  <2>8. QED
    BY <2>7 DEF p
<1>4. CASE a \notin DOMAIN leaves /\ S = {}
  <2>1. p.kind = "default" /\ p.depth = DefaultSubtreeDepth(leaves, key)
    BY <1>4 DEF ProofFor
  <2>2. p.depth \in Nat
    BY <1>1, <1>4, <2>1, DefaultDepth, DepthAssumption
  <2>3. QED
    BY <2>1, <2>2 DEF ProofTyped, NotReturned
<1>5. QED
  BY <1>2, <1>3, <1>4

\* Every held proof was handed out by proof_for.
LEMMA HeldTypedCorrect ==
    ASSUME IndexFits PROVE Spec => []HeldTyped
<1>1. Init => HeldTyped
  BY DEF Init, HeldTyped
<1>2. TypeOK /\ TreeInv /\ HeldTyped /\ [Next]_vars => HeldTyped'
  <2> SUFFICES ASSUME TypeOK, TreeInv, HeldTyped, [Next]_vars PROVE HeldTyped'
    OBVIOUS
  <2>1. ASSUME held' \subseteq held PROVE HeldTyped'
    BY <2>1 DEF HeldTyped, ProofTyped
  <2>2. ASSUME NEW d \in DeltaLists, BuildUpdateWitness(d) PROVE HeldTyped'
    <3> DEFINE w == UpdateWitness(d)
    <3>1. held' = held \cup {w} /\ w.op = "update" /\ w.delta = d
      BY <2>2 DEF BuildUpdateWitness, UpdateWitness
    <3>2. ASSUME NEW a \in DOMAIN d PROVE ProofTyped(w.proof[a])
      <4>1. a \in Address /\ w.proof[a] = ProofFor(leaves, layers, a)
        BY DeltaListsAssumption DEF UpdateWitness
      <4>2. QED
        BY <4>1, ProofForTyped
    <3> HIDE DEF w
    <3>3. QED
      BY <3>1, <3>2 DEF HeldTyped, ProofTyped
  <2>3. ASSUME NEW a \in Address, NEW b \in InsertBalances, BuildInsertWitness(a, b)
        PROVE  HeldTyped'
    <3> DEFINE w == InsertWitness(a, b)
    <3>1. /\ held' = held \cup {w} /\ w.op = "insert"
          /\ w.proof = ProofFor(leaves, layers, a)
      BY <2>3 DEF BuildInsertWitness, InsertWitness
    <3>2. ProofTyped(w.proof)
      BY <3>1, ProofForTyped
    <3> HIDE DEF w
    <3>3. QED
      BY <3>1, <3>2 DEF HeldTyped, ProofTyped
  <2>4. QED
    BY <2>1, <2>2, <2>3, StepCases DEF Discard, WriteUpdate, WriteInsert, vars
<1>3. QED
  BY <1>1, <1>2, TypeCorrect, TreeCorrect, PTL DEF Spec

\* What the writes do to a proof handed out earlier: an update moves no slot's key,
\* and an insertion puts only a new leaf into a slot.
LEMMA WritesKeepNotReturned ==
    ASSUME IndexFits, KeysApart, TypeOK, TreeInv, NEW w \in held,
           \/ w.op = "update" /\ WriteUpdate(w)
           \/ w.op = "insert" /\ WriteInsert(w),
           NEW a \in Address, NEW proof, ProofTyped(proof), NotReturned(leaves, layers, a, proof)
    PROVE  NotReturned(leaves', layers', a, proof)
<1> DEFINE p == proof.address
           i == LeafIndex(a)
           First(lv) == p = Smallest(SharesPath(lv, KeyOf(a)))
<1>1. SUFFICES ASSUME proof.kind = "collision", ~NoPathClash
               PROVE  /\ p \in DOMAIN leaves'
                      /\ LeafIndex(p) = i
                      /\ layers'[0][i][2] = KeyOf(p) => a \notin DOMAIN leaves' /\ First(leaves')
  BY DEF NotReturned
<1>2. /\ p \in DOMAIN leaves /\ p \in Address
      /\ LeafIndex(p) = i
      /\ layers[0][i][2] = KeyOf(p) => a \notin DOMAIN leaves /\ First(leaves)
  BY <1>1 DEF NotReturned, ProofTyped
<1>3. \A b \in DOMAIN leaves : LeafIndex(b) \in DOMAIN layers[0]
  BY DEF TreeInv, SlotsOK
<1>4. ASSUME NEW x \in Address, DOMAIN leaves' = DOMAIN leaves \cup {x}, LeafIndex(x) # i
      PROVE  SharesPath(leaves', KeyOf(a)) = SharesPath(leaves, KeyOf(a))
  <2>1. CommonPrefixLen(KeyOf(x), KeyOf(a)) # Depth
    BY <1>4, KeyType, CommonPrefixLenIsDepth DEF LeafIndex
  <2>2. QED
    BY <1>4, <2>1 DEF SharesPath
<1>5. DOMAIN leaves' = DOMAIN leaves => SharesPath(leaves', KeyOf(a)) = SharesPath(leaves, KeyOf(a))
  BY DEF SharesPath
<1>6. ASSUME SharesPath(leaves', KeyOf(a)) = SharesPath(leaves, KeyOf(a)) PROVE First(leaves) => First(leaves')
  BY <1>6
<1> HIDE DEF p, i, First
<1>7. CASE w.op = "update" /\ WriteUpdate(w)
  <2>1. DOMAIN leaves' = DOMAIN leaves /\ \A j \in DOMAIN layers[0] : layers'[0][j][2] = layers[0][j][2]
    BY <1>7, UpdateSlots
  <2>2. i \in DOMAIN layers[0]
    BY <1>2, <1>3
  <2>3. QED
    BY <1>2, <1>5, <1>6, <2>1, <2>2
<1>8. CASE w.op = "insert" /\ WriteInsert(w)
  <2> DEFINE x == w.address
  <2>1. /\ DOMAIN leaves' = DOMAIN leaves \cup {x}
        /\ layers'[0][LeafIndex(x)][2] = KeyOf(x)
        /\ \A j \in DOMAIN layers[0] : j # LeafIndex(x) => layers'[0][j] = layers[0][j]
    BY <1>8, InsertSlots
  <2>2. x \in Address /\ x \notin DOMAIN leaves
    BY <1>8 DEF WriteInsert, InsertVerifies, TypeOK, WitnessOK
  <2> HIDE DEF x
  <2>3. KeyOf(x) # KeyOf(p)
    BY <1>1, <1>2, <2>2, KeysDiffer DEF KeysApart
  <2>4. CASE i = LeafIndex(x)
    BY <1>2, <2>1, <2>3, <2>4
  <2>5. CASE i # LeafIndex(x)
    <3>1. i \in DOMAIN layers[0] /\ a # x
      BY <1>2, <1>3, <2>5 DEF i
    <3>2. layers'[0][i] = layers[0][i]
      BY <2>1, <2>5, <3>1
    <3>3. First(leaves) => First(leaves')
      BY <1>4, <1>6, <2>1, <2>2, <2>5
    <3>4. QED
      BY <1>2, <2>1, <3>1, <3>2, <3>3
  <2>6. QED
    BY <2>4, <2>5
<1>9. QED
  BY <1>7, <1>8

\* A leaf that an insertion displaced from its slot never comes back to it while
\* a proof that names it is held.
LEMMA HeldNotReturnedCorrect ==
    ASSUME IndexFits, KeysApart PROVE Spec => []HeldNotReturned
<1>1. Init => HeldNotReturned
  BY DEF Init, HeldNotReturned
<1>2. TypeOK /\ TreeInv /\ HeldTyped /\ HeldNotReturned /\ [Next]_vars => HeldNotReturned'
  <2> SUFFICES ASSUME TypeOK, TreeInv, HeldTyped, HeldNotReturned, [Next]_vars
               PROVE  HeldNotReturned'
    OBVIOUS
  <2>1. ASSUME held' \subseteq held, UNCHANGED <<leaves, layers>> PROVE HeldNotReturned'
    BY <2>1 DEF HeldNotReturned, NotReturned
  <2>2. ASSUME NEW d \in DeltaLists, BuildUpdateWitness(d) PROVE HeldNotReturned'
    <3> DEFINE w == UpdateWitness(d)
    <3>1. /\ held' = held \cup {w} /\ w.op = "update" /\ w.delta = d
          /\ UNCHANGED <<leaves, layers>>
      BY <2>2 DEF BuildUpdateWitness, UpdateWitness
    <3>2. ASSUME NEW a \in DOMAIN d PROVE NotReturned(leaves, layers, a, w.proof[a])
      <4>1. a \in Address /\ w.proof[a] = ProofFor(leaves, layers, a)
        BY DeltaListsAssumption DEF UpdateWitness
      <4>2. QED
        BY <4>1, ProofForTyped
    <3> HIDE DEF w
    <3>3. QED
      BY <3>1, <3>2 DEF HeldNotReturned, NotReturned
  <2>3. ASSUME NEW a \in Address, NEW b \in InsertBalances, BuildInsertWitness(a, b)
        PROVE  HeldNotReturned'
    <3> DEFINE w == InsertWitness(a, b)
    <3>1. /\ held' = held \cup {w} /\ w.op = "insert" /\ w.address = a
          /\ w.proof = ProofFor(leaves, layers, a) /\ UNCHANGED <<leaves, layers>>
      BY <2>3 DEF BuildInsertWitness, InsertWitness
    <3>2. NotReturned(leaves, layers, a, w.proof)
      BY <3>1, ProofForTyped
    <3> HIDE DEF w
    <3>3. QED
      BY <3>1, <3>2 DEF HeldNotReturned, NotReturned
  <2>4. ASSUME NEW w \in held,
               \/ w.op = "update" /\ WriteUpdate(w)
               \/ w.op = "insert" /\ WriteInsert(w)
        PROVE  HeldNotReturned'
    <3>1. held' = held
      BY <2>4 DEF WriteUpdate, WriteInsert
    <3>2. ASSUME NEW v \in held, v.op = "insert" PROVE NotReturned(leaves', layers', v.address, v.proof)
      <4>1. v.address \in Address
        BY <3>2 DEF TypeOK, WitnessOK
      <4>2. ProofTyped(v.proof) /\ NotReturned(leaves, layers, v.address, v.proof)
        BY <3>2 DEF HeldTyped, HeldNotReturned
      <4>3. QED
        BY <2>4, <4>1, <4>2, WritesKeepNotReturned
    <3>3. ASSUME NEW v \in held, v.op # "insert", NEW a \in DOMAIN v.delta
          PROVE  NotReturned(leaves', layers', a, v.proof[a])
      <4>1. a \in Address
        BY <3>3, DeltaListsAssumption DEF TypeOK, WitnessOK
      <4>2. ProofTyped(v.proof[a]) /\ NotReturned(leaves, layers, a, v.proof[a])
        BY <3>3 DEF HeldTyped, HeldNotReturned
      <4>3. QED
        BY <2>4, <4>1, <4>2, WritesKeepNotReturned
    <3>4. QED
      BY <3>1, <3>2, <3>3 DEF HeldNotReturned
  <2>5. ASSUME NEW w \in held, Discard(w) PROVE HeldNotReturned'
    BY <2>1, <2>5 DEF Discard
  <2>6. CASE UNCHANGED vars
    BY <2>1, <2>6 DEF vars
  <2>7. QED
    BY <2>2, <2>3, <2>4, <2>5, <2>6, StepCases
<1>3. QED
  BY <1>1, <1>2, TypeCorrect, TreeCorrect, HeldTypedCorrect, PTL DEF Spec

\* A non-membership proof that the current root accepts.
LEMMA AcceptedMeansAbsent ==
    ASSUME IndexFits, TypeOK, TreeInv, NEW a \in Address, NEW proof, ProofTyped(proof),
           KeysApart, NotReturned(leaves, layers, a, proof),
           NonMembershipVerifies(Root(layers), a, proof),
           NEW b \in DOMAIN leaves
    PROVE  KeyOf(b) # KeyOf(a)
<1>1. DOMAIN leaves \subseteq Address /\ TreeOK(layers) /\ SlotsOK(layers, leaves)
  BY DEF TypeOK, TreeInv
<1>2. CASE proof.kind = "default" /\ DefaultVerifies(Root(layers), KeyOf(a), proof)
  <2>1. LeafIndex(b) # LeafIndex(a)
    BY <1>1, <1>2, DefaultIsEmptySlot DEF ProofTyped
  <2>2. QED
    BY <2>1 DEF LeafIndex
<1>3. CASE proof.kind = "collision" /\ CollisionVerifies(Root(layers), KeyOf(a), proof)
  <2>1. /\ proof.address \in Address
        /\ KeyOf(proof.address) # KeyOf(a)
        /\ LeafIndex(proof.address) = LeafIndex(a)
        /\ layers[0][LeafIndex(a)] = LeafHash(KeyOf(proof.address), proof.balance, proof.salt)
    BY <1>1, <1>3, CollisionIsSlot DEF ProofTyped
  <2>2. CASE NoPathClash
    BY <2>1, <2>2 DEF NoPathClash
  <2>3. CASE ~NoPathClash
    <3>1. layers[0][LeafIndex(a)][2] = KeyOf(proof.address)
      BY <2>1 DEF LeafHash
    <3>2. a \notin DOMAIN leaves
      BY <1>3, <2>3, <3>1 DEF NotReturned
    <3>3. QED
      BY <1>1, <2>3, <3>2, KeysDiffer DEF KeysApart
  <2>4. QED
    BY <2>2, <2>3
<1>4. QED
  BY <1>2, <1>3 DEF NonMembershipVerifies

\* The same for the proofs of a held witness.
LEMMA HeldProofsSound ==
    ASSUME IndexFits, KeysApart, TypeOK, TreeInv, HeldTyped, HeldNotReturned
    PROVE  NonMembershipSound
<1>1. ASSUME NEW w \in held, w.op = "insert",
             NonMembershipVerifies(Root(layers), w.address, w.proof), NEW b \in DOMAIN leaves
      PROVE  KeyOf(b) # KeyOf(w.address)
  <2>1. w.address \in Address /\ ProofTyped(w.proof)
    BY <1>1 DEF TypeOK, WitnessOK, HeldTyped
  <2>2. NotReturned(leaves, layers, w.address, w.proof)
    BY <1>1 DEF HeldNotReturned
  <2>3. QED
    BY <1>1, <2>1, <2>2, AcceptedMeansAbsent
<1>2. ASSUME NEW w \in held, w.op # "insert", NEW a \in DOMAIN w.delta,
             NonMembershipVerifies(Root(layers), a, w.proof[a]), NEW b \in DOMAIN leaves
      PROVE  KeyOf(b) # KeyOf(a)
  <2>1. a \in Address /\ ProofTyped(w.proof[a])
    BY <1>2, DeltaListsAssumption DEF TypeOK, WitnessOK, HeldTyped
  <2>2. NotReturned(leaves, layers, a, w.proof[a])
    BY <1>2 DEF HeldNotReturned
  <2>3. QED
    BY <1>2, <2>1, <2>2, AcceptedMeansAbsent
<1>3. QED
  BY <1>1, <1>2 DEF NonMembershipSound

\* A non-membership proof of whatever earlier tree is accepted only while no leaf
\* has the account's key: a delta is skipped, and an account enrolled, only when
\* the account is not tracked.  Where paths clash this takes that no two addresses
\* are one to key_hash: then the stale collision proof of an account enrolled since
\* names a leaf that has lost the slot for good, while the proof of an address that
\* only shares that account's key may name one that has not.
THEOREM ProofsSound ==
    ASSUME IndexFits, KeysApart PROVE Spec => []NonMembershipSound
<1>1. TypeOK /\ TreeInv /\ HeldTyped /\ HeldNotReturned => NonMembershipSound
  BY HeldProofsSound
<1>2. QED
  BY <1>1, TypeCorrect, TreeCorrect, HeldTypedCorrect, HeldNotReturnedCorrect, PTL

-----------------------------------------------------------------------------
(* Honest proofs *)

\* What the tree proves of an account: membership of the leaf in its slot, which is
\* the account's own, or a default subtree where no leaf shares its path.
LEMMA HonestProof ==
    ASSUME IndexFits, DistinctInputs, NoPathClash, TypeOK, TreeInv, NEW c \in Address
    PROVE  LET proof == ProofFor(leaves, layers, c)
           IN /\ (proof.kind = "member") = (c \in DOMAIN leaves)
              /\ AddressProofVerifies(leaves, layers, c, proof)
<1> DEFINE p == ProofFor(leaves, layers, c)
           key == KeyOf(c)
<1>1. DOMAIN leaves \subseteq Address /\ TreeOK(layers) /\ SlotsOK(layers, leaves)
  BY DEF TypeOK, TreeInv
<1>2. ASSUME NEW a \in DOMAIN leaves, LeafIndex(a) = LeafIndex(c) PROVE a = c
  <2>1. KeyOf(a) = KeyOf(c)
    BY <1>1, <1>2 DEF NoPathClash
  <2>2. QED
    BY <1>1, <2>1, KeysDiffer
<1>3. CASE c \in DOMAIN leaves
  <2>1. p = MembershipProof(MembershipSiblings(layers, key))
    BY <1>3 DEF ProofFor
  <2>2. LeafIndex(c) \in DOMAIN layers[0]
    BY <1>1, <1>3 DEF SlotsOK
  <2>3. layers[0][LeafIndex(c)] = LeafHash(KeyOf(c), leaves[c].balance, leaves[c].salt)
    BY <1>1, <1>2, <2>2 DEF SlotsOK, HashOfLeaf
  <2>4. MembershipVerifies(Root(layers), KeyOf(c), leaves[c].balance, leaves[c].salt,
                           MembershipSiblings(layers, KeyOf(c)))
    BY <1>1, <2>2, <2>3, SlotIsMembership
  <2>5. p.kind = "member" /\ p.siblings = MembershipSiblings(layers, key)
    BY <2>1 DEF MembershipProof
  <2> HIDE DEF p
  <2>6. AddressProofVerifies(leaves, layers, c, p)
    BY <1>3, <2>4, <2>5 DEF AddressProofVerifies
  <2>7. QED
    BY <1>3, <2>5, <2>6 DEF p
<1>4. CASE c \notin DOMAIN leaves
  <2>1. SharesPath(leaves, key) = {}
    <3>1. SUFFICES ASSUME NEW a \in SharesPath(leaves, key) PROVE FALSE
      OBVIOUS
    <3>2. a \in DOMAIN leaves /\ CommonPrefixLen(KeyOf(a), key) = Depth
      BY DEF SharesPath
    <3>3. KeyOf(a) \in Keys /\ key \in Keys
      BY <1>1, <3>2, KeyType
    <3>4. LeafIndex(a) = LeafIndex(c)
      BY <3>2, <3>3, CommonPrefixLenIsDepth DEF LeafIndex
    <3>5. QED
      BY <1>2, <1>4, <3>2, <3>4
  <2> DEFINE d == DefaultSubtreeDepth(leaves, key)
             q == [kind |-> "default", depth |-> d, siblings |-> DefaultSiblings(layers, key, d)]
  <2>2. p = q
    BY <1>4, <2>1 DEF ProofFor
  <2>3. DefaultVerifies(Root(layers), key, q)
    BY <1>1, <2>1, KeyType, HonestDefault
  <2>4. q.kind = "default"
    OBVIOUS
  <2> HIDE DEF p, q
  <2>5. NonMembershipVerifies(Root(layers), c, q)
    BY <2>3, <2>4 DEF NonMembershipVerifies
  <2>6. AddressProofVerifies(leaves, layers, c, p) /\ p.kind # "member"
    BY <2>2, <2>4, <2>5 DEF AddressProofVerifies
  <2>7. QED
    BY <1>4, <2>6 DEF p
<1>5. QED
  BY <1>3, <1>4

\* After every history the proof the tree hands out for an account is accepted by
\* its own verifier, and is of membership exactly when the account is tracked, as
\* long as no two keys share a path and no two addresses are one to key_hash: for
\* an address whose words equal a tracked one's modulo the field the tree hands out
\* that one's leaf, and its verifier refuses it (see AbsencesProvable).
THEOREM HonestProofsAccepted ==
    ASSUME IndexFits, DistinctInputs, NoPathClash PROVE Spec => []HonestProofsVerify
<1>1. TypeOK /\ TreeInv => HonestProofsVerify
  <2> SUFFICES ASSUME TypeOK, TreeInv PROVE HonestProofsVerify
    OBVIOUS
  <2>1. \A a \in Address : Normal[a] = a
    BY DistinctAreNormal DEF NormalForms
  <2>2. {Normal[a] : a \in Address} = Address
    BY <2>1
  <2>3. DOMAIN leaves \subseteq Address
    BY DEF TypeOK
  <2>4. ASSUME NEW c \in Address
        PROVE  (\E a \in DOMAIN leaves : Normal[a] = c) <=> c \in DOMAIN leaves
    BY <2>1, <2>3
  <2>5. ASSUME NEW c \in Address
        PROVE  LET proof == ProofFor(leaves, layers, c)
               IN /\ (proof.kind = "member") = (\E a \in DOMAIN leaves : Normal[a] = c)
                  /\ AddressProofVerifies(leaves, layers, c, proof)
    BY <2>4, HonestProof
  <2>6. QED
    BY <2>2, <2>5 DEF HonestProofsVerify
<1>2. QED
  BY <1>1, TypeCorrect, TreeCorrect, PTL

\* A tree without path clashes can show that a name is not tracked exactly when no
\* leaf has the name's key, whatever spellings and whatever words the addresses have
\* (tree.rs proof_for, update.rs verify_collision, hash.rs key_hash).
THEOREM AbsencesProvable ==
    ASSUME IndexFits, NoPathClash PROVE Spec => []AbsenceProvable
<1>1. TypeOK /\ TreeInv => AbsenceProvable
  <2> SUFFICES ASSUME TypeOK, TreeInv, NEW c \in Address, c \notin DOMAIN leaves
               PROVE  AddressProofVerifies(leaves, layers, c, ProofFor(leaves, layers, c))
                         <=> \A a \in DOMAIN leaves : KeyOf(a) # KeyOf(c)
    BY DEF AbsenceProvable
  <2> DEFINE p == ProofFor(leaves, layers, c)
             key == KeyOf(c)
  <2>1. DOMAIN leaves \subseteq Address /\ TreeOK(layers) /\ SlotsOK(layers, leaves)
    BY DEF TypeOK, TreeInv
  <2>2. key \in Keys /\ \A a \in DOMAIN leaves : KeyOf(a) \in Keys
    BY <2>1, KeyType
  <2>3. CASE SharesPath(leaves, key) = {}
    <3> DEFINE d == DefaultSubtreeDepth(leaves, key)
               q == [kind |-> "default", depth |-> d, siblings |-> DefaultSiblings(layers, key, d)]
    <3>1. p = q
      BY <2>3 DEF ProofFor
    <3>2. DefaultVerifies(Root(layers), key, q)
      BY <2>1, <2>2, <2>3, HonestDefault
    <3>3. q.kind = "default"
      OBVIOUS
    <3> HIDE DEF p, q
    <3>4. AddressProofVerifies(leaves, layers, c, p)
      BY <3>1, <3>2, <3>3 DEF AddressProofVerifies, NonMembershipVerifies
    <3>5. ASSUME NEW a \in DOMAIN leaves, KeyOf(a) = key PROVE FALSE
      BY <2>2, <2>3, <3>5, CommonPrefixLenIsDepth DEF SharesPath
    <3>6. QED
      BY <3>4, <3>5 DEF p
  <2>4. CASE SharesPath(leaves, key) # {}
    <3> DEFINE S == SharesPath(leaves, key)
    <3>1. p.kind = "collision" /\ p.address = Smallest(S)
      BY <2>4 DEF ProofFor
    <3>2. S \in SUBSET Nat
      BY <2>1 DEF SharesPath, Address
    <3>3. Smallest(S) \in S
      BY <2>4, <3>2, SmallestExists
    <3>4. Smallest(S) \in DOMAIN leaves /\ CommonPrefixLen(KeyOf(Smallest(S)), key) = Depth
      BY <3>3 DEF SharesPath
    <3> HIDE DEF S, p
    <3>5. LeafIndex(Smallest(S)) = LeafIndex(c)
      BY <2>2, <3>4, CommonPrefixLenIsDepth DEF LeafIndex
    <3>6. KeyOf(p.address) = key
      BY <2>1, <3>1, <3>4, <3>5 DEF NoPathClash
    <3>7. ~AddressProofVerifies(leaves, layers, c, p)
      BY <3>1, <3>6 DEF AddressProofVerifies, NonMembershipVerifies, CollisionVerifies
    <3>8. QED
      BY <3>1, <3>4, <3>6, <3>7 DEF p
  <2>5. QED
    BY <2>3, <2>4
<1>2. QED
  BY <1>1, TypeCorrect, TreeCorrect, PTL

-----------------------------------------------------------------------------
(* Slots and their owners *)

\* A leaf's salt was drawn for its address.
SaltsOwned ==
    /\ \A a \in DOMAIN leaves : leaves[a].salt[2] = a
    /\ \A w \in held : w.op = "insert" => w.salt[2] = w.address

\* It holds throughout.
LEMMA SaltsOwnedCorrect == Spec => []SaltsOwned
<1>1. Init => SaltsOwned
  BY DEF Init, SaltsOwned, NewLeaves, FreshSalt
<1>2. TypeOK /\ SaltsOwned /\ [Next]_vars => SaltsOwned'
  <2> SUFFICES ASSUME TypeOK, SaltsOwned, [Next]_vars PROVE SaltsOwned'
    OBVIOUS
  <2>1. ASSUME held' \subseteq held, UNCHANGED leaves PROVE SaltsOwned'
    BY <2>1 DEF SaltsOwned
  <2>2. ASSUME NEW d \in DeltaLists, BuildUpdateWitness(d) PROVE SaltsOwned'
    BY <2>2 DEF BuildUpdateWitness, UpdateWitness, SaltsOwned
  <2>3. ASSUME NEW a \in Address, NEW b \in InsertBalances, BuildInsertWitness(a, b)
        PROVE  SaltsOwned'
    <3> DEFINE w == InsertWitness(a, b)
    <3>1. held' = held \cup {w} /\ w.salt[2] = w.address /\ UNCHANGED leaves
      BY <2>3 DEF BuildInsertWitness, InsertWitness, FreshSalt
    <3> HIDE DEF w
    <3>2. QED
      BY <3>1 DEF SaltsOwned
  <2>4. ASSUME NEW w \in held, WriteUpdate(w) PROVE SaltsOwned'
    <3>1. /\ DOMAIN leaves' = DOMAIN leaves /\ held' = held
          /\ \A a \in DOMAIN leaves : leaves'[a].salt = leaves[a].salt
      BY <2>4 DEF WriteUpdate, UpdatedLeaves
    <3>2. QED
      BY <3>1 DEF SaltsOwned
  <2>5. ASSUME NEW w \in held, w.op = "insert", WriteInsert(w) PROVE SaltsOwned'
    <3>1. /\ DOMAIN leaves' = DOMAIN leaves \cup {w.address} /\ held' = held
          /\ leaves'[w.address].salt = w.salt
          /\ \A a \in DOMAIN leaves : a # w.address => leaves'[a] = leaves[a]
      BY <2>5 DEF WriteInsert, InsertedLeaves, Put
    <3>2. QED
      BY <2>5, <3>1 DEF SaltsOwned
  <2>6. ASSUME Reload PROVE SaltsOwned'
    BY <2>1, <2>6 DEF Reload
  <2>7. QED
    BY <2>1, <2>2, <2>3, <2>4, <2>5, <2>6
       DEF Next, Discard, ApplyUpdate, LateRejectedUpdate, ApplyInsert, LateRejectedInsert, vars
<1>3. QED
  BY <1>1, <1>2, TypeCorrect, PTL DEF Spec

\* A tracked leaf can be proved exactly if it is the one in its slot.
LEMMA ProvableIsInSlot ==
    ASSUME IndexFits, TypeOK, TreeInv, NEW c \in DOMAIN leaves
    PROVE  AddressProofVerifies(leaves, layers, c, ProofFor(leaves, layers, c))
              <=> layers[0][LeafIndex(c)] = HashOfLeaf(leaves, c)
<1> DEFINE p == ProofFor(leaves, layers, c)
<1>1. c \in Address /\ TreeOK(layers) /\ LeafIndex(c) \in DOMAIN layers[0]
  BY DEF TypeOK, TreeInv, SlotsOK
<1>2. p.kind = "member" /\ p.siblings = MembershipSiblings(layers, KeyOf(c))
  BY DEF ProofFor, MembershipProof
<1> HIDE DEF p
<1>3. AddressProofVerifies(leaves, layers, c, p)
         <=> MembershipVerifies(Root(layers), KeyOf(c), leaves[c].balance, leaves[c].salt,
                                MembershipSiblings(layers, KeyOf(c)))
  BY <1>2 DEF AddressProofVerifies, NonMembershipVerifies
<1>4. QED
  BY <1>1, <1>3, MembershipIsSlot, SlotIsMembership DEF p, HashOfLeaf

\* Of the leaves that share one full path exactly one can still be proved, whatever
\* clashes there are: the slot holds one of them, and its salt tells which.
THEOREM SlotOwnersUnique ==
    ASSUME IndexFits PROVE Spec => []SlotOwnerUnique
<1>1. TypeOK /\ TreeInv /\ SaltsOwned => SlotOwnerUnique
  <2> SUFFICES ASSUME TypeOK, TreeInv, SaltsOwned, NEW a \in DOMAIN leaves
               PROVE  \E b \in SharesPath(leaves, KeyOf(a)) :
                         {c \in SharesPath(leaves, KeyOf(a)) :
                            AddressProofVerifies(leaves, layers, c, ProofFor(leaves, layers, c))}
                               = {b}
    BY DEF SlotOwnerUnique
  <2> DEFINE S == SharesPath(leaves, KeyOf(a))
             Provable(c) == AddressProofVerifies(leaves, layers, c, ProofFor(leaves, layers, c))
  <2>1. ASSUME NEW c \in DOMAIN leaves PROVE c \in S <=> LeafIndex(c) = LeafIndex(a)
    <3>1. KeyOf(c) \in Keys /\ KeyOf(a) \in Keys
      BY KeyType DEF TypeOK
    <3>2. QED
      BY <3>1, CommonPrefixLenIsDepth DEF SharesPath, LeafIndex
  <2>2. S \subseteq DOMAIN leaves
    BY DEF SharesPath
  <2>3. PICK b \in DOMAIN leaves :
          LeafIndex(b) = LeafIndex(a) /\ layers[0][LeafIndex(a)] = HashOfLeaf(leaves, b)
    BY DEF TreeInv, SlotsOK
  <2>4. \A c \in DOMAIN leaves :
           Provable(c) <=> layers[0][LeafIndex(c)] = HashOfLeaf(leaves, c)
    BY ProvableIsInSlot
  <2> HIDE DEF S, Provable
  <2>5. b \in S /\ Provable(b)
    BY <2>1, <2>3, <2>4
  <2>6. ASSUME NEW c \in S, Provable(c) PROVE c = b
    <3>1. c \in DOMAIN leaves /\ HashOfLeaf(leaves, c) = HashOfLeaf(leaves, b)
      BY <2>1, <2>2, <2>3, <2>4, <2>6
    <3>2. leaves[c].salt = leaves[b].salt
      BY <3>1 DEF HashOfLeaf, LeafHash
    <3>3. QED
      BY <2>3, <3>1, <3>2 DEF SaltsOwned
  <2>7. {c \in S : Provable(c)} = {b}
    BY <2>5, <2>6
  <2>8. QED
    BY <2>5, <2>7 DEF S, Provable
<1>2. QED
  BY <1>1, TypeCorrect, TreeCorrect, SaltsOwnedCorrect, PTL

-----------------------------------------------------------------------------
(* Storing and loading *)

\* A reserve list names each account once, and no two that are one to key_hash.
DistinctReserves == \A r \in Reserves : \A a, b \in DOMAIN r : KeyOf(a) = KeyOf(b) => a = b

\* No reserve is negative.
ReservesNotNegative == \A r \in Reserves : \A a \in DOMAIN r : r[a] >= 0

LeavesDistinct == \A a, b \in DOMAIN leaves : KeyOf(a) = KeyOf(b) => a = b

LeavesNotNegative == \A a \in DOMAIN leaves : leaves[a].balance >= 0

\* No account gets a second leaf under another spelling: an insertion is accepted
\* only if no leaf has the key.
LEMMA LeavesDistinctCorrect ==
    ASSUME IndexFits, NoPathClash, DistinctReserves PROVE Spec => []LeavesDistinct
<1>1. Init => LeavesDistinct
  BY DEF Init, LeavesDistinct, NewLeaves, DistinctReserves
<1>2. TypeOK /\ TreeInv /\ HeldTyped /\ LeavesDistinct /\ [Next]_vars => LeavesDistinct'
  <2> SUFFICES ASSUME TypeOK, TreeInv, HeldTyped, LeavesDistinct, [Next]_vars
               PROVE  LeavesDistinct'
    OBVIOUS
  <2>1. ASSUME DOMAIN leaves' = DOMAIN leaves PROVE LeavesDistinct'
    BY <2>1 DEF LeavesDistinct
  <2>2. ASSUME NEW w \in held, w.op = "update", WriteUpdate(w) PROVE LeavesDistinct'
    BY <2>1, <2>2, UpdateSlots
  <2>3. ASSUME NEW w \in held, w.op = "insert", WriteInsert(w) PROVE LeavesDistinct'
    <3>1. DOMAIN leaves' = DOMAIN leaves \cup {w.address}
      BY <2>3, InsertSlots
    <3>2. /\ w.address \in Address /\ ProofTyped(w.proof)
          /\ NonMembershipVerifies(Root(layers), w.address, w.proof)
      BY <2>3 DEF TypeOK, WitnessOK, HeldTyped, WriteInsert, InsertVerifies
    <3>3. KeysApart /\ NotReturned(leaves, layers, w.address, w.proof)
      BY DEF KeysApart, NotReturned
    <3>4. \A b \in DOMAIN leaves : KeyOf(b) # KeyOf(w.address)
      BY <3>2, <3>3, AcceptedMeansAbsent
    <3>5. QED
      BY <3>1, <3>4 DEF LeavesDistinct
  <2>4. CASE UNCHANGED leaves
    BY <2>1, <2>4
  <2>5. QED
    BY <2>2, <2>3, <2>4, StepCases DEF BuildUpdateWitness, BuildInsertWitness, Discard, vars
<1>3. QED
  BY <1>1, <1>2, TypeCorrect, TreeCorrect, HeldTypedCorrect, PTL DEF Spec

\* No balance goes below zero: an update is verified against that floor.
LEMMA LeavesNotNegativeCorrect ==
    ASSUME ReservesNotNegative PROVE Spec => []LeavesNotNegative
<1>1. Init => LeavesNotNegative
  BY DEF Init, LeavesNotNegative, NewLeaves, ReservesNotNegative
<1>2. LeavesNotNegative /\ [Next]_vars => LeavesNotNegative'
  <2> SUFFICES ASSUME LeavesNotNegative, [Next]_vars PROVE LeavesNotNegative'
    OBVIOUS
  <2>1. ASSUME NEW w \in held, WriteUpdate(w) PROVE LeavesNotNegative'
    <3>1. \A a \in MemberEntries(w) : leaves[a].balance + w.delta[a] >= 0
      BY <2>1 DEF WriteUpdate, UpdateVerifies
    <3>2. /\ DOMAIN leaves' = DOMAIN leaves
          /\ \A a \in DOMAIN leaves :
                leaves'[a].balance = IF a \in MemberEntries(w)
                                       THEN leaves[a].balance + w.delta[a]
                                       ELSE leaves[a].balance
      BY <2>1 DEF WriteUpdate, UpdatedLeaves
    <3>3. QED
      BY <3>1, <3>2 DEF LeavesNotNegative
  <2>2. ASSUME NEW w \in held, WriteInsert(w) PROVE LeavesNotNegative'
    <3>1. /\ DOMAIN leaves' = DOMAIN leaves \cup {w.address}
          /\ leaves'[w.address].balance = w.balance /\ w.balance >= 0
          /\ \A a \in DOMAIN leaves : a # w.address => leaves'[a] = leaves[a]
      BY <2>2 DEF WriteInsert, InsertVerifies, InsertedLeaves, Put
    <3>2. QED
      BY <3>1 DEF LeavesNotNegative
  <2>3. CASE UNCHANGED leaves
    BY <2>3 DEF LeavesNotNegative
  <2>4. QED
    BY <2>1, <2>2, <2>3
       DEF Next, BuildUpdateWitness, BuildInsertWitness, Discard, ApplyUpdate,
           LateRejectedUpdate, ApplyInsert, LateRejectedInsert, Reload, vars
<1>3. QED
  BY <1>1, <1>2, PTL DEF Spec

\* With one leaf per slot compute_layers builds the tree that upserts maintained.
LEMMA LayersRecomputed ==
    ASSUME IndexFits, NoPathClash, TypeOK, TreeInv, LeavesDistinct
    PROVE  layers = ComputeLayers(leaves)
<1> DEFINE new == ComputeLayers(leaves)
<1>1. DOMAIN leaves \subseteq Address
  BY DEF TypeOK
<1>2. TreeOK(new) /\ SlotsOK(new, leaves) /\ TreeOK(layers) /\ SlotsOK(layers, leaves)
  BY <1>1, ComputedTree, ComputedSlots DEF TreeInv
<1> HIDE DEF new
<1>3. DOMAIN new[0] = DOMAIN layers[0]
  BY <1>2 DEF SlotsOK
<1>4. ASSUME NEW i \in DOMAIN layers[0] PROVE new[0][i] = layers[0][i]
  <2>1. PICK a \in DOMAIN leaves : LeafIndex(a) = i /\ layers[0][i] = HashOfLeaf(leaves, a)
    BY <1>2 DEF SlotsOK
  <2>2. PICK b \in DOMAIN leaves : LeafIndex(b) = i /\ new[0][i] = HashOfLeaf(leaves, b)
    BY <1>2, <1>3 DEF SlotsOK
  <2>3. KeyOf(a) = KeyOf(b)
    BY <1>1, <2>1, <2>2 DEF NoPathClash
  <2>4. a = b
    BY <2>3 DEF LeavesDistinct
  <2>5. QED
    BY <2>1, <2>2, <2>4
<1>5. new[0] = layers[0]
  BY <1>2, <1>3, <1>4 DEF TreeOK, IsFcn
<1>6. QED
  BY <1>2, <1>5, TreeUnique DEF new

\* In the checked build the sum of the stored balances does not overflow on the way:
\* none is negative and all together are the total, which did not.
LEMMA StoredSumFits ==
    ASSUME OverflowPanics, TypeOK, LeavesNotNegative, TotalIsSum, TotalIsSumModWidth
    PROVE  SumFits(OrZero(BalanceOf(leaves)))
<1> DEFINE f == OrZero(BalanceOf(leaves))
<1>1. f \in [Address -> Int]
  BY BalancesType
<1>2. ASSUME NEW a \in Address PROVE f[a] >= 0
  BY DEF OrZero, BalanceOf, LeavesNotNegative
<1>3. total = Total(f) /\ total = Wrap(Total(f))
  BY DEF TotalIsSum, TotalIsSumModWidth
<1> HIDE DEF f
<1>4. Total(f) \in Int /\ InI128(Total(f))
  <2>1. Total(f) \in Int
    BY <1>1, TotalType
  <2>2. InI128(Wrap(Total(f)))
    BY <2>1, WrapIsInRange
  <2>3. QED
    BY <1>3, <2>1, <2>2
<1>5. ASSUME NEW n \in 0..N PROVE InI128(PartialSums(f)[n])
  <2>1. 0 <= PartialSums(f)[n] /\ PartialSums(f)[n] <= Total(f)
    BY <1>1, <1>2, PartialSumsGrow
  <2>2. PartialSums(f)[n] \in Int
    BY <1>1, PartialSumsDef
  <2>3. QED
    BY <1>4, <2>1, <2>2, WidthAssumption DEF InI128
<1>6. QED
  BY <1>5 DEF SumFits, f

\* A state written to a file reads back: the layers are the ones compute_layers
\* builds from the leaf list, and neither the root, the total nor an overflow of
\* its sum stops the load.
THEOREM StoredStateReloadable ==
    ASSUME IndexFits, NoPathClash, DistinctReserves, OverflowPanics => ReservesNotNegative
    PROVE  Spec => []StoredStateReloads
<1>1. ASSUME TypeOK, TreeInv, LeavesDistinct, TotalIsSumModWidth,
             OverflowPanics => LeavesNotNegative /\ TotalIsSum
      PROVE  StoredStateReloads
  <2>1. layers = ComputeLayers(leaves)
    BY <1>1, LayersRecomputed
  <2>2. OverflowPanics => SumFits(OrZero(BalanceOf(leaves)))
    BY <1>1, StoredSumFits
  <2>3. QED
    BY <1>1, <2>1, <2>2 DEF StoredStateReloads, Reloadable, TotalIsSumModWidth
<1>2. CASE OverflowPanics
  <2>1. Spec => []LeavesNotNegative /\ []TotalIsSum
    BY <1>2, LeavesNotNegativeCorrect, TotalCorrect
  <2>2. TypeOK /\ TreeInv /\ LeavesDistinct /\ TotalIsSumModWidth
          /\ LeavesNotNegative /\ TotalIsSum => StoredStateReloads
    BY <1>1
  <2>3. QED
    BY <2>1, <2>2, TypeCorrect, TreeCorrect, LeavesDistinctCorrect, TotalCorrectModWidth, PTL
<1>3. CASE ~OverflowPanics
  <2>1. TypeOK /\ TreeInv /\ LeavesDistinct /\ TotalIsSumModWidth => StoredStateReloads
    BY <1>1, <1>3
  <2>2. QED
    BY <2>1, TypeCorrect, TreeCorrect, LeavesDistinctCorrect, TotalCorrectModWidth, PTL
<1>4. QED
  BY <1>2, <1>3

-----------------------------------------------------------------------------
(* The abstract ledger *)

\* Where addresses are normal forms the holdings of the ledger are the balances.
LEMMA HoldingsAreBalances ==
    ASSUME NormalForms, NEW lv, DOMAIN lv \subseteq Address
    PROVE  [c \in {Normal[a] : a \in DOMAIN lv} |->
               lv[Smallest({a \in DOMAIN lv : Normal[a] = c})].balance]
              = [a \in DOMAIN lv |-> lv[a].balance]
<1>1. \A a \in DOMAIN lv : Normal[a] = a
  BY DEF NormalForms
<1>2. {Normal[a] : a \in DOMAIN lv} = DOMAIN lv
  BY <1>1
<1>3. ASSUME NEW c \in DOMAIN lv PROVE Smallest({a \in DOMAIN lv : Normal[a] = c}) = c
  <2>1. {a \in DOMAIN lv : Normal[a] = c} = {c}
    BY <1>1
  <2>2. c \in Nat
    BY DEF Address
  <2>3. Smallest({c}) \in {c}
    BY <2>2, SmallestExists
  <2>4. QED
    BY <2>1, <2>3
<1>4. QED
  BY <1>2, <1>3

\* The ledger's sums are the implementation's.
LEMMA LedgerTotals ==
    ASSUME NEW f PROVE Ledger!Total(Ledger!OrZero(f)) = Total(OrZero(f))
<1>1. Ledger!OrZero(f) = OrZero(f)
  BY DEF Ledger!OrZero, OrZero, Ledger!Address, Address
<1> DEFINE g == OrZero(f)
<1> HIDE DEF g
<1>2. Ledger!PartialSums(g) = PartialSums(g)
  BY DEF Ledger!PartialSums, PartialSums
<1>3. QED
  BY <1>1, <1>2 DEF Ledger!Total, Total, g

\* The sums of the reserve lists stay within an i128, as where addition is checked.
ReservesFit == \A r \in Reserves : SumFits(OrZero(r))

\* A new state is a new ledger.
LEMMA InitRefines ==
    ASSUME NormalForms, OverflowPanics \/ ReservesFit, Init
    PROVE  Ledger!Init
<1>1. PICK r \in Reserves : /\ leaves = NewLeaves(r)
                            /\ total = Wrap(Total(OrZero(r)))
                            /\ SumFits(OrZero(r))
  BY DEF Init, ReservesFit
<1>2. DOMAIN leaves = DOMAIN r /\ DOMAIN leaves \subseteq Address
  BY <1>1, NewLeavesType
<1>3. Holdings = [a \in DOMAIN leaves |-> leaves[a].balance]
  BY <1>2, HoldingsAreBalances DEF Holdings
<1>4. r = [a \in DOMAIN r |-> r[a]]
  BY ReservesAssumption
<1>5. Holdings = r /\ BalanceOf(NewLeaves(r)) = Holdings
  BY <1>1, <1>2, <1>3, <1>4 DEF NewLeaves, BalanceOf
<1>6. total = Total(OrZero(Holdings))
  BY <1>1, <1>5, NewTotalIsSum
<1>7. QED
  BY <1>5, <1>6, LedgerTotals DEF Ledger!Init

\* A written update is the adjustment of the ledger by the whole window: the entries
\* it skips, with a proof of non-membership, are of accounts that are not tracked.
LEMMA UpdateRefines ==
    ASSUME NormalForms, TypeOK, NonMembershipSound, TotalIsSum',
           NEW w \in held, w.op = "update", WriteUpdate(w)
    PROVE  Ledger!Adjust(w.delta)
<1> DEFINE d == w.delta
           M == MemberEntries(w)
<1>1. DOMAIN leaves \subseteq Address /\ leaves' = UpdatedLeaves(w)
      /\ DOMAIN UpdatedLeaves(w) = DOMAIN leaves
  BY DEF TypeOK, WriteUpdate, UpdatedLeaves
<1>2. Holdings = [a \in DOMAIN leaves |-> leaves[a].balance]
  BY <1>1, HoldingsAreBalances DEF Holdings
<1>3. Holdings' = [a \in DOMAIN leaves |-> leaves'[a].balance]
  <2>1. DOMAIN leaves' = DOMAIN leaves /\ DOMAIN leaves' \subseteq Address
    BY <1>1
  <2>2. Holdings' = [a \in DOMAIN leaves' |-> leaves'[a].balance]
    BY <2>1, HoldingsAreBalances DEF Holdings
  <2>3. QED
    BY <2>1, <2>2
<1>4. DOMAIN d \cap DOMAIN leaves = M
  <2>1. M \subseteq DOMAIN d /\ M \subseteq DOMAIN leaves
    BY MemberEntriesTracked DEF MemberEntries, WriteUpdate
  <2>2. ASSUME NEW a \in DOMAIN d, a \in DOMAIN leaves PROVE a \in M
    <3>1. AddressProofVerifies(leaves, layers, a, w.proof[a])
      BY DEF WriteUpdate, UpdateVerifies
    <3>2. ~NonMembershipVerifies(Root(layers), a, w.proof[a])
      BY <2>2 DEF NonMembershipSound
    <3>3. w.proof[a].kind = "member"
      BY <3>1, <3>2 DEF AddressProofVerifies
    <3>4. QED
      BY <3>3 DEF MemberEntries
  <2>3. QED
    BY <2>1, <2>2
<1>5. \A a \in M : leaves[a].balance + d[a] >= 0
  BY DEF WriteUpdate, UpdateVerifies
<1>6. \A a \in DOMAIN leaves :
         leaves'[a].balance = IF a \in M THEN leaves[a].balance + d[a] ELSE leaves[a].balance
  BY <1>1 DEF UpdatedLeaves
<1>7. total' = Total(OrZero(Holdings'))
  BY <1>1, <1>3 DEF TotalIsSum, BalanceOf
<1> HIDE DEF M, d
<1>8. \A c \in DOMAIN d \cap DOMAIN Holdings : Holdings[c] + d[c] >= 0
  BY <1>2, <1>4, <1>5
<1>9. Holdings' = [c \in DOMAIN Holdings |->
                     IF c \in DOMAIN d THEN Holdings[c] + d[c] ELSE Holdings[c]]
  BY <1>2, <1>3, <1>4, <1>6
<1>10. QED
  BY <1>7, <1>8, <1>9, LedgerTotals DEF Ledger!Adjust, d

\* A written insertion enrolls a new account of the ledger.
LEMMA InsertRefines ==
    ASSUME NormalForms, TypeOK, TotalIsSum',
           NEW w \in held, w.op = "insert", WriteInsert(w)
    PROVE  Ledger!Enroll(w.address, w.balance)
<1> DEFINE x == w.address
<1>1. /\ DOMAIN leaves \subseteq Address /\ x \in Address /\ x \notin DOMAIN leaves
      /\ w.balance >= 0
      /\ leaves' = [a \in DOMAIN leaves \cup {x} |->
                      IF a = x THEN [balance |-> w.balance, salt |-> w.salt] ELSE leaves[a]]
  BY DEF TypeOK, WitnessOK, WriteInsert, InsertVerifies, InsertedLeaves, Put
<1>2. Holdings = [a \in DOMAIN leaves |-> leaves[a].balance]
  BY <1>1, HoldingsAreBalances DEF Holdings
<1>3. DOMAIN leaves' = DOMAIN leaves \cup {x} /\ DOMAIN leaves' \subseteq Address
  BY <1>1
<1>4. Holdings' = [a \in DOMAIN leaves' |-> leaves'[a].balance]
  BY <1>3, HoldingsAreBalances DEF Holdings
<1>5. total' = Total(OrZero(Holdings'))
  BY <1>4 DEF TotalIsSum, BalanceOf
<1> HIDE DEF x
<1>6. Holdings' = [c \in DOMAIN Holdings \cup {x} |-> IF c = x THEN w.balance ELSE Holdings[c]]
  <2>1. DOMAIN Holdings = DOMAIN leaves /\ \A a \in DOMAIN leaves : Holdings[a] = leaves[a].balance
    BY <1>2
  <2>2. \A a \in DOMAIN leaves \cup {x} :
           leaves'[a].balance = IF a = x THEN w.balance ELSE Holdings[a]
    BY <1>1, <2>1
  <2>3. QED
    BY <1>3, <1>4, <2>1, <2>2
<1>7. x \notin DOMAIN Holdings
  BY <1>1, <1>2
<1>8. QED
  BY <1>1, <1>5, <1>6, <1>7, LedgerTotals DEF Ledger!Enroll, x

\* A step of the library is one of the ledger, if the total it writes is the sum.
LEMMA StepRefines ==
    ASSUME IndexFits, NormalForms, TypeOK, TreeInv, NonMembershipSound, TotalIsSum', [Next]_vars
    PROVE  [Ledger!Next]_(Ledger!vars)
<1> SUFFICES Ledger!Next \/ UNCHANGED Ledger!vars
  OBVIOUS
<1>1. CASE UNCHANGED <<leaves, total>>
  BY <1>1 DEF Ledger!vars, Holdings
<1>2. ASSUME NEW w \in held, w.op = "update", WriteUpdate(w) PROVE Ledger!Next
  <2>1. Ledger!Adjust(w.delta)
    BY <1>2, UpdateRefines
  <2>2. w.delta \in DeltaLists
    BY <1>2 DEF TypeOK, WitnessOK
  <2>3. QED
    BY <2>1, <2>2 DEF Ledger!Next
<1>3. ASSUME NEW w \in held, w.op = "insert", WriteInsert(w) PROVE Ledger!Next
  <2>1. Ledger!Enroll(w.address, w.balance)
    BY <1>3, InsertRefines
  <2>2. w.address \in Address /\ w.balance \in InsertBalances
    BY <1>3 DEF TypeOK, WitnessOK
  <2>3. QED
    BY <2>1, <2>2 DEF Ledger!Next, Address, Ledger!Address
<1>4. QED
  BY <1>1, <1>2, <1>3, StepCases DEF BuildUpdateWitness, BuildInsertWitness, Discard, vars

\* Every history of held, repeated and reordered witnesses, of clashes and reloads, is
\* a history of the abstract ledger: a window moves exactly the tracked accounts it
\* names, an account is enrolled once, and the total is always the sum.
THEOREM ImplementsLedger ==
    ASSUME IndexFits, NormalForms, KeysApart, OverflowPanics PROVE Spec => LedgerSpec
<1>1. Init => Ledger!Init
  BY InitRefines
<1>2. TypeOK /\ TreeInv /\ NonMembershipSound /\ TotalIsSum' /\ [Next]_vars
         => [Ledger!Next]_(Ledger!vars)
  BY StepRefines
<1>3. Spec => []NonMembershipSound
  BY ProofsSound
<1>4. Spec => []TotalIsSum
  BY TotalCorrect
<1>5. QED
  BY <1>1, <1>2, <1>3, <1>4, TypeCorrect, TreeCorrect, PTL DEF Spec, LedgerSpec, Ledger!Spec

-----------------------------------------------------------------------------
(* The frontier *)

\* The frontiers on the way through a proof, and on the way through the proofs.
WithSibling(frontier, proof, l) ==
    IF IsStored(proof, l) /\ proof.siblings[l] \notin Range(frontier)
      THEN Append(frontier, proof.siblings[l]) ELSE frontier
IsAdding(p, frontier, proof) ==
    p[0] = frontier /\ \A l \in 1..Depth : p[l] = WithSibling(p[l - 1], proof, l - 1)
WithProof(frontier, proofs, a) ==
    IF a \in DOMAIN proofs THEN AddProof(frontier, proofs[a]) ELSE frontier
IsGathering(p, proofs) ==
    p[0] = <<>> /\ \A a \in 1..N : p[a] = WithProof(p[a - 1], proofs, a)

\* AddProof takes one sibling after the other.
LEMMA AddProofDef ==
    ASSUME Depth \in Nat, NEW frontier, NEW proof
    PROVE  \E p : IsAdding(p, frontier, proof) /\ AddProof(frontier, proof) = p[Depth]
<1> DEFINE n == Depth
           Step(v, i) == WithSibling(v, proof, i - 1)
           Value(s, i) == IF i = 0 THEN frontier ELSE Step(s[i - 1], i)
           Solves(s, m) == \A i \in 0..m : s[i] = Value(s, i)
           T == {m \in 0..n : \E s : Solves(s, m)}
<1>0. n \in Nat
  OBVIOUS
<1>p. AddProof(frontier, proof) = (CHOOSE s : s = [i \in 0..n |-> Value(s, i)])[n]
  BY DEF AddProof, WithSibling
<1>q. ASSUME NEW p, p[0] = frontier, \A i \in 1..n : p[i] = Step(p[i - 1], i) PROVE IsAdding(p, frontier, proof)
  BY <1>q DEF IsAdding
<1> HIDE DEF Step, n
<1>1. 0 \in T
  <2> DEFINE s == [i \in 0..0 |-> frontier]
  <2>1. Solves(s, 0)
    OBVIOUS
  <2> HIDE DEF s, Solves
  <2>2. \E z : Solves(z, 0)
    BY <2>1
  <2>3. QED
    BY <1>0, <2>2
<1>2. ASSUME NEW m \in 0..(n - 1), m \in T PROVE m + 1 \in T
  <2>1. PICK s : Solves(s, m)
    BY <1>2
  <2> DEFINE t == [i \in 0..(m + 1) |-> IF i = m + 1 THEN Step(s[m], m + 1) ELSE s[i]]
  <2>2. Solves(t, m + 1)
    <3> SUFFICES ASSUME NEW i \in 0..(m + 1) PROVE t[i] = Value(t, i)
      OBVIOUS
    <3>1. CASE i = m + 1
      <4>1. i # 0 /\ i - 1 = m /\ m # m + 1 /\ m \in 0..(m + 1)
        BY <1>0, <3>1
      <4>2. t[i] = Step(s[m], m + 1) /\ t[i - 1] = s[m]
        BY <3>1, <4>1
      <4>3. QED
        BY <3>1, <4>1, <4>2
    <3>2. CASE i \in 0..m
      <4>1. s[i] = Value(s, i)
        BY <2>1, <3>2
      <4>2. t[i] = s[i]
        BY <1>0, <3>2
      <4>3. CASE i = 0
        BY <4>1, <4>2, <4>3
      <4>4. CASE i # 0
        <5>1. t[i - 1] = s[i - 1]
          BY <1>0, <3>2, <4>4
        <5>2. QED
          BY <4>1, <4>2, <4>4, <5>1
      <4>5. QED
        BY <4>3, <4>4
    <3>3. QED
      BY <1>0, <3>1, <3>2
  <2> HIDE DEF t, Solves
  <2>3. \E z : Solves(z, m + 1)
    BY <2>2
  <2>4. QED
    BY <1>0, <2>3
<1>3. 0..n \subseteq T
  <2> HIDE DEF T
  <2>1. QED
    BY <1>0, <1>1, <1>2, UpToInduction
<1>4. PICK s : Solves(s, n)
  <2>1. n \in T
    <3> HIDE DEF T
    <3>1. n \in 0..n
      BY <1>0
    <3>2. QED
      BY <1>3, <3>1
  <2> HIDE DEF Solves
  <2>2. QED
    BY <2>1
<1> DEFINE r == [i \in 0..n |-> s[i]]
<1>5. r = [i \in 0..n |-> Value(r, i)]
  <2>1. ASSUME NEW i \in 0..n PROVE r[i] = Value(r, i)
    <3>1. s[i] = Value(s, i)
      BY <1>4
    <3>2. CASE i = 0
      BY <3>1, <3>2
    <3>3. CASE i # 0
      <4>1. r[i - 1] = s[i - 1]
        BY <1>0, <3>3
      <4>2. QED
        BY <3>1, <3>3, <4>1
    <3>4. QED
      BY <3>2, <3>3
  <2>2. r = [i \in 0..n |-> r[i]]
    OBVIOUS
  <2> HIDE DEF r, Value
  <2>3. QED
    BY <2>1, <2>2
<1> HIDE DEF r
<1> DEFINE p == CHOOSE z : z = [i \in 0..n |-> Value(z, i)]
           step == [i \in 0..n |-> Value(p, i)]
<1>6. p = step
  BY <1>5
<1>7. AddProof(frontier, proof) = p[n]
  BY <1>p
<1> HIDE DEF p
<1>a. \A i \in 0..n : step[i] = Value(p, i)
  OBVIOUS
<1> HIDE DEF step, Value
<1>8. step[0] = frontier
  <2>1. 0 \in 0..n
    BY <1>0
  <2>2. step[0] = Value(p, 0)
    BY <1>a, <2>1
  <2>3. QED
    BY <2>2 DEF Value
<1>9. ASSUME NEW i \in 1..n PROVE step[i] = Step(p[i - 1], i)
  <2>1. i \in 0..n /\ i # 0
    BY <1>0
  <2>2. step[i] = Value(p, i)
    BY <1>a, <2>1
  <2>3. QED
    BY <2>1, <2>2 DEF Value
<1>10. p[0] = frontier /\ \A i \in 1..n : p[i] = Step(p[i - 1], i)
  BY <1>6, <1>8, <1>9
<1>11. IsAdding(p, frontier, proof)
  BY <1>10, <1>q
<1>12. QED
  BY <1>7, <1>11 DEF n

\* Frontier takes one proof after the other.
LEMMA FrontierDef ==
    ASSUME NEW proofs
    PROVE  \E p : IsGathering(p, proofs) /\ Frontier(proofs) = p[N]
<1> DEFINE n == N
           Step(v, i) == WithProof(v, proofs, i)
           Value(s, i) == IF i = 0 THEN <<>> ELSE Step(s[i - 1], i)
           Solves(s, m) == \A i \in 0..m : s[i] = Value(s, i)
           T == {m \in 0..n : \E s : Solves(s, m)}
<1>0. n \in Nat
  BY NAssumption
<1>p. Frontier(proofs) = (CHOOSE s : s = [i \in 0..n |-> Value(s, i)])[n]
  BY DEF Frontier, WithProof
<1>q. ASSUME NEW p, p[0] = <<>>, \A i \in 1..n : p[i] = Step(p[i - 1], i) PROVE IsGathering(p, proofs)
  BY <1>q DEF IsGathering
<1> HIDE DEF Step, n
<1>1. 0 \in T
  <2> DEFINE s == [i \in 0..0 |-> <<>>]
  <2>1. Solves(s, 0)
    OBVIOUS
  <2> HIDE DEF s, Solves
  <2>2. \E z : Solves(z, 0)
    BY <2>1
  <2>3. QED
    BY <1>0, <2>2
<1>2. ASSUME NEW m \in 0..(n - 1), m \in T PROVE m + 1 \in T
  <2>1. PICK s : Solves(s, m)
    BY <1>2
  <2> DEFINE t == [i \in 0..(m + 1) |-> IF i = m + 1 THEN Step(s[m], m + 1) ELSE s[i]]
  <2>2. Solves(t, m + 1)
    <3> SUFFICES ASSUME NEW i \in 0..(m + 1) PROVE t[i] = Value(t, i)
      OBVIOUS
    <3>1. CASE i = m + 1
      <4>1. i # 0 /\ i - 1 = m /\ m # m + 1 /\ m \in 0..(m + 1)
        BY <1>0, <3>1
      <4>2. t[i] = Step(s[m], m + 1) /\ t[i - 1] = s[m]
        BY <3>1, <4>1
      <4>3. QED
        BY <3>1, <4>1, <4>2
    <3>2. CASE i \in 0..m
      <4>1. s[i] = Value(s, i)
        BY <2>1, <3>2
      <4>2. t[i] = s[i]
        BY <1>0, <3>2
      <4>3. CASE i = 0
        BY <4>1, <4>2, <4>3
      <4>4. CASE i # 0
        <5>1. t[i - 1] = s[i - 1]
          BY <1>0, <3>2, <4>4
        <5>2. QED
          BY <4>1, <4>2, <4>4, <5>1
      <4>5. QED
        BY <4>3, <4>4
    <3>3. QED
      BY <1>0, <3>1, <3>2
  <2> HIDE DEF t, Solves
  <2>3. \E z : Solves(z, m + 1)
    BY <2>2
  <2>4. QED
    BY <1>0, <2>3
<1>3. 0..n \subseteq T
  <2> HIDE DEF T
  <2>1. QED
    BY <1>0, <1>1, <1>2, UpToInduction
<1>4. PICK s : Solves(s, n)
  <2>1. n \in T
    <3> HIDE DEF T
    <3>1. n \in 0..n
      BY <1>0
    <3>2. QED
      BY <1>3, <3>1
  <2> HIDE DEF Solves
  <2>2. QED
    BY <2>1
<1> DEFINE r == [i \in 0..n |-> s[i]]
<1>5. r = [i \in 0..n |-> Value(r, i)]
  <2>1. ASSUME NEW i \in 0..n PROVE r[i] = Value(r, i)
    <3>1. s[i] = Value(s, i)
      BY <1>4
    <3>2. CASE i = 0
      BY <3>1, <3>2
    <3>3. CASE i # 0
      <4>1. r[i - 1] = s[i - 1]
        BY <1>0, <3>3
      <4>2. QED
        BY <3>1, <3>3, <4>1
    <3>4. QED
      BY <3>2, <3>3
  <2>2. r = [i \in 0..n |-> r[i]]
    OBVIOUS
  <2> HIDE DEF r, Value
  <2>3. QED
    BY <2>1, <2>2
<1> HIDE DEF r
<1> DEFINE p == CHOOSE z : z = [i \in 0..n |-> Value(z, i)]
           step == [i \in 0..n |-> Value(p, i)]
<1>6. p = step
  BY <1>5
<1>7. Frontier(proofs) = p[n]
  BY <1>p
<1> HIDE DEF p
<1>a. \A i \in 0..n : step[i] = Value(p, i)
  OBVIOUS
<1> HIDE DEF step, Value
<1>8. step[0] = <<>>
  <2>1. 0 \in 0..n
    BY <1>0
  <2>2. step[0] = Value(p, 0)
    BY <1>a, <2>1
  <2>3. QED
    BY <2>2 DEF Value
<1>9. ASSUME NEW i \in 1..n PROVE step[i] = Step(p[i - 1], i)
  <2>1. i \in 0..n /\ i # 0
    BY <1>0
  <2>2. step[i] = Value(p, i)
    BY <1>a, <2>1
  <2>3. QED
    BY <2>1, <2>2 DEF Value
<1>10. p[0] = <<>> /\ \A i \in 1..n : p[i] = Step(p[i - 1], i)
  BY <1>6, <1>8, <1>9
<1>11. IsGathering(p, proofs)
  BY <1>10, <1>q
<1>12. QED
  BY <1>7, <1>11 DEF n

\* The stored siblings of a proof, and those below a level.
StoredBelow(proof, l) == {proof.siblings[m] : m \in {k \in 0..(l - 1) : IsStored(proof, k)}}

\* A list without repetitions of just the digests H.
Lists(frontier, H) ==
    /\ frontier \in Seq(H)
    /\ Range(frontier) = H
    /\ \A i, j \in 1..Len(frontier) : frontier[i] = frontier[j] => i = j

\* A digest that is not listed is appended.
LEMMA ListsMore ==
    ASSUME NEW s, NEW H, Lists(s, H), NEW h
    PROVE  h \notin H => Lists(Append(s, h), H \cup {h})
<1> SUFFICES ASSUME h \notin H PROVE Lists(Append(s, h), H \cup {h})
  OBVIOUS
<1> DEFINE t == Append(s, h)
           G == H \cup {h}
<1>1. s \in Seq(H) /\ Range(s) = H /\ Len(s) \in Nat /\ DOMAIN s = 1..Len(s)
  BY DEF Lists
<1>2. s \in Seq(G) /\ h \in G
  BY <1>1
<1>3. /\ t \in Seq(G) /\ Len(t) = Len(s) + 1 /\ DOMAIN t = 1..(Len(s) + 1)
      /\ \A i \in 1..Len(s) : t[i] = s[i]
      /\ t[Len(s) + 1] = h
  BY <1>2
<1>4. \A i \in 1..Len(s) : s[i] \in H
  BY <1>1
<1>5. \A x \in H : \E i \in 1..Len(s) : s[i] = x
  BY <1>1 DEF Range
<1>6. \A i, j \in 1..Len(s) : s[i] = s[j] => i = j
  BY DEF Lists
<1> HIDE DEF t
<1>7. Range(t) = G
  <2>1. ASSUME NEW x \in G PROVE x \in Range(t)
    <3>1. CASE x = h
      <4>1. Len(s) + 1 \in DOMAIN t
        BY <1>1, <1>3
      <4>2. QED
        BY <1>3, <3>1, <4>1 DEF Range
    <3>2. CASE x \in H
      <4>1. PICK i \in 1..Len(s) : s[i] = x
        BY <1>5, <3>2
      <4>2. i \in DOMAIN t /\ t[i] = x
        BY <1>1, <1>3, <4>1
      <4>3. QED
        BY <4>2 DEF Range
    <3>3. QED
      BY <3>1, <3>2
  <2>2. Range(t) \subseteq G
    BY <1>3 DEF Range
  <2>3. QED
    BY <2>1, <2>2
<1>8. ASSUME NEW i \in 1..Len(t), NEW j \in 1..Len(t), t[i] = t[j] PROVE i = j
  <2>1. (i \in 1..Len(s) \/ i = Len(s) + 1) /\ (j \in 1..Len(s) \/ j = Len(s) + 1)
    BY <1>1, <1>3
  <2>2. QED
    BY <1>3, <1>4, <1>6, <1>8, <2>1
<1>9. QED
  BY <1>3, <1>7, <1>8 DEF Lists, t

\* A proof adds its stored siblings.
LEMMA AddProofLists ==
    ASSUME Depth \in Nat, NEW s, NEW H, Lists(s, H), NEW proof
    PROVE  Lists(AddProof(s, proof), H \cup StoredBelow(proof, Depth))
<1>1. PICK p : IsAdding(p, s, proof) /\ AddProof(s, proof) = p[Depth]
  BY AddProofDef
<1> DEFINE T == {l \in 0..Depth : Lists(p[l], H \cup StoredBelow(proof, l))}
<1>2. 0 \in T
  <2>1. StoredBelow(proof, 0) = {}
    BY DEF StoredBelow
  <2>2. p[0] = s
    BY <1>1 DEF IsAdding
  <2>3. QED
    BY <2>1, <2>2
<1>3. ASSUME NEW l \in 0..(Depth - 1), l \in T PROVE l + 1 \in T
  <2> DEFINE G == H \cup StoredBelow(proof, l)
             K == H \cup StoredBelow(proof, l + 1)
             h == proof.siblings[l]
  <2>1. p[l + 1] = WithSibling(p[l], proof, l)
    <3>1. l + 1 \in 1..Depth /\ (l + 1) - 1 = l
      OBVIOUS
    <3>2. QED
      BY <1>1, <3>1 DEF IsAdding
  <2>2. Lists(p[l], G) /\ Range(p[l]) = G
    BY <1>3 DEF Lists
  <2>3. 0..((l + 1) - 1) = 0..(l - 1) \cup {l}
    OBVIOUS
  <2>4. IsStored(proof, l) => K = G \cup {h}
    BY <2>3 DEF StoredBelow
  <2>5. ~IsStored(proof, l) => K = G
    BY <2>3 DEF StoredBelow
  <2> HIDE DEF G, K, h
  <2>6. Lists(p[l + 1], K)
    <3>1. CASE IsStored(proof, l) /\ h \notin G
      <4>1. p[l + 1] = Append(p[l], h)
        BY <2>1, <2>2, <3>1 DEF WithSibling, h
      <4>2. QED
        BY <2>2, <2>4, <3>1, <4>1, ListsMore
    <3>2. CASE IsStored(proof, l) /\ h \in G
      <4>1. p[l + 1] = p[l] /\ K = G
        BY <2>1, <2>2, <2>4, <3>2 DEF WithSibling, h
      <4>2. QED
        BY <2>2, <4>1
    <3>3. CASE ~IsStored(proof, l)
      <4>1. p[l + 1] = p[l] /\ K = G
        BY <2>1, <2>5, <3>3 DEF WithSibling
      <4>2. QED
        BY <2>2, <4>1
    <3>4. QED
      BY <3>1, <3>2, <3>3
  <2>7. l + 1 \in 0..Depth
    OBVIOUS
  <2>8. QED
    BY <2>6, <2>7 DEF K
<1>4. Depth \in T
  <2> HIDE DEF T
  <2>1. 0..Depth \subseteq T
    BY <1>2, <1>3, UpToInduction
  <2>2. QED
    BY <2>1
<1>5. QED
  BY <1>1, <1>4

\* The stored siblings of the proofs for the first n addresses.
StoredOf(proofs, n) == UNION {StoredBelow(proofs[a], Depth) : a \in {b \in DOMAIN proofs : b <= n}}

\* The frontier lists every stored sibling of every proof once.
LEMMA FrontierLists ==
    ASSUME Depth \in Nat, NEW proofs, DOMAIN proofs \subseteq Address
    PROVE  Lists(Frontier(proofs), UNION {StoredBelow(proofs[a], Depth) : a \in DOMAIN proofs})
<1>1. PICK p : IsGathering(p, proofs) /\ Frontier(proofs) = p[N]
  BY FrontierDef
<1> DEFINE T == {n \in 0..N : Lists(p[n], StoredOf(proofs, n))}
<1>2. 0 \in T
  <2>1. {b \in DOMAIN proofs : b <= 0} = {}
    BY DEF Address
  <2>2. StoredOf(proofs, 0) = {}
    BY <2>1 DEF StoredOf
  <2>3. p[0] = <<>>
    BY <1>1 DEF IsGathering
  <2>4. Lists(<<>>, {})
    BY DEF Lists, Range
  <2>5. Lists(p[0], StoredOf(proofs, 0))
    BY <2>2, <2>3, <2>4
  <2>6. 0 \in 0..N
    BY NAssumption
  <2>7. QED
    BY <2>5, <2>6
<1>3. ASSUME NEW n \in 0..(N - 1), n \in T PROVE n + 1 \in T
  <2>1. n + 1 \in 1..N /\ (n + 1) - 1 = n /\ n + 1 \in 0..N
    BY NAssumption
  <2>2. p[n + 1] = WithProof(p[n], proofs, n + 1)
    BY <1>1, <2>1 DEF IsGathering
  <2>3. Lists(p[n], StoredOf(proofs, n))
    BY <1>3
  <2>4. \A b \in DOMAIN proofs : b <= n + 1 <=> b <= n \/ b = n + 1
    BY NAssumption DEF Address
  <2>5. CASE n + 1 \in DOMAIN proofs
    <3>1. StoredOf(proofs, n + 1) = StoredOf(proofs, n) \cup StoredBelow(proofs[n + 1], Depth)
      BY <2>4, <2>5 DEF StoredOf
    <3>2. p[n + 1] = AddProof(p[n], proofs[n + 1])
      BY <2>2, <2>5 DEF WithProof
    <3>3. QED
      BY <2>1, <2>3, <3>1, <3>2, AddProofLists
  <2>6. CASE n + 1 \notin DOMAIN proofs
    <3>1. {b \in DOMAIN proofs : b <= n + 1} = {b \in DOMAIN proofs : b <= n}
      BY <2>4, <2>6
    <3>2. StoredOf(proofs, n + 1) = StoredOf(proofs, n)
      BY <3>1 DEF StoredOf
    <3>3. p[n + 1] = p[n]
      BY <2>2, <2>6 DEF WithProof
    <3>4. QED
      BY <2>1, <2>3, <3>2, <3>3
  <2>7. QED
    BY <2>5, <2>6
<1>4. N \in T
  <2> HIDE DEF T
  <2>1. 0..N \subseteq T
    BY <1>2, <1>3, UpToInduction, NAssumption
  <2>2. QED
    BY <2>1, NAssumption
<1>5. {b \in DOMAIN proofs : b <= N} = DOMAIN proofs
  BY NAssumption DEF Address
<1>6. QED
  BY <1>1, <1>4, <1>5 DEF StoredOf

\* The depth at which a default subtree is looked for lies in the tree.
LEMMA SubtreeDepthType ==
    ASSUME NEW lv, NEW key PROVE DefaultSubtreeDepth(lv, key) \in 0..Depth
<1> USE DepthAssumption
<1>1. CASE DOMAIN lv = {}
  BY <1>1 DEF DefaultSubtreeDepth
<1>2. CASE DOMAIN lv # {}
  <2> DEFINE C(a) == CommonPrefixLen(KeyOf(a), key)
             S == {C(a) : a \in DOMAIN lv}
             m == Largest(S)
  <2>1. ASSUME NEW a \in DOMAIN lv PROVE C(a) \in 0..Depth
    <3> DEFINE T == {n \in 0..Depth : \A d \in 0..(n - 1) : KeyBit(KeyOf(a), d) = KeyBit(key, d)}
    <3>1. T \in SUBSET (0..Depth) /\ 0 \in T
      OBVIOUS
    <3>2. C(a) = Largest(T)
      BY DEF CommonPrefixLen
    <3> HIDE DEF T, C
    <3>3. QED
      BY <3>1, <3>2, LargestExists
  <2> HIDE DEF C
  <2>2. S \in SUBSET (0..Depth) /\ S # {}
    BY <1>2, <2>1
  <2>3. m \in 0..Depth
    <3>1. m \in S
      BY <2>2, LargestExists
    <3>2. QED
      BY <2>2, <3>1
  <2>4. DefaultSubtreeDepth(lv, key) = Smallest({Depth, m + 1})
    BY <1>2 DEF DefaultSubtreeDepth, C
  <2> HIDE DEF m
  <2>5. {Depth, m + 1} \in SUBSET Nat /\ {Depth, m + 1} # {}
    BY <2>3
  <2>6. /\ Smallest({Depth, m + 1}) \in {Depth, m + 1}
        /\ \A y \in {Depth, m + 1} : Smallest({Depth, m + 1}) <= y
    BY <2>5, SmallestExists
  <2>7. QED
    BY <2>3, <2>4, <2>6
<1>3. QED
  BY <1>1, <1>2

-----------------------------------------------------------------------------
(* Compact proofs expand to the proofs *)

\* A proof as the tree hands it out: a record whose siblings lie on one path.
PathProof(proof) ==
    /\ IsFcn(proof) /\ "siblings" \in DOMAIN proof
    /\ IsFcn(proof.siblings)
    /\ DOMAIN proof.siblings \subseteq 0..(Depth - 1)

\* Replacing the siblings leaves the other fields alone.
LEMMA SiblingsReplaced ==
    ASSUME NEW proof, IsFcn(proof), "siblings" \in DOMAIN proof, NEW S
    PROVE  LET new == [proof EXCEPT !.siblings = S]
           IN /\ DOMAIN new = DOMAIN proof /\ IsFcn(new)
              /\ new.siblings = S
              /\ new.kind = proof.kind /\ new.depth = proof.depth
              /\ [new EXCEPT !.siblings = proof.siblings] = proof
<1> DEFINE new == [proof EXCEPT !.siblings = S]
           back == [new EXCEPT !.siblings = proof.siblings]
<1>1. /\ DOMAIN new = DOMAIN proof /\ IsFcn(new)
      /\ new.siblings = S
      /\ \A x \in DOMAIN proof : x # "siblings" => new[x] = proof[x]
  BY DEF IsFcn
<1>2. "kind" # "siblings" /\ "depth" # "siblings"
  OBVIOUS
<1>3. new.kind = proof.kind /\ new.depth = proof.depth
  OBVIOUS
<1> HIDE DEF new
<1>4. /\ DOMAIN back = DOMAIN new /\ IsFcn(back)
      /\ \A x \in DOMAIN new : back[x] = IF x = "siblings" THEN proof.siblings ELSE new[x]
  BY <1>1 DEF IsFcn
<1> HIDE DEF back
<1>5. \A x \in DOMAIN proof : back[x] = proof[x]
  BY <1>1, <1>4
<1>6. back = proof
  BY <1>1, <1>4, <1>5 DEF IsFcn
<1>7. QED
  BY <1>1, <1>3, <1>6 DEF new, back

\* Over a frontier that lists its stored siblings, a compact proof refers to places
\* of the frontier and expands to the proof.
LEMMA ExpandCompact ==
    ASSUME NEW F, NEW H, Lists(F, H), NEW proof, PathProof(proof), StoredBelow(proof, Depth) \subseteq H,
           NEW compact, compact = CompactProof(F, proof)
    PROVE  /\ ExpandProof(F, compact) = proof
           /\ RefsInRange(F, compact)
           /\ compact.kind = proof.kind
           /\ DOMAIN compact.siblings = DOMAIN proof.siblings
           /\ \A l \in DOMAIN proof.siblings :
                 /\ compact.siblings[l].ref = "frontier" <=> proof.siblings[l] # DefaultAt(proof, l)
                 /\ compact.siblings[l].ref = "frontier" =>
                       /\ compact.siblings[l].index \in DOMAIN F
                       /\ F[compact.siblings[l].index] = proof.siblings[l]
<1> DEFINE refs == [l \in DOMAIN proof.siblings |-> SiblingRef(F, proof, l)]
<1>1. compact = [proof EXCEPT !.siblings = refs]
  BY DEF CompactProof
<1>3. ASSUME NEW l \in DOMAIN proof.siblings
      PROVE  /\ refs[l].ref = "default" <=> proof.siblings[l] = DefaultAt(proof, l)
             /\ refs[l].ref = "frontier" <=> proof.siblings[l] # DefaultAt(proof, l)
             /\ refs[l].ref = "frontier" =>
                   refs[l].index \in DOMAIN F /\ F[refs[l].index] = proof.siblings[l]
  <2>1. CASE proof.siblings[l] = DefaultAt(proof, l)
    <3>1. refs[l] = [ref |-> "default"]
      BY <2>1 DEF SiblingRef
    <3>2. refs[l].ref = "default" /\ "default" # "frontier"
      BY <3>1
    <3>3. QED
      BY <2>1, <3>2
  <2>2. CASE proof.siblings[l] # DefaultAt(proof, l)
    <3> DEFINE i == CHOOSE j \in DOMAIN F : F[j] = proof.siblings[l]
    <3>1. l \in 0..(Depth - 1) /\ IsStored(proof, l)
      BY <2>2 DEF PathProof, IsStored
    <3>2. proof.siblings[l] \in H
      BY <3>1 DEF StoredBelow
    <3>3. \E j \in DOMAIN F : F[j] = proof.siblings[l]
      BY <3>2 DEF Lists, Range
    <3>4. i \in DOMAIN F /\ F[i] = proof.siblings[l]
      BY <3>3
    <3>5. refs[l] = [ref |-> "frontier", index |-> i]
      BY <2>2 DEF SiblingRef
    <3> HIDE DEF i
    <3>6. refs[l].ref = "frontier" /\ refs[l].index = i /\ "default" # "frontier"
      BY <3>5
    <3>7. QED
      BY <2>2, <3>4, <3>6
  <2>3. QED
    BY <2>1, <2>2
<1>4. DOMAIN refs = DOMAIN proof.siblings
  OBVIOUS
<1> HIDE DEF refs
<1>2. /\ compact.siblings = refs /\ compact.kind = proof.kind /\ compact.depth = proof.depth
      /\ [compact EXCEPT !.siblings = proof.siblings] = proof
  <2>1. IsFcn(proof) /\ "siblings" \in DOMAIN proof
    BY DEF PathProof
  <2>2. LET new == [proof EXCEPT !.siblings = refs]
        IN /\ new.siblings = refs
           /\ new.kind = proof.kind /\ new.depth = proof.depth
           /\ [new EXCEPT !.siblings = proof.siblings] = proof
    BY <2>1, SiblingsReplaced
  <2>3. QED
    BY <1>1, <2>2
<1> DEFINE given == [l \in DOMAIN compact.siblings |->
                        IF compact.siblings[l].ref = "default" THEN DefaultAt(compact, l)
                        ELSE F[compact.siblings[l].index]]
<1>5. \A l : DefaultAt(compact, l) = DefaultAt(proof, l)
  BY <1>2 DEF DefaultAt
<1>6. given = proof.siblings
  <2>1. \A l \in DOMAIN proof.siblings : given[l] = proof.siblings[l]
    BY <1>2, <1>3, <1>4, <1>5
  <2>2. DOMAIN given = DOMAIN proof.siblings /\ IsFcn(given)
    BY <1>2, <1>4 DEF IsFcn
  <2> HIDE DEF given
  <2>3. QED
    BY <2>1, <2>2 DEF IsFcn, PathProof
<1>7. ExpandProof(F, compact) = [compact EXCEPT !.siblings = given]
  BY DEF ExpandProof
<1> HIDE DEF given
<1>8. ExpandProof(F, compact) = proof
  BY <1>2, <1>6, <1>7
<1>9. RefsInRange(F, compact)
  BY <1>2, <1>3, <1>4 DEF RefsInRange
<1>10. QED
  BY <1>2, <1>3, <1>4, <1>8, <1>9

\* The proofs that the tree hands out lie on one path each.
LEMMA ProofForIsPath ==
    ASSUME TypeOK, NEW a \in Address
    PROVE  LET proof == ProofFor(leaves, layers, a)
           IN /\ PathProof(proof)
              /\ proof.kind \in {"member", "default", "collision"}
<1> DEFINE key == KeyOf(a)
           other == Smallest(SharesPath(leaves, key))
           d == DefaultSubtreeDepth(leaves, key)
<1>1. Depth \in Nat
  BY DepthAssumption
<1>2. \A k : /\ IsFcn(MembershipSiblings(layers, k))
             /\ DOMAIN MembershipSiblings(layers, k) = 0..(Depth - 1)
  BY DEF MembershipSiblings, IsFcn
<1>3. /\ IsFcn(DefaultSiblings(layers, key, d))
      /\ DOMAIN DefaultSiblings(layers, key, d) = 0..(d - 1)
  BY DEF DefaultSiblings, IsFcn
<1>4. d \in 0..Depth
  BY SubtreeDepthType DEF TypeOK
<1>5. CASE a \in DOMAIN leaves
  <2>1. ProofFor(leaves, layers, a) = [kind |-> "member", siblings |-> MembershipSiblings(layers, key)]
    BY <1>5 DEF ProofFor, MembershipProof
  <2>2. PathProof(ProofFor(leaves, layers, a))
    <3> DEFINE proof == ProofFor(leaves, layers, a)
    <3>1. "siblings" \in DOMAIN proof /\ proof.siblings = MembershipSiblings(layers, key)
      BY <2>1
    <3>2. IsFcn(proof)
      BY <2>1 DEF IsFcn
    <3> HIDE DEF proof
    <3>3. PathProof(proof)
      BY <1>2, <3>1, <3>2 DEF PathProof
    <3>4. QED
      BY <3>3 DEF proof
  <2>3. QED
    BY <2>1, <2>2
<1>6. CASE a \notin DOMAIN leaves /\ SharesPath(leaves, key) # {}
  <2>1. ProofFor(leaves, layers, a) =
          [kind |-> "collision", address |-> other, balance |-> leaves[other].balance,
           salt |-> leaves[other].salt, siblings |-> MembershipSiblings(layers, KeyOf(other))]
    BY <1>6 DEF ProofFor
  <2> HIDE DEF other
  <2>2. PathProof(ProofFor(leaves, layers, a))
    <3> DEFINE proof == ProofFor(leaves, layers, a)
    <3>1. "siblings" \in DOMAIN proof /\ proof.siblings = MembershipSiblings(layers, KeyOf(other))
      BY <2>1
    <3>2. IsFcn(proof)
      BY <2>1 DEF IsFcn
    <3> HIDE DEF proof
    <3>3. PathProof(proof)
      BY <1>2, <3>1, <3>2 DEF PathProof
    <3>4. QED
      BY <3>3 DEF proof
  <2>3. QED
    BY <2>1, <2>2
<1>7. CASE a \notin DOMAIN leaves /\ SharesPath(leaves, key) = {}
  <2>1. ProofFor(leaves, layers, a) =
          [kind |-> "default", depth |-> d, siblings |-> DefaultSiblings(layers, key, d)]
    BY <1>7 DEF ProofFor
  <2> HIDE DEF d
  <2>2. 0..(d - 1) \subseteq 0..(Depth - 1)
    BY <1>1, <1>4
  <2>3. QED
    BY <1>3, <2>1, <2>2 DEF PathProof, IsFcn
<1>8. QED
  BY <1>5, <1>6, <1>7

\* The compact multiproof of the proofs of some addresses.
LEMMA MultiproofOf ==
    ASSUME TypeOK, NEW As \in SUBSET Address,
           NEW proofs, proofs = ProofsFor(leaves, layers, As),
           NEW compact, compact = CompactMultiproof(proofs)
    PROVE  /\ DOMAIN proofs = As /\ IsFcn(proofs)
           /\ \A a \in As : proofs[a] = ProofFor(leaves, layers, a) /\ PathProof(proofs[a])
           /\ Lists(compact.frontier, UNION {StoredBelow(proofs[a], Depth) : a \in As})
           /\ DOMAIN compact.entries = As
           /\ \A a \in As : compact.entries[a] = CompactProof(compact.frontier, proofs[a])
<1>1. DOMAIN proofs = As /\ IsFcn(proofs) /\ \A a \in As : proofs[a] = ProofFor(leaves, layers, a)
  BY DEF ProofsFor, IsFcn
<1>2. \A a \in As : PathProof(proofs[a])
  BY <1>1, ProofForIsPath
<1>3. compact = [frontier |-> Frontier(proofs),
                 entries |-> [a \in DOMAIN proofs |-> CompactProof(Frontier(proofs), proofs[a])]]
  BY DEF CompactMultiproof
<1>4. /\ compact.frontier = Frontier(proofs) /\ DOMAIN compact.entries = As
      /\ \A a \in As : compact.entries[a] = CompactProof(Frontier(proofs), proofs[a])
  BY <1>1, <1>3
<1>5. Lists(Frontier(proofs), UNION {StoredBelow(proofs[a], Depth) : a \in DOMAIN proofs})
  BY <1>1, FrontierLists, DepthAssumption
<1>6. QED
  BY <1>1, <1>2, <1>4, <1>5

\* A step of the prover is one of the library.
LEMMA ProverStep == ProverNext => Next
  BY DEF ProverNext, Next, ProveUpdate, ProveInsert

\* What holds of every history of the library holds of every history of the prover.
LEMMA ProverImplementsLibrary == ProverSpec => Spec
  BY ProverStep, PTL DEF ProverSpec, Spec

\* Expanding the compact multiproof of any addresses gives back their proofs; its
\* frontier holds no digest twice and none that is not referred to.
LEMMA RoundTrip == TypeOK => MultiproofRoundTrips
<1> SUFFICES ASSUME TypeOK, NEW As \in SUBSET Address,
                    NEW proofs, proofs = ProofsFor(leaves, layers, As),
                    NEW compact, compact = CompactMultiproof(proofs)
             PROVE  LET Used(a) == {compact.entries[a].siblings[l].index :
                                      l \in {m \in DOMAIN compact.entries[a].siblings :
                                                compact.entries[a].siblings[m].ref = "frontier"}}
                    IN /\ [a \in As |-> ExpandProof(compact.frontier, compact.entries[a])] = proofs
                       /\ IsInjective(compact.frontier)
                       /\ UNION {Used(a) : a \in As} = DOMAIN compact.frontier
  BY DEF MultiproofRoundTrips
<1> DEFINE F == compact.frontier
           entry(a) == compact.entries[a]
           Used(a) == {entry(a).siblings[l].index :
                          l \in {m \in DOMAIN entry(a).siblings : entry(a).siblings[m].ref = "frontier"}}
           H == UNION {StoredBelow(proofs[a], Depth) : a \in As}
<1>1. /\ DOMAIN proofs = As /\ IsFcn(proofs)
      /\ \A a \in As : PathProof(proofs[a])
      /\ Lists(F, H)
      /\ \A a \in As : entry(a) = CompactProof(F, proofs[a])
  BY MultiproofOf
<1> HIDE DEF F, entry
<1>2. ASSUME NEW a \in As
      PROVE  /\ ExpandProof(F, entry(a)) = proofs[a]
             /\ DOMAIN entry(a).siblings = DOMAIN proofs[a].siblings
             /\ \A l \in DOMAIN proofs[a].siblings :
                   /\ entry(a).siblings[l].ref = "frontier"
                         <=> proofs[a].siblings[l] # DefaultAt(proofs[a], l)
                   /\ entry(a).siblings[l].ref = "frontier" =>
                         /\ entry(a).siblings[l].index \in DOMAIN F
                         /\ F[entry(a).siblings[l].index] = proofs[a].siblings[l]
  BY <1>1, ExpandCompact
<1>3. [a \in As |-> ExpandProof(F, entry(a))] = proofs
  BY <1>1, <1>2 DEF IsFcn
<1>4. DOMAIN F = 1..Len(F) /\ \A i, j \in DOMAIN F : F[i] = F[j] => i = j
  <2>1. DOMAIN F = 1..Len(F)
    BY <1>1 DEF Lists
  <2>2. QED
    BY <1>1, <2>1 DEF Lists
<1>5. IsInjective(F)
  BY <1>4 DEF IsInjective
<1>6. UNION {Used(a) : a \in As} \subseteq DOMAIN F
  BY <1>2
<1>7. ASSUME NEW i \in DOMAIN F PROVE \E a \in As : i \in Used(a)
  <2>1. F[i] \in H
    BY <1>1 DEF Lists, Range
  <2>2. PICK a \in As : F[i] \in StoredBelow(proofs[a], Depth)
    BY <2>1
  <2>3. PICK l : IsStored(proofs[a], l) /\ F[i] = proofs[a].siblings[l]
    BY <2>2 DEF StoredBelow
  <2>4. l \in DOMAIN proofs[a].siblings /\ proofs[a].siblings[l] # DefaultAt(proofs[a], l)
    BY <2>3 DEF IsStored
  <2>5. /\ entry(a).siblings[l].ref = "frontier"
        /\ entry(a).siblings[l].index \in DOMAIN F
        /\ F[entry(a).siblings[l].index] = F[i]
    BY <1>2, <2>3, <2>4
  <2>6. entry(a).siblings[l].index = i
    BY <1>4, <2>5
  <2>7. QED
    BY <1>2, <2>4, <2>5, <2>6
<1>8. UNION {Used(a) : a \in As} = DOMAIN F
  <2> HIDE DEF Used
  <2>1. \A i \in DOMAIN F : i \in UNION {Used(a) : a \in As}
    BY <1>7
  <2>2. QED
    BY <1>6, <2>1
<1>9. QED
  BY <1>3, <1>5, <1>8 DEF F, entry

\* Whatever addresses a compact multiproof is asked for and whatever happened to the
\* tree before (tree.rs compact_multiproof, multiproof.rs).
THEOREM MultiproofsRoundTrip == ProverSpec => []MultiproofRoundTrips
<1>1. Spec => []TypeOK
  BY TypeCorrect
<1>2. QED
  BY <1>1, RoundTrip, ProverImplementsLibrary, PTL

-----------------------------------------------------------------------------
(* Paths and their siblings *)

\* Two keys that agree down to a depth fold the same siblings to the same digest.
LEMMA FoldUpSame ==
    ASSUME NEW key, NEW other, NEW d \in Nat, NEW start, NEW sib, NEW mirror,
           \A l \in 0..(d - 1) : sib[l] = mirror[l] /\ KeyBit(key, l) = KeyBit(other, l)
    PROVE  FoldUp(key, d, start, sib) = FoldUp(other, d, start, mirror)
<1>1. PICK f : IsFold(f, key, d, start, sib) /\ FoldUp(key, d, start, sib) = f[d]
  BY FoldUpDef
<1>2. PICK g : IsFold(g, other, d, start, mirror) /\ FoldUp(other, d, start, mirror) = g[d]
  BY FoldUpDef
<1> DEFINE T == {l \in 0..d : f[l] = g[l]}
<1>3. 0 \in T
  BY <1>1, <1>2 DEF IsFold
<1>4. ASSUME NEW o \in 0..(d - 1), o \in T PROVE o + 1 \in T
  <2>1. o + 1 \in 1..d /\ o + 1 \in 0..d /\ (o + 1) - 1 = o /\ d - (o + 1) \in 0..(d - 1)
    OBVIOUS
  <2>2. f[o + 1] = IF KeyBit(key, d - (o + 1)) = 1 THEN InternalHash(d - (o + 1), sib[o], f[o])
                   ELSE InternalHash(d - (o + 1), f[o], sib[o])
    BY <1>1, <2>1 DEF IsFold
  <2>3. g[o + 1] = IF KeyBit(other, d - (o + 1)) = 1
                     THEN InternalHash(d - (o + 1), mirror[o], g[o])
                     ELSE InternalHash(d - (o + 1), g[o], mirror[o])
    BY <1>2, <2>1 DEF IsFold
  <2>4. f[o] = g[o] /\ sib[o] = mirror[o] /\ KeyBit(key, d - (o + 1)) = KeyBit(other, d - (o + 1))
    BY <1>4, <2>1
  <2>5. f[o + 1] = g[o + 1]
    BY <2>2, <2>3, <2>4
  <2>6. QED
    BY <2>1, <2>5
<1>5. d \in T
  <2> HIDE DEF T
  <2>1. 0..d \subseteq T
    BY <1>3, <1>4, UpToInduction
  <2>2. QED
    BY <2>1
<1>6. QED
  BY <1>1, <1>2, <1>5

\* A path with one root has one list of siblings.
LEMMA FoldUpInjective ==
    ASSUME NEW key, NEW d \in Nat, NEW start, NEW sib, NEW mirror,
           FoldUp(key, d, start, sib) = FoldUp(key, d, start, mirror)
    PROVE  \A l \in 0..(d - 1) : sib[l] = mirror[l]
<1>1. PICK f : IsFold(f, key, d, start, sib) /\ FoldUp(key, d, start, sib) = f[d]
  BY FoldUpDef
<1>2. PICK g : IsFold(g, key, d, start, mirror) /\ FoldUp(key, d, start, mirror) = g[d]
  BY FoldUpDef
<1> DEFINE T == {m \in 0..d : /\ f[d - m] = g[d - m]
                              /\ \A l \in (d - m)..(d - 1) : sib[l] = mirror[l]}
<1>3. 0 \in T
  <2>1. d - 0 = d /\ 0 \in 0..d /\ \A l \in d..(d - 1) : FALSE
    OBVIOUS
  <2>2. f[d - 0] = g[d - 0]
    BY <1>1, <1>2, <2>1
  <2>3. \A l \in (d - 0)..(d - 1) : sib[l] = mirror[l]
    BY <2>1
  <2>4. QED
    BY <2>1, <2>2, <2>3
<1>4. ASSUME NEW m \in 0..(d - 1), m \in T PROVE m + 1 \in T
  <2> DEFINE l == d - m
  <2>1. /\ l \in 1..d /\ d - l = m /\ l - 1 = d - (m + 1) /\ m + 1 \in 0..d
        /\ \A k \in (d - (m + 1))..(d - 1) : k = l - 1 \/ k \in l..(d - 1)
    OBVIOUS
  <2>2. f[l] = IF KeyBit(key, m) = 1 THEN InternalHash(m, sib[l - 1], f[l - 1])
               ELSE InternalHash(m, f[l - 1], sib[l - 1])
    BY <1>1, <2>1 DEF IsFold
  <2>3. g[l] = IF KeyBit(key, m) = 1 THEN InternalHash(m, mirror[l - 1], g[l - 1])
               ELSE InternalHash(m, g[l - 1], mirror[l - 1])
    BY <1>2, <2>1 DEF IsFold
  <2>4. f[l] = g[l] /\ \A k \in l..(d - 1) : sib[k] = mirror[k]
    BY <1>4
  <2> HIDE DEF l
  <2>5. f[l - 1] = g[l - 1] /\ sib[l - 1] = mirror[l - 1]
    BY <2>2, <2>3, <2>4, InternalHashInjective
  <2>6. f[d - (m + 1)] = g[d - (m + 1)]
    BY <2>1, <2>5
  <2>7. \A k \in (d - (m + 1))..(d - 1) : sib[k] = mirror[k]
    BY <2>1, <2>4, <2>5
  <2>8. QED
    BY <2>1, <2>6, <2>7
<1>5. d \in T
  <2> HIDE DEF T
  <2>1. 0..d \subseteq T
    BY <1>3, <1>4, UpToInduction
  <2>2. QED
    BY <2>1
<1>6. d - d = 0
  OBVIOUS
<1>7. QED
  BY <1>5, <1>6

\* A node and its sibling are the two children of one parent.
LEMMA Siblings ==
    ASSUME NEW i \in Nat
    PROVE  /\ SiblingIndex(i) \in Nat /\ SiblingIndex(i) # i
           /\ SiblingIndex(i) \div 2 = i \div 2
           /\ {2 * (i \div 2), 2 * (i \div 2) + 1} = {i, SiblingIndex(i)}
<1> DEFINE p == i \div 2
<1>1. p \in Nat /\ i % 2 \in {0, 1} /\ i = 2 * p + (i % 2)
  BY HalfAndBit
<1>2. (2 * p + 0) \div 2 = p /\ (2 * p + 1) \div 2 = p
  BY <1>1, Halves
<1> HIDE DEF p
<1>3. CASE i % 2 = 0
  <2>1. i = 2 * p /\ SiblingIndex(i) = 2 * p + 1
    BY <1>1, <1>3 DEF SiblingIndex
  <2>2. QED
    BY <1>1, <1>2, <2>1 DEF p
<1>4. CASE i % 2 = 1
  <2>1. i = 2 * p + 1
    BY <1>1, <1>4
  <2>2. SiblingIndex(i) = 2 * p
    BY <1>1, <1>4, <2>1 DEF SiblingIndex
  <2>3. SiblingIndex(i) \in Nat /\ SiblingIndex(i) # i
    BY <1>1, <2>1, <2>2
  <2>4. SiblingIndex(i) \div 2 = i \div 2
    BY <1>1, <1>2, <2>1, <2>2
  <2>5. {2 * p, 2 * p + 1} = {i, SiblingIndex(i)}
    BY <2>1, <2>2
  <2>6. QED
    BY <2>3, <2>4, <2>5 DEF p
<1>5. QED
  BY <1>1, <1>3, <1>4

\* The index above a prefix is the shorter prefix.
LEMMA PrefixParent ==
    ASSUME IndexFits, NEW key \in Keys, NEW d \in 0..(Depth - 1)
    PROVE  /\ PrefixIndex(key, d + 1) \in Nat /\ PrefixIndex(key, d) \in Nat
           /\ PrefixIndex(key, d + 1) \div 2 = PrefixIndex(key, d)
<1> USE DepthAssumption
<1>1. PrefixIndex(key, d + 1) = 2 * PrefixIndex(key, d) + KeyBit(key, d)
  BY PrefixIndexStep
<1>2. d \in 0..Depth /\ d + 1 \in 0..Depth
  OBVIOUS
<1>3. PrefixIndex(key, d) \in Nat /\ PrefixIndex(key, d + 1) \in Nat /\ KeyBit(key, d) \in {0, 1}
  BY <1>2, PrefixIndexStep, KeyBitType
<1>4. QED
  BY <1>1, <1>3, Halves

\* The siblings of a key's path.
LEMMA SiblingOf ==
    ASSUME IndexFits, NEW ly, NEW key \in Keys, NEW l \in 0..(Depth - 1)
    PROVE  /\ MembershipSiblings(ly, key)[l] = NodeAt(ly, l, SiblingIndex(PrefixIndex(key, Depth - l)))
           /\ PathIndex(key, Depth)[l] = PrefixIndex(key, Depth - l)
           /\ PrefixIndex(key, Depth - l) \in Nat
<1> USE DepthAssumption
<1>1. Depth \in 0..Depth /\ l \in 0..Depth /\ Depth - l \in 0..Depth
  OBVIOUS
<1>2. PathIndex(key, Depth)[l] = PrefixIndex(key, Depth - l)
  BY <1>1, PathIndexIsPrefix
<1>3. PrefixIndex(key, Depth - l) \in Nat
  BY <1>1, PrefixIndexStep
<1>4. QED
  BY <1>2, <1>3 DEF MembershipSiblings

\* Two layers differ only in the slots of the keys W.
SameSlotsBut(W, x, y) ==
    \A i \in Nat : (\A k \in W : PrefixIndex(k, Depth) # i) => NodeAt(x, 0, i) = NodeAt(y, 0, i)

\* Writing some slots changes only the nodes above them.
LEMMA OffPathSame ==
    ASSUME IndexFits, NEW x, NEW y, TreeOK(x), TreeOK(y), NEW W \in SUBSET Keys,
           SameSlotsBut(W, x, y), NEW l \in 0..Depth
    PROVE  \A i \in Nat : (\A k \in W : PrefixIndex(k, Depth - l) # i)
                             => NodeAt(x, l, i) = NodeAt(y, l, i)
<1> USE DepthAssumption
<1> DEFINE Off(m, i) == \A k \in W : PrefixIndex(k, Depth - m) # i
           T == {m \in 0..Depth : \A i \in Nat : Off(m, i) => NodeAt(x, m, i) = NodeAt(y, m, i)}
<1>1. 0 \in T
  <2>1. Depth - 0 = Depth /\ 0 \in 0..Depth
    OBVIOUS
  <2>2. QED
    BY <2>1 DEF SameSlotsBut
<1>2. ASSUME NEW m \in 0..(Depth - 1), m \in T PROVE m + 1 \in T
  <2> DEFINE e == Depth - (m + 1)
  <2>1. /\ m + 1 \in 1..Depth /\ m + 1 \in 0..Depth /\ (m + 1) - 1 = m
        /\ e \in 0..(Depth - 1) /\ Depth - m = e + 1
    OBVIOUS
  <2>2. ASSUME NEW i \in Nat, Off(m + 1, i) PROVE NodeAt(x, m + 1, i) = NodeAt(y, m + 1, i)
    <3>1. /\ 2 * i \in Nat /\ 2 * i + 1 \in Nat
          /\ (2 * i + 0) \div 2 = i /\ (2 * i + 1) \div 2 = i
      BY Halves
    <3>2. \A k \in W : PrefixIndex(k, Depth - m) \div 2 = PrefixIndex(k, e)
      BY <2>1, PrefixParent
    <3>3. \A k \in W : PrefixIndex(k, e) # i
      BY <2>2
    <3>4. Off(m, 2 * i) /\ Off(m, 2 * i + 1)
      BY <3>1, <3>2, <3>3
    <3>5. \A j \in Nat : Off(m, j) => NodeAt(x, m, j) = NodeAt(y, m, j)
      BY <1>2
    <3> HIDE DEF Off
    <3>6. NodeAt(x, m, 2 * i) = NodeAt(y, m, 2 * i) /\ NodeAt(x, m, 2 * i + 1) = NodeAt(y, m, 2 * i + 1)
      BY <3>1, <3>4, <3>5
    <3>7. /\ NodeAt(x, m + 1, i)
               = InternalHash(Depth - (m + 1), NodeAt(x, m, 2 * i), NodeAt(x, m, 2 * i + 1))
          /\ NodeAt(y, m + 1, i)
               = InternalHash(Depth - (m + 1), NodeAt(y, m, 2 * i), NodeAt(y, m, 2 * i + 1))
      BY <2>1, NodeEquation
    <3>8. QED
      BY <3>6, <3>7
  <2>3. QED
    BY <2>1, <2>2
<1>3. l \in T
  <2> HIDE DEF T
  <2>1. 0..Depth \subseteq T
    BY <1>1, <1>2, UpToInduction
  <2>2. QED
    BY <2>1
<1>4. QED
  BY <1>3

\* Below the root of an empty subtree a path has default siblings.
LEMMA DefaultSiblingsBelow ==
    ASSUME IndexFits, NEW ly, NEW lv, TreeOK(ly), SlotsOK(ly, lv), DOMAIN lv \subseteq Address,
           NEW key \in Keys, NEW d \in 0..Depth,
           \A a \in DOMAIN lv : PrefixIndex(KeyOf(a), d) # PrefixIndex(key, d),
           NEW l \in 0..(Depth - d - 1)
    PROVE  MembershipSiblings(ly, key)[l] = DefaultHash[l]
<1> USE DepthAssumption
<1> DEFINE S == {KeyOf(a) : a \in DOMAIN lv}
           e == Depth - l - 1
           i == PrefixIndex(key, e + 1)
<1>1. /\ l \in 0..(Depth - 1) /\ e \in 0..(Depth - 1) /\ e \in 0..Depth /\ Depth - l = e + 1
      /\ e + 1 \in 0..Depth /\ Depth - (e + 1) = l /\ d <= e
  OBVIOUS
<1>2. S \in SUBSET Keys
  BY KeyType
<1>3. DOMAIN ly[0] = {PrefixIndex(k, Depth) : k \in S}
  BY DEF SlotsOK, LeafIndex
<1>4. \A k \in S : PrefixIndex(k, d) # PrefixIndex(key, d)
  OBVIOUS
<1> HIDE DEF S, e
<1>5. DOMAIN ly[Depth - (e + 1)] = {PrefixIndex(k, e + 1) : k \in S}
  <2>1. ASSUME NEW n \in 0..Depth PROVE DOMAIN ly[Depth - n] = {PrefixIndex(k, n) : k \in S}
    BY <1>2, <1>3, StoredNodes
  <2>2. QED
    BY <1>1, <2>1
<1>6. ASSUME NEW k \in S PROVE PrefixIndex(k, e + 1) # SiblingIndex(i)
  <2>1. SUFFICES ASSUME PrefixIndex(k, e + 1) = SiblingIndex(i) PROVE FALSE
    OBVIOUS
  <2>2. k \in Keys
    BY <1>2
  <2>3. /\ i \in Nat /\ i \div 2 = PrefixIndex(key, e)
        /\ PrefixIndex(k, e + 1) \div 2 = PrefixIndex(k, e)
    BY <1>1, <2>2, PrefixParent
  <2>4. SiblingIndex(i) \div 2 = i \div 2
    BY <2>3, Siblings
  <2>5. PrefixIndex(k, e) = PrefixIndex(key, e)
    BY <2>1, <2>3, <2>4
  <2>6. \A b \in 0..(e - 1) : KeyBit(k, b) = KeyBit(key, b)
    BY <1>1, <2>2, <2>5, PrefixIndexEqual
  <2>7. \A b \in 0..(d - 1) : b \in 0..(e - 1)
    BY <1>1
  <2>8. PrefixIndex(k, d) = PrefixIndex(key, d)
    BY <2>2, <2>6, <2>7, PrefixIndexEqual
  <2>9. QED
    BY <1>4, <2>8
<1>7. SiblingIndex(i) \notin DOMAIN ly[l]
  BY <1>1, <1>5, <1>6
<1>8. MembershipSiblings(ly, key)[l] = NodeAt(ly, l, SiblingIndex(i))
  BY <1>1, SiblingOf DEF i
<1>9. QED
  BY <1>7, <1>8 DEF NodeAt

-----------------------------------------------------------------------------
(* What the guest reads *)

\* The guest expands its input to the proofs the tree hands out at that moment.
LEMMA ExpandedProofs ==
    ASSUME TypeOK, NEW As \in SUBSET Address,
           NEW compact, compact = CompactMultiproof(ProofsFor(leaves, layers, As)), NEW a \in As
    PROVE  /\ ExpandProof(compact.frontier, compact.entries[a]) = ProofFor(leaves, layers, a)
           /\ RefsInRange(compact.frontier, compact.entries[a])
<1> DEFINE proofs == ProofsFor(leaves, layers, As)
           H == UNION {StoredBelow(proofs[b], Depth) : b \in As}
<1>1. /\ proofs[a] = ProofFor(leaves, layers, a) /\ PathProof(proofs[a])
      /\ Lists(compact.frontier, H)
      /\ compact.entries[a] = CompactProof(compact.frontier, proofs[a])
  BY MultiproofOf
<1>2. StoredBelow(proofs[a], Depth) \subseteq H
  OBVIOUS
<1> HIDE DEF proofs, H
<1>3. /\ ExpandProof(compact.frontier, compact.entries[a]) = proofs[a]
      /\ RefsInRange(compact.frontier, compact.entries[a])
  BY <1>1, <1>2, ExpandCompact
<1>4. QED
  BY <1>1, <1>3

\* The proof the tree hands out for an account without a leaf on its path: the root of
\* an empty subtree, which the guest's verifier accepts.
DefaultNow(a, now) ==
    /\ SharesPath(leaves, KeyOf(a)) = {}
    /\ now = [kind |-> "default", depth |-> DefaultSubtreeDepth(leaves, KeyOf(a)),
              siblings |-> DefaultSiblings(layers, KeyOf(a), DefaultSubtreeDepth(leaves, KeyOf(a)))]
    /\ GuestDefaultVerifies(Root(layers), a, now)

\* And with one: that leaf, which the guest's verifier accepts if it holds the slot.
CollisionNow(a, now) ==
    /\ now.kind = "collision" /\ now.address \in DOMAIN leaves
    /\ LeafIndex(now.address) = LeafIndex(a)
    /\ now.siblings = MembershipSiblings(layers, KeyOf(now.address))
    /\ CommonPrefixLen(KeyOf(a), KeyOf(now.address)) = Depth
    /\ GuestCollisionVerifies(Root(layers), a, now)

\* The guest accepts a default subtree that the tree has now, by its siblings read upwards.
LEMMA GuestAcceptsDefault ==
    ASSUME IndexFits, TypeOK, TreeInv, NEW a \in Address, a \notin DOMAIN leaves,
           SharesPath(leaves, KeyOf(a)) = {}
    PROVE  DefaultNow(a, ProofFor(leaves, layers, a))
<1> DEFINE key == KeyOf(a)
           d == DefaultSubtreeDepth(leaves, key)
           q == [kind |-> "default", depth |-> d, siblings |-> DefaultSiblings(layers, key, d)]
<1>1. ProofFor(leaves, layers, a) = q
  BY DEF ProofFor
<1>2. key \in Keys /\ DOMAIN leaves \subseteq Address /\ TreeOK(layers) /\ SlotsOK(layers, leaves)
  BY KeyType DEF TypeOK, TreeInv
<1>3. DefaultVerifies(Root(layers), key, q)
  BY <1>2, HonestDefault
<1> HIDE DEF q
<1>4. GuestDefaultVerifies(Root(layers), a, q)
  BY <1>3 DEF DefaultVerifies, GuestDefaultVerifies
<1>5. QED
  BY <1>1, <1>4 DEF DefaultNow, q

\* The guest accepts a colliding leaf that is in the slot now.
LEMMA GuestAcceptsCollision ==
    ASSUME IndexFits, TypeOK, TreeInv, NEW a \in Address, a \notin DOMAIN leaves,
           NEW o, o = Smallest(SharesPath(leaves, KeyOf(a))), SharesPath(leaves, KeyOf(a)) # {},
           KeyOf(o) # KeyOf(a), layers[0][LeafIndex(a)] = HashOfLeaf(leaves, o)
    PROVE  CollisionNow(a, ProofFor(leaves, layers, a))
<1> DEFINE key == KeyOf(a)
           S == SharesPath(leaves, key)
           sib == MembershipSiblings(layers, KeyOf(o))
           q == [kind |-> "collision", address |-> o, balance |-> leaves[o].balance,
                 salt |-> leaves[o].salt, siblings |-> sib]
<1>1. ProofFor(leaves, layers, a) = q
  BY DEF ProofFor
<1>2. DOMAIN leaves \subseteq Address /\ TreeOK(layers) /\ SlotsOK(layers, leaves)
  BY DEF TypeOK, TreeInv
<1>3. S \in SUBSET Nat
  BY <1>2 DEF SharesPath, Address
<1>4. o \in S
  BY <1>3, SmallestExists
<1>5. o \in DOMAIN leaves /\ CommonPrefixLen(KeyOf(o), key) = Depth
  BY <1>4 DEF SharesPath
<1>6. o \in Address /\ KeyOf(o) \in Keys /\ key \in Keys
  BY <1>2, <1>5, KeyType
<1> HIDE DEF S
<1>7. LeafIndex(o) = LeafIndex(a) /\ CommonPrefixLen(key, KeyOf(o)) = Depth
  BY <1>5, <1>6, CommonPrefixLenIsDepth DEF LeafIndex
<1>8. LeafIndex(o) \in DOMAIN layers[0]
  BY <1>2, <1>5 DEF SlotsOK
<1>9. MembershipVerifies(Root(layers), KeyOf(o), leaves[o].balance, leaves[o].salt, sib)
  BY <1>2, <1>6, <1>7, <1>8, SlotIsMembership DEF HashOfLeaf
<1>10. /\ q.kind = "collision" /\ q.address = o /\ q.siblings = sib
       /\ CollisionLeaf(q).balance = leaves[o].balance /\ CollisionLeaf(q).salt = leaves[o].salt
  BY DEF CollisionLeaf
<1> HIDE DEF q, sib
<1>11. GuestCollisionVerifies(Root(layers), a, q)
  BY <1>9, <1>10 DEF GuestCollisionVerifies, GuestMembershipRoot, MembershipVerifies
<1>12. QED
  BY <1>1, <1>5, <1>7, <1>10, <1>11 DEF CollisionNow, sib

\* An absence that the library accepts on a held proof, the guest accepts on a fresh
\* one: where paths clash both name the leaf in the slot.
LEMMA FreshAbsence ==
    ASSUME IndexFits, KeysApart, TypeOK, TreeInv, NEW a \in Address, a \notin DOMAIN leaves,
           NEW proof, ProofTyped(proof), NotReturned(leaves, layers, a, proof),
           NonMembershipVerifies(Root(layers), a, proof)
    PROVE  \/ DefaultNow(a, ProofFor(leaves, layers, a))
           \/ CollisionNow(a, ProofFor(leaves, layers, a))
<1> DEFINE S == SharesPath(leaves, KeyOf(a))
           o == Smallest(S)
<1>1. DOMAIN leaves \subseteq Address /\ TreeOK(layers) /\ SlotsOK(layers, leaves)
  BY DEF TypeOK, TreeInv
<1>2. CASE S = {}
  BY <1>2, GuestAcceptsDefault
<1>3. CASE S # {}
  <2>1. PICK b \in DOMAIN leaves : CommonPrefixLen(KeyOf(b), KeyOf(a)) = Depth
    BY <1>3 DEF SharesPath
  <2>2. KeyOf(b) \in Keys /\ KeyOf(a) \in Keys
    BY <1>1, KeyType
  <2>3. LeafIndex(b) = LeafIndex(a)
    BY <2>1, <2>2, CommonPrefixLenIsDepth DEF LeafIndex
  <2>4. ~(proof.kind = "default" /\ DefaultVerifies(Root(layers), KeyOf(a), proof))
    BY <1>1, <2>3, DefaultIsEmptySlot DEF ProofTyped
  <2>5. proof.kind = "collision" /\ CollisionVerifies(Root(layers), KeyOf(a), proof)
    BY <2>4 DEF NonMembershipVerifies
  <2> DEFINE p == proof.address
  <2>6. p \in Address
    BY <2>5 DEF ProofTyped
  <2>7. /\ KeyOf(p) # KeyOf(a) /\ LeafIndex(p) = LeafIndex(a) /\ LeafIndex(a) \in DOMAIN layers[0]
        /\ layers[0][LeafIndex(a)] = LeafHash(KeyOf(p), proof.balance, proof.salt)
    BY <1>1, <2>5, <2>6, CollisionIsSlot
  <2>8. layers[0][LeafIndex(a)][2] = KeyOf(p)
    BY <2>7 DEF LeafHash
  <2>9. ~NoPathClash /\ DistinctInputs
    BY <2>6, <2>7 DEF NoPathClash, KeysApart
  <2>10. p = o /\ p \in DOMAIN leaves
    BY <2>5, <2>8, <2>9 DEF NotReturned
  <2>11. PICK c \in DOMAIN leaves : layers[0][LeafIndex(a)] = HashOfLeaf(leaves, c)
    BY <1>1, <2>7 DEF SlotsOK
  <2>12. KeyOf(c) = KeyOf(p)
    BY <2>8, <2>11 DEF HashOfLeaf, LeafHash
  <2>13. c = p
    BY <1>1, <2>6, <2>9, <2>12, KeysDiffer
  <2>14. QED
    BY <1>3, <2>7, <2>10, <2>11, <2>13, GuestAcceptsCollision
<1>4. QED
  BY <1>2, <1>3

-----------------------------------------------------------------------------
(* The guest's insertion *)

\* The root after an insertion is that of the new leaf over the siblings of the old tree.
LEMMA InsertedRoot ==
    ASSUME IndexFits, TypeOK, TreeInv, NEW w, w.address \in Address,
           NEW newLeaf, newLeaf = [balance |-> w.balance, salt |-> w.salt]
    PROVE  Root(InsertedLayers(w))
              = GuestMembershipRoot(w.address, newLeaf, MembershipSiblings(layers, KeyOf(w.address)))
<1> USE DepthAssumption
<1> DEFINE x == w.address
           key == KeyOf(x)
           lv == InsertedLeaves(w)
           up == UpsertAll(layers, lv, {x})
           h == LeafHash(key, newLeaf.balance, newLeaf.salt)
           W == {key}
<1>1. InsertedLayers(w) = up /\ key \in Keys /\ TreeOK(layers) /\ {x} \in SUBSET Address
  BY KeyType DEF InsertedLayers, TreeInv
<1>2. HashOfLeaf(lv, x) = h
  BY DEF InsertedLeaves, Put, HashOfLeaf
<1> HIDE DEF lv
<1>3. /\ TreeOK(up)
      /\ DOMAIN up[0] = DOMAIN layers[0] \cup {LeafIndex(a) : a \in {x}}
      /\ \A i \in DOMAIN up[0] :
            \/ \E a \in {x} : LeafIndex(a) = i /\ up[0][i] = HashOfLeaf(lv, a)
            \/ /\ i \in DOMAIN layers[0] /\ \A a \in {x} : LeafIndex(a) # i
               /\ up[0][i] = layers[0][i]
  BY <1>1, UpsertAllTree
<1> HIDE DEF x, up, h
<1>4. NodeAt(up, 0, LeafIndex(x)) = h
  BY <1>2, <1>3 DEF NodeAt
<1>5. SameSlotsBut(W, up, layers)
  BY <1>3 DEF SameSlotsBut, NodeAt, LeafIndex
<1>6. Depth \in 0..Depth /\ Depth - Depth = 0 /\ Depth \in Nat /\ W \in SUBSET Keys
  BY <1>1
<1>7. FoldUp(key, Depth, h, MembershipSiblings(up, key)) = Root(up)
  <2>1. FoldUp(key, Depth, NodeAt(up, Depth - Depth, PrefixIndex(key, Depth)),
               DefaultSiblings(up, key, Depth)) = Root(up)
    BY <1>1, <1>3, <1>6, FoldComplete
  <2>2. NodeAt(up, Depth - Depth, PrefixIndex(key, Depth)) = h
    BY <1>4, <1>6 DEF LeafIndex
  <2>3. QED
    BY <2>1, <2>2, MembershipIsFullPath
<1>8. ASSUME NEW l \in 0..(Depth - 1)
      PROVE  MembershipSiblings(up, key)[l] = MembershipSiblings(layers, key)[l]
  <2> DEFINE i == PrefixIndex(key, Depth - l)
  <2>1. /\ MembershipSiblings(up, key)[l] = NodeAt(up, l, SiblingIndex(i))
        /\ MembershipSiblings(layers, key)[l] = NodeAt(layers, l, SiblingIndex(i))
        /\ i \in Nat
    BY <1>1, SiblingOf
  <2>2. SiblingIndex(i) \in Nat /\ SiblingIndex(i) # i
    BY <2>1, Siblings
  <2>3. l \in 0..Depth
    OBVIOUS
  <2>4. \A k \in W : PrefixIndex(k, Depth - l) # SiblingIndex(i)
    BY <2>2
  <2> HIDE DEF i, W
  <2>5. \A j \in Nat : (\A k \in W : PrefixIndex(k, Depth - l) # j) => NodeAt(up, l, j) = NodeAt(layers, l, j)
    BY <1>1, <1>3, <1>5, <1>6, <2>3, OffPathSame
  <2>6. NodeAt(up, l, SiblingIndex(i)) = NodeAt(layers, l, SiblingIndex(i))
    BY <2>2, <2>4, <2>5
  <2>7. QED
    BY <2>1, <2>6
<1>9. FoldUp(key, Depth, h, MembershipSiblings(up, key)) = FoldUp(key, Depth, h, MembershipSiblings(layers, key))
  BY <1>6, <1>8, FoldUpSame
<1>10. QED
  BY <1>1, <1>7, <1>9 DEF GuestMembershipRoot, h, x

\* The siblings of the path that the guest folds the new leaf with.
GuestSiblings(proof) ==
    IF proof.kind = "default" THEN ExpandDefaultToMembership(proof) ELSE proof.siblings

\* An insertion whose fresh proof is accepted is confirmed exactly if the guest folds
\* the new leaf to the root that the library wrote.
LEMMA InsertConfirmed ==
    ASSUME TypeOK, NEW w \in held, w.op = "insert", w.balance >= 0, InI128(total + w.balance),
           NEW now, now = ProofFor(leaves, layers, w.address),
           \/ now.kind = "default" /\ GuestDefaultVerifies(Root(layers), w.address, now)
           \/ now.kind = "collision" /\ GuestCollisionVerifies(Root(layers), w.address, now),
           NEW newLeaf, newLeaf = [balance |-> w.balance, salt |-> w.salt]
    PROVE  GuestConfirmsInsert(w)
              <=> GuestMembershipRoot(w.address, newLeaf, GuestSiblings(now)) = Root(InsertedLayers(w))
<1> DEFINE x == w.address
           compact == CompactMultiproof(ProofsFor(leaves, layers, {x}))
           input == InsertStdin(w)
           pv == GuestInsert(input)
           root == GuestMembershipRoot(x, newLeaf, GuestSiblings(now))
<1>1. x \in Address /\ {x} \in SUBSET Address /\ total \in Int /\ w.balance \in Int
  BY InsertBalancesAssumption DEF TypeOK, WitnessOK
<1>2. /\ ExpandProof(compact.frontier, compact.entries[x]) = now
      /\ RefsInRange(compact.frontier, compact.entries[x])
  BY <1>1, ExpandedProofs
<1>3. /\ input.oldRoot = Root(layers) /\ input.oldTotal = total
      /\ input.frontier = compact.frontier /\ input.proof = compact.entries[x]
      /\ input.address = x /\ input.balance = w.balance /\ input.salt = w.salt
  BY DEF InsertStdin
<1> HIDE DEF compact, input
<1>4. pv = [accepted |-> TRUE, oldRoot |-> Root(layers), newRoot |-> root,
            delta |-> w.balance, newTotal |-> total + w.balance]
  <2>1. /\ ExpandProof(input.frontier, input.proof) = now
        /\ RefsInRange(input.frontier, input.proof)
    BY <1>2, <1>3
  <2>2. QED
    BY <1>3, <2>1 DEF GuestInsert, GuestSiblings
<1>5. Wrap(total + w.balance) = total + w.balance
  BY <1>1, WrapInRange
<1>6. GuestConfirmsInsert(w) <=> /\ pv.accepted
                                 /\ pv.oldRoot = Root(layers)
                                 /\ pv.newRoot = Root(InsertedLayers(w))
                                 /\ pv.delta = w.balance
                                 /\ pv.newTotal = Wrap(total + w.balance)
  BY DEF GuestConfirmsInsert, input
<1>7. /\ pv.accepted = TRUE /\ pv.oldRoot = Root(layers) /\ pv.newRoot = root
      /\ pv.delta = w.balance /\ pv.newTotal = total + w.balance
  BY <1>4
<1> HIDE DEF pv, root
<1>8. QED
  BY <1>5, <1>6, <1>7 DEF root

\* Into an empty subtree: the guest's siblings are the tree's from bottom to top, but
\* those of the proof in reverse.
LEMMA MirroredSiblings ==
    ASSUME IndexFits, TypeOK, TreeInv, NEW x \in Address, NEW now, DefaultNow(x, now)
    PROVE  (\A l \in 0..(Depth - 1) :
               ExpandDefaultToMembership(now)[l] = MembershipSiblings(layers, KeyOf(x))[l])
           <=> (\A o \in DOMAIN now.siblings :
                   now.siblings[o] = now.siblings[now.depth - 1 - o])
<1> USE DepthAssumption
<1> DEFINE key == KeyOf(x)
           d == now.depth
           height == Depth - d
           sib == now.siblings
           tree == MembershipSiblings(layers, key)
           guest == ExpandDefaultToMembership(now)
<1>1. key \in Keys /\ DOMAIN leaves \subseteq Address /\ TreeOK(layers) /\ SlotsOK(layers, leaves)
  BY KeyType DEF TypeOK, TreeInv
<1>2. /\ d = DefaultSubtreeDepth(leaves, key) /\ sib = DefaultSiblings(layers, key, d)
      /\ SharesPath(leaves, key) = {}
  BY DEF DefaultNow
<1>3. d \in 0..Depth /\ \A a \in DOMAIN leaves : PrefixIndex(KeyOf(a), d) # PrefixIndex(key, d)
  BY <1>1, <1>2, DefaultDepth
<1>4. DOMAIN sib = 0..(d - 1)
  BY <1>2 DEF DefaultSiblings
<1>5. ASSUME NEW o \in 0..(d - 1) PROVE sib[o] = tree[height + o]
  <2>1. /\ o \in 0..d /\ height + o \in 0..(Depth - 1) /\ d - o = Depth - (height + o)
        /\ Depth - d + o = height + o
    BY <1>3
  <2>2. sib[o] = NodeAt(layers, Depth - d + o, SiblingIndex(PathIndex(key, d)[o]))
    BY <1>2 DEF DefaultSiblings
  <2>3. PathIndex(key, d)[o] = PrefixIndex(key, d - o)
    BY <1>1, <1>3, <2>1, PathIndexIsPrefix
  <2> DEFINE m == height + o
  <2>4. tree[m] = NodeAt(layers, m, SiblingIndex(PrefixIndex(key, Depth - m)))
    <3>1. m \in 0..(Depth - 1)
      BY <2>1
    <3> HIDE DEF m
    <3>2. QED
      BY <1>1, <3>1, SiblingOf
  <2>5. QED
    BY <2>1, <2>2, <2>3, <2>4
<1>6. ASSUME NEW l \in 0..(height - 1) PROVE tree[l] = DefaultHash[l]
  <2>1. l \in 0..(Depth - d - 1)
    OBVIOUS
  <2>2. QED
    BY <1>1, <1>3, <2>1, DefaultSiblingsBelow
<1>7. ASSUME NEW l \in 0..(Depth - 1)
      PROVE  guest[l] = IF l < height THEN DefaultHash[l] ELSE sib[d - 1 - (l - height)]
  BY DEF ExpandDefaultToMembership
<1> HIDE DEF key, sib, tree, guest
<1>8. ASSUME NEW l \in 0..(Depth - 1), l < height PROVE guest[l] = tree[l]
  <2>1. l \in 0..(height - 1)
    BY <1>3, <1>8
  <2>2. QED
    BY <1>6, <1>7, <1>8, <2>1
<1>9. ASSUME NEW o \in 0..(d - 1)
      PROVE  /\ height + o \in 0..(Depth - 1)
             /\ guest[height + o] = sib[d - 1 - o] /\ tree[height + o] = sib[o]
  <2>1. /\ height + o \in 0..(Depth - 1) /\ ~(height + o < height)
        /\ d - 1 - ((height + o) - height) = d - 1 - o
    BY <1>3
  <2> DEFINE m == height + o
  <2>2. guest[m] = IF m < height THEN DefaultHash[m] ELSE sib[d - 1 - (m - height)]
    BY <1>7, <2>1
  <2>3. QED
    BY <1>5, <2>1, <2>2
<1>10. ASSUME NEW l \in 0..(Depth - 1), ~(l < height)
       PROVE  l - height \in 0..(d - 1) /\ height + (l - height) = l
  BY <1>3, <1>10
<1> HIDE DEF height, d
<1>11. (\A l \in 0..(Depth - 1) : guest[l] = tree[l])
         <=> \A o \in 0..(d - 1) : sib[o] = sib[d - 1 - o]
  <2>1. ASSUME \A l \in 0..(Depth - 1) : guest[l] = tree[l], NEW o \in 0..(d - 1)
        PROVE  sib[o] = sib[d - 1 - o]
    BY <1>9, <2>1
  <2>2. ASSUME \A o \in 0..(d - 1) : sib[o] = sib[d - 1 - o], NEW l \in 0..(Depth - 1)
        PROVE  guest[l] = tree[l]
    <3>1. CASE l < height
      BY <1>8, <3>1
    <3>2. CASE ~(l < height)
      <4>1. l - height \in 0..(d - 1) /\ height + (l - height) = l
        BY <1>10, <3>2
      <4>2. guest[height + (l - height)] = tree[height + (l - height)]
        BY <1>9, <2>2, <4>1
      <4>3. QED
        BY <4>1, <4>2
    <3>3. QED
      BY <3>1, <3>2
  <2>3. QED
    BY <2>1, <2>2
<1>12. QED
  BY <1>4, <1>11 DEF guest, tree, sib, d, key

\* Over a colliding leaf the siblings are those of the new leaf's own path.
LEMMA CollisionSiblings ==
    ASSUME IndexFits, TypeOK, NEW x \in Address, NEW now, CollisionNow(x, now), NEW newLeaf
    PROVE  GuestMembershipRoot(x, newLeaf, now.siblings)
              = GuestMembershipRoot(x, newLeaf, MembershipSiblings(layers, KeyOf(x)))
<1> USE DepthAssumption
<1> DEFINE key == KeyOf(x)
           other == KeyOf(now.address)
<1>1. /\ now.address \in DOMAIN leaves /\ LeafIndex(now.address) = LeafIndex(x)
      /\ now.siblings = MembershipSiblings(layers, other)
  BY DEF CollisionNow
<1>2. key \in Keys /\ other \in Keys
  BY <1>1, KeyType DEF TypeOK
<1>3. PrefixIndex(key, Depth) = PrefixIndex(other, Depth)
  BY <1>1 DEF LeafIndex
<1> HIDE DEF key, other
<1>4. \A b \in 0..(Depth - 1) : KeyBit(key, b) = KeyBit(other, b)
  <2>1. Depth \in 0..Depth
    OBVIOUS
  <2>2. QED
    BY <1>2, <1>3, <2>1, PrefixIndexEqual
<1>5. ASSUME NEW l \in 0..(Depth - 1)
      PROVE  MembershipSiblings(layers, other)[l] = MembershipSiblings(layers, key)[l]
  <2>1. Depth - l \in 0..Depth /\ \A b \in 0..(Depth - l - 1) : b \in 0..(Depth - 1)
    OBVIOUS
  <2>2. PrefixIndex(key, Depth - l) = PrefixIndex(other, Depth - l)
    BY <1>2, <1>4, <2>1, PrefixIndexEqual
  <2>3. QED
    BY <1>2, <2>2, SiblingOf
<1>6. QED
  BY <1>1, <1>5, FoldUpSame DEF GuestMembershipRoot, key

\* How far the two insertions agree, in one state.
LEMMA MirroredInsert ==
    ASSUME IndexFits, KeysApart, TypeOK, TreeInv, HeldTyped, HeldNotReturned,
           NEW w \in held, w.op = "insert", InsertVerifies(w), InI128(total + w.balance),
           NEW now, now = ProofFor(leaves, layers, w.address)
    PROVE  GuestConfirmsInsert(w)
              <=> (now.kind = "default" => \A o \in DOMAIN now.siblings :
                                              now.siblings[o] = now.siblings[now.depth - 1 - o])
<1> USE DepthAssumption
<1> DEFINE x == w.address
           newLeaf == [balance |-> w.balance, salt |-> w.salt]
           tree == MembershipSiblings(layers, KeyOf(x))
           root == Root(InsertedLayers(w))
           mirrored == \A o \in DOMAIN now.siblings :
                          now.siblings[o] = now.siblings[now.depth - 1 - o]
<1>1. /\ x \in Address /\ x \notin DOMAIN leaves /\ w.balance >= 0
      /\ NonMembershipVerifies(Root(layers), x, w.proof)
      /\ ProofTyped(w.proof) /\ NotReturned(leaves, layers, x, w.proof)
  BY DEF TypeOK, WitnessOK, InsertVerifies, HeldTyped, HeldNotReturned
<1>2. DefaultNow(x, now) \/ CollisionNow(x, now)
  BY <1>1, FreshAbsence
<1>3. root = GuestMembershipRoot(x, newLeaf, tree)
  BY <1>1, InsertedRoot
<1>4. CASE CollisionNow(x, now)
  <2>1. now.kind = "collision" /\ GuestCollisionVerifies(Root(layers), x, now)
    BY <1>4 DEF CollisionNow
  <2>2. GuestConfirmsInsert(w) <=> GuestMembershipRoot(x, newLeaf, GuestSiblings(now)) = root
    BY <1>1, <2>1, InsertConfirmed
  <2>3. GuestSiblings(now) = now.siblings
    BY <2>1 DEF GuestSiblings
  <2>4. GuestMembershipRoot(x, newLeaf, now.siblings) = GuestMembershipRoot(x, newLeaf, tree)
    BY <1>1, <1>4, CollisionSiblings
  <2> HIDE DEF newLeaf, tree, root
  <2>5. QED
    BY <1>3, <2>1, <2>2, <2>3, <2>4
<1>5. CASE DefaultNow(x, now)
  <2> DEFINE h == LeafHash(KeyOf(x), newLeaf.balance, newLeaf.salt)
             guest == ExpandDefaultToMembership(now)
  <2>1. now.kind = "default" /\ GuestDefaultVerifies(Root(layers), x, now)
    BY <1>5 DEF DefaultNow
  <2>2. GuestConfirmsInsert(w) <=> GuestMembershipRoot(x, newLeaf, GuestSiblings(now)) = root
    BY <1>1, <2>1, InsertConfirmed
  <2>3. GuestSiblings(now) = guest
    BY <2>1 DEF GuestSiblings
  <2> HIDE DEF newLeaf
  <2>4. GuestConfirmsInsert(w)
           <=> FoldUp(KeyOf(x), Depth, h, guest) = FoldUp(KeyOf(x), Depth, h, tree)
    BY <1>3, <2>2, <2>3 DEF GuestMembershipRoot
  <2> HIDE DEF h, guest, tree
  <2>5. (FoldUp(KeyOf(x), Depth, h, guest) = FoldUp(KeyOf(x), Depth, h, tree))
           <=> \A l \in 0..(Depth - 1) : guest[l] = tree[l]
    BY FoldUpSame, FoldUpInjective
  <2>6. (\A l \in 0..(Depth - 1) : guest[l] = tree[l]) <=> mirrored
    BY <1>1, <1>5, MirroredSiblings DEF guest, tree
  <2>7. QED
    BY <2>1, <2>4, <2>5, <2>6
<1>6. QED
  BY <1>2, <1>4, <1>5

\* After any history of held and repeated witnesses: an insertion that the library
\* accepts is confirmed by the guest over a colliding leaf, and into an empty subtree
\* exactly when the siblings of its path read the same in both directions
\* (smt-insert main.rs expand_default_to_membership, smt insert.rs).
THEOREM MirroredInsertsConfirmed ==
    ASSUME IndexFits, KeysApart PROVE ProverSpec => []GuestConfirmsMirroredInserts
<1>1. TypeOK /\ TreeInv /\ HeldTyped /\ HeldNotReturned => GuestConfirmsMirroredInserts
  <2> SUFFICES ASSUME TypeOK, TreeInv, HeldTyped, HeldNotReturned, NEW w \in held,
                      w.op = "insert", InsertVerifies(w), InI128(total + w.balance),
                      NEW now, now = ProofFor(leaves, layers, w.address)
               PROVE  GuestConfirmsInsert(w)
                        = (now.kind = "default" => \A o \in DOMAIN now.siblings :
                                        now.siblings[o] = now.siblings[now.depth - 1 - o])
    BY DEF GuestConfirmsMirroredInserts
  <2>1. GuestConfirmsInsert(w)
           <=> (now.kind = "default" => \A o \in DOMAIN now.siblings :
                                        now.siblings[o] = now.siblings[now.depth - 1 - o])
    BY MirroredInsert
  <2>2. GuestConfirmsInsert(w) \in BOOLEAN
    BY DEF GuestConfirmsInsert
  <2>3. QED
    BY <2>1, <2>2
<1>2. Spec => []TypeOK /\ []TreeInv /\ []HeldTyped /\ []HeldNotReturned
  BY TypeCorrect, TreeCorrect, HeldTypedCorrect, HeldNotReturnedCorrect
<1>3. QED
  BY <1>1, <1>2, ProverImplementsLibrary, PTL

-----------------------------------------------------------------------------
(* The guest's update: the two roots, level by level *)

\* The levels that UpdatedRoots computes, and the root of the last one.
IsLevels(p, changed, siblings) ==
    /\ p[0] = changed
    /\ \A l \in 1..Depth : p[l] = ParentPairs(WithSiblings(p[l - 1], siblings, l - 1), l - 1)
RootOf(level) == level[Smallest(DOMAIN level)]

\* UpdatedRoots builds one level from the one below it.
LEMMA UpdatedRootsDef ==
    ASSUME Depth \in Nat, NEW changed, NEW siblings
    PROVE  \E p : IsLevels(p, changed, siblings) /\ UpdatedRoots(changed, siblings) = RootOf(p[Depth])
<1> DEFINE n == Depth
           Step(v, i) == ParentPairs(WithSiblings(v, siblings, i - 1), i - 1)
           Value(s, i) == IF i = 0 THEN changed ELSE Step(s[i - 1], i)
           Solves(s, m) == \A i \in 0..m : s[i] = Value(s, i)
           T == {m \in 0..n : \E s : Solves(s, m)}
<1>0. n \in Nat
  OBVIOUS
<1>p. UpdatedRoots(changed, siblings) = RootOf((CHOOSE s : s = [i \in 0..n |-> Value(s, i)])[n])
  BY DEF UpdatedRoots, RootOf
<1>q. ASSUME NEW p, p[0] = changed, \A i \in 1..n : p[i] = Step(p[i - 1], i) PROVE IsLevels(p, changed, siblings)
  BY <1>q DEF IsLevels
<1> HIDE DEF Step, n
<1>1. 0 \in T
  <2> DEFINE s == [i \in 0..0 |-> changed]
  <2>1. Solves(s, 0)
    OBVIOUS
  <2> HIDE DEF s, Solves
  <2>2. \E z : Solves(z, 0)
    BY <2>1
  <2>3. QED
    BY <1>0, <2>2
<1>2. ASSUME NEW m \in 0..(n - 1), m \in T PROVE m + 1 \in T
  <2>1. PICK s : Solves(s, m)
    BY <1>2
  <2> DEFINE t == [i \in 0..(m + 1) |-> IF i = m + 1 THEN Step(s[m], m + 1) ELSE s[i]]
  <2>2. Solves(t, m + 1)
    <3> SUFFICES ASSUME NEW i \in 0..(m + 1) PROVE t[i] = Value(t, i)
      OBVIOUS
    <3>1. CASE i = m + 1
      <4>1. i # 0 /\ i - 1 = m /\ m # m + 1 /\ m \in 0..(m + 1)
        BY <1>0, <3>1
      <4>2. t[i] = Step(s[m], m + 1) /\ t[i - 1] = s[m]
        BY <3>1, <4>1
      <4>3. QED
        BY <3>1, <4>1, <4>2
    <3>2. CASE i \in 0..m
      <4>1. s[i] = Value(s, i)
        BY <2>1, <3>2
      <4>2. t[i] = s[i]
        BY <1>0, <3>2
      <4>3. CASE i = 0
        BY <4>1, <4>2, <4>3
      <4>4. CASE i # 0
        <5>1. t[i - 1] = s[i - 1]
          BY <1>0, <3>2, <4>4
        <5>2. QED
          BY <4>1, <4>2, <4>4, <5>1
      <4>5. QED
        BY <4>3, <4>4
    <3>3. QED
      BY <1>0, <3>1, <3>2
  <2> HIDE DEF t, Solves
  <2>3. \E z : Solves(z, m + 1)
    BY <2>2
  <2>4. QED
    BY <1>0, <2>3
<1>3. 0..n \subseteq T
  <2> HIDE DEF T
  <2>1. QED
    BY <1>0, <1>1, <1>2, UpToInduction
<1>4. PICK s : Solves(s, n)
  <2>1. n \in T
    <3> HIDE DEF T
    <3>1. n \in 0..n
      BY <1>0
    <3>2. QED
      BY <1>3, <3>1
  <2> HIDE DEF Solves
  <2>2. QED
    BY <2>1
<1> DEFINE r == [i \in 0..n |-> s[i]]
<1>5. r = [i \in 0..n |-> Value(r, i)]
  <2>1. ASSUME NEW i \in 0..n PROVE r[i] = Value(r, i)
    <3>1. s[i] = Value(s, i)
      BY <1>4
    <3>2. CASE i = 0
      BY <3>1, <3>2
    <3>3. CASE i # 0
      <4>1. r[i - 1] = s[i - 1]
        BY <1>0, <3>3
      <4>2. QED
        BY <3>1, <3>3, <4>1
    <3>4. QED
      BY <3>2, <3>3
  <2>2. r = [i \in 0..n |-> r[i]]
    OBVIOUS
  <2> HIDE DEF r, Value
  <2>3. QED
    BY <2>1, <2>2
<1> HIDE DEF r
<1> DEFINE p == CHOOSE z : z = [i \in 0..n |-> Value(z, i)]
           step == [i \in 0..n |-> Value(p, i)]
<1>6. p = step
  BY <1>5
<1>7. UpdatedRoots(changed, siblings) = RootOf(p[n])
  BY <1>p
<1> HIDE DEF p
<1>a. \A i \in 0..n : step[i] = Value(p, i)
  OBVIOUS
<1> HIDE DEF step, Value
<1>8. step[0] = changed
  <2>1. 0 \in 0..n
    BY <1>0
  <2>2. step[0] = Value(p, 0)
    BY <1>a, <2>1
  <2>3. QED
    BY <2>2 DEF Value
<1>9. ASSUME NEW i \in 1..n PROVE step[i] = Step(p[i - 1], i)
  <2>1. i \in 0..n /\ i # 0
    BY <1>0
  <2>2. step[i] = Value(p, i)
    BY <1>a, <2>1
  <2>3. QED
    BY <2>1, <2>2 DEF Value
<1>10. p[0] = changed /\ \A i \in 1..n : p[i] = Step(p[i - 1], i)
  BY <1>6, <1>8, <1>9
<1>11. IsLevels(p, changed, siblings)
  BY <1>10, <1>q
<1>12. QED
  BY <1>7, <1>11 DEF n

\* The nodes of level l above the keys W, each with its digests in the old tree x and in
\* the new tree y.
PairsOK(nodes, x, y, W, l) ==
    /\ DOMAIN nodes = {PrefixIndex(k, Depth - l) : k \in W}
    /\ \A i \in DOMAIN nodes : nodes[i] = <<NodeAt(x, l, i), NodeAt(y, l, i)>>

\* The same with the siblings of these nodes.
ChildrenOK(nodes, x, y, W, l) ==
    /\ DOMAIN nodes = {PrefixIndex(k, Depth - l) : k \in W}
                         \cup {SiblingIndex(PrefixIndex(k, Depth - l)) : k \in W}
    /\ \A i \in DOMAIN nodes : nodes[i] = <<NodeAt(x, l, i), NodeAt(y, l, i)>>

\* The siblings of the paths of W, with their digests in x.
GivenOK(siblings, x, W) ==
    /\ DOMAIN siblings = {<<l, SiblingIndex(PrefixIndex(k, Depth - l))>> :
                             k \in W, l \in 0..(Depth - 1)}
    /\ \A p \in DOMAIN siblings : siblings[p] = NodeAt(x, p[1], p[2])

\* What the guest reads at an index of a level.
PairAt(nodes, l, i) == IF i \in DOMAIN nodes THEN nodes[i] ELSE <<DefaultHash[l], DefaultHash[l]>>

\* A parent joins the pairs of its two children, defaults where there is none.
LEMMA ParentPairsDef ==
    ASSUME NEW nodes, NEW l
    PROVE  /\ DOMAIN ParentPairs(nodes, l) = {j \div 2 : j \in DOMAIN nodes}
           /\ \A i \in DOMAIN ParentPairs(nodes, l) :
                 ParentPairs(nodes, l)[i] =
                    << InternalHash(Depth - l - 1, PairAt(nodes, l, 2 * i)[1], PairAt(nodes, l, 2 * i + 1)[1]),
                       InternalHash(Depth - l - 1, PairAt(nodes, l, 2 * i)[2], PairAt(nodes, l, 2 * i + 1)[2]) >>
<1> QED BY DEF ParentPairs, PairAt

\* The indices of a level that siblings are given for.
GivenIndices(siblings, l) == {p[2] : p \in {q \in DOMAIN siblings : q[1] = l}}

\* With the siblings of a level every child of a node above it is there, a given one
\* with the digest it has in both trees.
LEMMA LevelWithSiblings ==
    ASSUME IndexFits, NEW x, NEW y, TreeOK(x), TreeOK(y), NEW W \in SUBSET Keys,
           SameSlotsBut(W, x, y),
           NEW siblings, GivenOK(siblings, x, W),
           NEW l \in 0..(Depth - 1), NEW nodes, PairsOK(nodes, x, y, W, l),
           NEW all, all = WithSiblings(nodes, siblings, l)
    PROVE  ChildrenOK(all, x, y, W, l)
<1> USE DepthAssumption
<1> DEFINE P(k) == PrefixIndex(k, Depth - l)
           given == GivenIndices(siblings, l)
<1>1. ASSUME NEW k \in W PROVE P(k) \in Nat /\ SiblingIndex(P(k)) \in Nat
  <2>1. Depth - l \in 0..Depth
    OBVIOUS
  <2>2. P(k) \in Nat
    BY <2>1, PrefixIndexStep
  <2>3. QED
    BY <2>2, Siblings
<1>2. DOMAIN siblings = {<<m, SiblingIndex(PrefixIndex(k, Depth - m))>> : k \in W, m \in 0..(Depth - 1)}
  BY DEF GivenOK
<1>3. given = {SiblingIndex(P(k)) : k \in W}
  <2>1. ASSUME NEW i \in given PROVE \E k \in W : i = SiblingIndex(P(k))
    <3>1. PICK p \in DOMAIN siblings : p[1] = l /\ p[2] = i
      BY DEF GivenIndices
    <3>2. PICK k \in W, m \in 0..(Depth - 1) : p = <<m, SiblingIndex(PrefixIndex(k, Depth - m))>>
      BY <1>2, <3>1
    <3>3. m = l /\ i = SiblingIndex(PrefixIndex(k, Depth - m))
      BY <3>1, <3>2
    <3>4. QED
      BY <3>3
  <2>2. ASSUME NEW k \in W PROVE SiblingIndex(P(k)) \in given
    <3> DEFINE p == <<l, SiblingIndex(P(k))>>
    <3>1. p \in DOMAIN siblings
      BY <1>2
    <3>2. p[1] = l /\ p[2] = SiblingIndex(P(k))
      OBVIOUS
    <3> HIDE DEF p, P
    <3>3. QED
      BY <3>1, <3>2 DEF GivenIndices
  <2> HIDE DEF given, P
  <2>3. QED
    BY <2>1, <2>2
<1>4. ASSUME NEW k \in W PROVE siblings[<<l, SiblingIndex(P(k))>>] = NodeAt(x, l, SiblingIndex(P(k)))
  <2> DEFINE p == <<l, SiblingIndex(P(k))>>
  <2>1. p \in DOMAIN siblings
    BY <1>2
  <2>2. p[1] = l /\ p[2] = SiblingIndex(P(k))
    OBVIOUS
  <2> HIDE DEF p, P
  <2>3. siblings[p] = NodeAt(x, p[1], p[2])
    BY <2>1 DEF GivenOK
  <2>4. QED
    BY <2>2, <2>3 DEF p
<1>5. l \in 0..Depth
  OBVIOUS
<1>6. \A i \in Nat : (\A k \in W : P(k) # i) => NodeAt(x, l, i) = NodeAt(y, l, i)
  BY <1>5, OffPathSame
<1>7. /\ DOMAIN nodes = {P(k) : k \in W}
      /\ \A i \in DOMAIN nodes : nodes[i] = <<NodeAt(x, l, i), NodeAt(y, l, i)>>
  BY DEF PairsOK
<1> HIDE DEF P
<1>8. /\ DOMAIN all = DOMAIN nodes \cup given
      /\ \A i \in DOMAIN nodes \cup given :
            all[i] = IF i \in DOMAIN nodes THEN nodes[i]
                     ELSE <<siblings[<<l, i>>], siblings[<<l, i>>]>>
  BY DEF WithSiblings, GivenIndices
<1> HIDE DEF given
<1>9. ASSUME NEW i \in DOMAIN all PROVE all[i] = <<NodeAt(x, l, i), NodeAt(y, l, i)>>
  <2>1. CASE i \in DOMAIN nodes
    BY <1>7, <1>8, <2>1
  <2>2. CASE i \notin DOMAIN nodes
    <3>1. PICK k \in W : i = SiblingIndex(P(k))
      BY <1>3, <1>8, <2>2
    <3>2. siblings[<<l, i>>] = NodeAt(x, l, i)
      BY <1>4, <3>1
    <3>3. NodeAt(x, l, i) = NodeAt(y, l, i)
      BY <1>1, <1>6, <1>7, <2>2, <3>1
    <3>4. all[i] = <<siblings[<<l, i>>], siblings[<<l, i>>]>>
      BY <1>8, <2>2
    <3>5. QED
      BY <3>2, <3>3, <3>4
  <2>3. QED
    BY <2>1, <2>2
<1>10. DOMAIN all = {P(k) : k \in W} \cup {SiblingIndex(P(k)) : k \in W}
  BY <1>3, <1>7, <1>8
<1>11. QED
  BY <1>9, <1>10 DEF P, ChildrenOK

\* So the level above holds the digests of both trees.
LEMMA LevelUp ==
    ASSUME IndexFits, NEW x, NEW y, TreeOK(x), TreeOK(y), NEW W \in SUBSET Keys,
           SameSlotsBut(W, x, y),
           NEW siblings, GivenOK(siblings, x, W),
           NEW l \in 0..(Depth - 1), NEW nodes, PairsOK(nodes, x, y, W, l),
           NEW up, up = ParentPairs(WithSiblings(nodes, siblings, l), l)
    PROVE  PairsOK(up, x, y, W, l + 1)
<1> USE DepthAssumption
<1> DEFINE all == WithSiblings(nodes, siblings, l)
           e == Depth - (l + 1)
           P(k) == PrefixIndex(k, e + 1)
           Q(k) == PrefixIndex(k, e)
<1>1. /\ l + 1 \in 1..Depth /\ (l + 1) - 1 = l /\ e \in 0..(Depth - 1) /\ Depth - l = e + 1
      /\ Depth - l - 1 = Depth - (l + 1)
  OBVIOUS
<1>2. ChildrenOK(all, x, y, W, l)
  BY LevelWithSiblings
<1>3. /\ DOMAIN all = {P(k) : k \in W} \cup {SiblingIndex(P(k)) : k \in W}
      /\ \A i \in DOMAIN all : all[i] = <<NodeAt(x, l, i), NodeAt(y, l, i)>>
  BY <1>1, <1>2 DEF ChildrenOK
<1>4. /\ DOMAIN up = {j \div 2 : j \in DOMAIN all}
      /\ \A i \in DOMAIN up :
            up[i] = << InternalHash(Depth - l - 1, PairAt(all, l, 2 * i)[1], PairAt(all, l, 2 * i + 1)[1]),
                       InternalHash(Depth - l - 1, PairAt(all, l, 2 * i)[2], PairAt(all, l, 2 * i + 1)[2]) >>
  BY ParentPairsDef
<1> HIDE DEF all, e
<1>5. ASSUME NEW k \in W
      PROVE  /\ P(k) \in Nat /\ Q(k) \in Nat /\ P(k) \div 2 = Q(k)
             /\ SiblingIndex(P(k)) \div 2 = Q(k)
             /\ {2 * Q(k), 2 * Q(k) + 1} = {P(k), SiblingIndex(P(k))}
  <2>1. P(k) \in Nat /\ Q(k) \in Nat /\ P(k) \div 2 = Q(k)
    BY <1>1, PrefixParent
  <2> HIDE DEF P, Q
  <2>2. QED
    BY <2>1, Siblings
<1> HIDE DEF P, Q
<1>6. DOMAIN up = {Q(k) : k \in W}
  <2>1. ASSUME NEW i \in DOMAIN up PROVE \E k \in W : i = Q(k)
    <3>1. PICK j \in DOMAIN all : i = j \div 2
      BY <1>4
    <3>2. PICK k \in W : j = P(k) \/ j = SiblingIndex(P(k))
      BY <1>3
    <3>3. i = Q(k)
      BY <1>5, <3>1, <3>2
    <3>4. QED
      BY <3>3
  <2>2. ASSUME NEW k \in W PROVE Q(k) \in DOMAIN up
    <3>1. P(k) \in DOMAIN all /\ P(k) \div 2 = Q(k)
      BY <1>3, <1>5
    <3>2. QED
      BY <1>4, <3>1
  <2>3. QED
    BY <2>1, <2>2
<1>7. ASSUME NEW i \in DOMAIN up PROVE up[i] = <<NodeAt(x, l + 1, i), NodeAt(y, l + 1, i)>>
  <2>1. PICK k \in W : i = Q(k)
    BY <1>6
  <2>2. i \in Nat /\ {2 * i, 2 * i + 1} = {P(k), SiblingIndex(P(k))}
    BY <1>5, <2>1
  <2>3. 2 * i \in DOMAIN all /\ 2 * i + 1 \in DOMAIN all
    BY <1>3, <2>2
  <2>4. ASSUME NEW j \in DOMAIN all
        PROVE  PairAt(all, l, j)[1] = NodeAt(x, l, j) /\ PairAt(all, l, j)[2] = NodeAt(y, l, j)
    BY <1>3 DEF PairAt
  <2>5. /\ NodeAt(x, l + 1, i)
             = InternalHash(Depth - (l + 1), NodeAt(x, l, 2 * i), NodeAt(x, l, 2 * i + 1))
        /\ NodeAt(y, l + 1, i)
             = InternalHash(Depth - (l + 1), NodeAt(y, l, 2 * i), NodeAt(y, l, 2 * i + 1))
    BY <1>1, <2>2, NodeEquation
  <2>6. up[i] = << InternalHash(Depth - (l + 1), NodeAt(x, l, 2 * i), NodeAt(x, l, 2 * i + 1)),
                   InternalHash(Depth - (l + 1), NodeAt(y, l, 2 * i), NodeAt(y, l, 2 * i + 1)) >>
    BY <1>1, <1>4, <2>3, <2>4
  <2>7. QED
    BY <2>5, <2>6
<1>8. QED
  BY <1>6, <1>7 DEF PairsOK, Q, e

\* From the changed leaves and the siblings of their paths the guest computes the roots
\* of the old and the new tree.
LEMMA RootsFromLeaves ==
    ASSUME IndexFits, NEW x, NEW y, TreeOK(x), TreeOK(y), NEW W \in SUBSET Keys, W # {},
           SameSlotsBut(W, x, y),
           NEW siblings, GivenOK(siblings, x, W), NEW changed, PairsOK(changed, x, y, W, 0)
    PROVE  UpdatedRoots(changed, siblings) = <<Root(x), Root(y)>>
<1> USE DepthAssumption
<1>1. PICK p : IsLevels(p, changed, siblings) /\ UpdatedRoots(changed, siblings) = RootOf(p[Depth])
  BY UpdatedRootsDef
<1> DEFINE T == {l \in 0..Depth : PairsOK(p[l], x, y, W, l)}
<1>2. 0 \in T
  BY <1>1 DEF IsLevels
<1>3. ASSUME NEW l \in 0..(Depth - 1), l \in T PROVE l + 1 \in T
  <2>1. l + 1 \in 1..Depth /\ (l + 1) - 1 = l
    OBVIOUS
  <2>2. p[l + 1] = ParentPairs(WithSiblings(p[l], siblings, l), l)
    BY <1>1, <2>1 DEF IsLevels
  <2>3. PairsOK(p[l + 1], x, y, W, l + 1)
    BY <1>3, <2>2, LevelUp
  <2>4. QED
    BY <2>1, <2>3
<1>4. Depth \in T
  <2> HIDE DEF T
  <2>1. 0..Depth \subseteq T
    BY <1>2, <1>3, UpToInduction
  <2>2. QED
    BY <2>1
<1> DEFINE top == p[Depth]
<1>5. /\ DOMAIN top = {PrefixIndex(k, 0) : k \in W}
      /\ \A i \in DOMAIN top : top[i] = <<NodeAt(x, Depth, i), NodeAt(y, Depth, i)>>
  <2>1. Depth - Depth = 0
    OBVIOUS
  <2>2. PairsOK(top, x, y, W, Depth)
    BY <1>4
  <2>3. QED
    BY <2>1, <2>2 DEF PairsOK
<1> HIDE DEF top
<1>6. \A k \in W : PrefixIndex(k, 0) = 0
  BY PrefixIndexStep
<1>7. DOMAIN top = {0}
  BY <1>5, <1>6
<1>8. Smallest({0}) = 0
  BY DEF Smallest
<1>9. QED
  BY <1>1, <1>5, <1>7, <1>8 DEF RootOf, Root, top

-----------------------------------------------------------------------------
(* The guest's update: its entries and its result *)

\* The entries that the library verified as members are the tracked ones, and each of
\* them is the leaf in its slot.
LEMMA MembersAreTracked ==
    ASSUME IndexFits, TypeOK, TreeInv, NonMembershipSound,
           NEW w \in held, w.op = "update", UpdateVerifies(w)
    PROVE  /\ DOMAIN w.delta \subseteq Address
           /\ MemberEntries(w) = DOMAIN w.delta \cap DOMAIN leaves
           /\ \A a \in MemberEntries(w) :
                 /\ LeafIndex(a) \in DOMAIN layers[0]
                 /\ layers[0][LeafIndex(a)] = HashOfLeaf(leaves, a)
<1>1. w.delta \in DeltaLists /\ DOMAIN w.proof = DOMAIN w.delta /\ DOMAIN w.delta \subseteq Address
  BY DeltaListsAssumption DEF TypeOK, WitnessOK
<1>2. MemberEntries(w) \subseteq DOMAIN w.delta /\ MemberEntries(w) \subseteq DOMAIN leaves
  BY MemberEntriesTracked DEF MemberEntries
<1>3. ASSUME NEW a \in DOMAIN w.delta, a \in DOMAIN leaves PROVE a \in MemberEntries(w)
  <2>1. AddressProofVerifies(leaves, layers, a, w.proof[a])
    BY DEF UpdateVerifies
  <2>2. ~NonMembershipVerifies(Root(layers), a, w.proof[a])
    BY <1>3 DEF NonMembershipSound
  <2>3. w.proof[a].kind = "member"
    BY <2>1, <2>2 DEF AddressProofVerifies
  <2>4. QED
    BY <2>3 DEF MemberEntries
<1>4. ASSUME NEW a \in MemberEntries(w)
      PROVE  LeafIndex(a) \in DOMAIN layers[0] /\ layers[0][LeafIndex(a)] = HashOfLeaf(leaves, a)
  <2>1. a \in Address /\ w.proof[a].kind = "member" /\ AddressProofVerifies(leaves, layers, a, w.proof[a])
    BY <1>1, <1>2 DEF MemberEntries, UpdateVerifies
  <2>2. MembershipVerifies(Root(layers), KeyOf(a), leaves[a].balance, leaves[a].salt, w.proof[a].siblings)
    BY <2>1 DEF AddressProofVerifies, NonMembershipVerifies
  <2>3. QED
    BY <2>1, <2>2, MembershipIsSlot DEF TreeInv, HashOfLeaf
<1>5. QED
  BY <1>1, <1>2, <1>3, <1>4

\* Two members never share a slot: the salt in it is that of one address.
LEMMA MembersApart ==
    ASSUME SaltsOwned, NEW M \in SUBSET DOMAIN leaves,
           \A a \in M : layers[0][LeafIndex(a)] = HashOfLeaf(leaves, a),
           NEW a \in M, NEW b \in M, LeafIndex(a) = LeafIndex(b)
    PROVE  a = b
<1>1. HashOfLeaf(leaves, a)[4] = leaves[a].salt /\ HashOfLeaf(leaves, b)[4] = leaves[b].salt
  BY DEF HashOfLeaf, LeafHash
<1>2. HashOfLeaf(leaves, a) = HashOfLeaf(leaves, b)
  OBVIOUS
<1>3. leaves[a].salt = leaves[b].salt
  BY <1>1, <1>2
<1>4. QED
  BY <1>3 DEF SaltsOwned

\* The keys of the members.
MemberKeys(w) == {KeyOf(a) : a \in MemberEntries(w)}

\* An update changes the slots of its members only, to their new leaves.
LEMMA UpdatedTree ==
    ASSUME IndexFits, TypeOK, TreeInv, SaltsOwned, NonMembershipSound,
           NEW w \in held, w.op = "update", UpdateVerifies(w),
           NEW new, new = UpdatedLayers(w)
    PROVE  /\ TreeOK(new) /\ MemberKeys(w) \in SUBSET Keys
           /\ SameSlotsBut(MemberKeys(w), layers, new)
           /\ \A a \in MemberEntries(w) :
                 /\ NodeAt(layers, 0, LeafIndex(a)) = HashOfLeaf(leaves, a)
                 /\ NodeAt(new, 0, LeafIndex(a)) = HashOfLeaf(UpdatedLeaves(w), a)
<1> DEFINE M == MemberEntries(w)
           lv == UpdatedLeaves(w)
<1>1. /\ M \in SUBSET Address /\ M \in SUBSET DOMAIN leaves
      /\ \A a \in M : /\ LeafIndex(a) \in DOMAIN layers[0]
                      /\ layers[0][LeafIndex(a)] = HashOfLeaf(leaves, a)
  BY MembersAreTracked DEF MemberEntries
<1>2. MemberKeys(w) \in SUBSET Keys
  BY <1>1, KeyType DEF MemberKeys
<1>3. TreeOK(layers) /\ new = UpsertAll(layers, lv, M)
  BY DEF TreeInv, UpdatedLayers
<1>4. MemberKeys(w) = {KeyOf(a) : a \in M}
  BY DEF MemberKeys
<1> HIDE DEF M, lv
<1>5. /\ TreeOK(new)
      /\ DOMAIN new[0] = DOMAIN layers[0] \cup {LeafIndex(a) : a \in M}
      /\ \A i \in DOMAIN new[0] :
            \/ \E a \in M : LeafIndex(a) = i /\ new[0][i] = HashOfLeaf(lv, a)
            \/ /\ i \in DOMAIN layers[0] /\ \A a \in M : LeafIndex(a) # i
               /\ new[0][i] = layers[0][i]
  BY <1>1, <1>3, UpsertAllTree
<1>6. SameSlotsBut(MemberKeys(w), layers, new)
  <2>1. SUFFICES ASSUME NEW i \in Nat, \A k \in MemberKeys(w) : PrefixIndex(k, Depth) # i
                 PROVE  NodeAt(layers, 0, i) = NodeAt(new, 0, i)
    BY DEF SameSlotsBut
  <2>2. \A a \in M : LeafIndex(a) # i
    BY <1>4, <2>1 DEF LeafIndex
  <2>3. i \in DOMAIN new[0] <=> i \in DOMAIN layers[0]
    BY <1>5, <2>2
  <2>4. i \in DOMAIN new[0] => new[0][i] = layers[0][i]
    BY <1>5, <2>2
  <2>5. QED
    BY <2>3, <2>4 DEF NodeAt
<1>7. ASSUME NEW a \in M
      PROVE  /\ NodeAt(layers, 0, LeafIndex(a)) = HashOfLeaf(leaves, a)
             /\ NodeAt(new, 0, LeafIndex(a)) = HashOfLeaf(lv, a)
  <2>1. NodeAt(layers, 0, LeafIndex(a)) = HashOfLeaf(leaves, a)
    BY <1>1 DEF NodeAt
  <2>2. LeafIndex(a) \in DOMAIN new[0]
    BY <1>5
  <2>3. PICK b \in M : LeafIndex(b) = LeafIndex(a) /\ new[0][LeafIndex(a)] = HashOfLeaf(lv, b)
    BY <1>5, <2>2
  <2>4. a = b
    BY <1>1, <2>3, MembersApart
  <2>5. QED
    BY <2>1, <2>2, <2>3, <2>4 DEF NodeAt
<1>8. QED
  BY <1>2, <1>5, <1>6, <1>7 DEF M, lv

\* The entries of the input that the host builds from the tree.
LEMMA UpdateInput ==
    ASSUME TypeOK, NEW w \in held, w.op = "update", NEW input, input = UpdateStdin(w)
    PROVE  /\ input.oldRoot = Root(layers) /\ input.oldTotal = total
           /\ DOMAIN input.entries = DOMAIN w.delta
           /\ \A a \in DOMAIN w.delta :
                 /\ input.entries[a].delta = w.delta[a]
                 /\ input.entries[a].oldLeaf = IF a \in DOMAIN leaves THEN leaves[a] ELSE NoLeaf
                 /\ ExpandProof(input.frontier, input.entries[a].proof) = ProofFor(leaves, layers, a)
                 /\ RefsInRange(input.frontier, input.entries[a].proof)
<1> DEFINE D == DOMAIN w.delta
           compact == CompactMultiproof(ProofsFor(leaves, layers, D))
<1>1. D \in SUBSET Address
  BY DeltaListsAssumption DEF TypeOK, WitnessOK
<1>2. \A a \in D : /\ ExpandProof(compact.frontier, compact.entries[a]) = ProofFor(leaves, layers, a)
                   /\ RefsInRange(compact.frontier, compact.entries[a])
  BY <1>1, ExpandedProofs
<1>3. /\ input.oldRoot = Root(layers) /\ input.oldTotal = total
      /\ input.frontier = compact.frontier
      /\ DOMAIN input.entries = D
      /\ \A a \in D :
            /\ input.entries[a].delta = w.delta[a]
            /\ input.entries[a].oldLeaf = IF a \in DOMAIN leaves THEN leaves[a] ELSE NoLeaf
            /\ input.entries[a].proof = compact.entries[a]
  BY DEF UpdateStdin
<1> HIDE DEF D, compact
<1>4. QED
  BY <1>2, <1>3 DEF D

\* The fresh proof of a member.
LEMMA MemberNow ==
    ASSUME NEW a \in DOMAIN leaves
    PROVE  /\ ProofFor(leaves, layers, a).kind = "member"
           /\ ProofFor(leaves, layers, a).siblings = MembershipSiblings(layers, KeyOf(a))
<1> QED BY DEF ProofFor, MembershipProof

\* Whatever entry the library verified on a held proof, the guest verifies on a fresh one.
LEMMA EntryConfirmed ==
    ASSUME IndexFits, KeysApart, TypeOK, TreeInv, HeldTyped, HeldNotReturned, NonMembershipSound,
           NEW w \in held, w.op = "update", UpdateVerifies(w), NEW a \in DOMAIN w.delta,
           NEW entry, entry.delta = w.delta[a],
           entry.oldLeaf = IF a \in DOMAIN leaves THEN leaves[a] ELSE NoLeaf
    PROVE  /\ EntryVerifies(Root(layers), a, entry, ProofFor(leaves, layers, a))
           /\ ProofFor(leaves, layers, a).kind = "member" <=> a \in MemberEntries(w)
<1> DEFINE now == ProofFor(leaves, layers, a)
<1>1. /\ a \in Address
      /\ a \in MemberEntries(w) <=> a \in DOMAIN leaves
  BY MembersAreTracked
<1>2. CASE a \in DOMAIN leaves
  <2>1. now.kind = "member" /\ now.siblings = MembershipSiblings(layers, KeyOf(a))
    BY <1>2, MemberNow
  <2>2. LeafIndex(a) \in DOMAIN layers[0] /\ layers[0][LeafIndex(a)] = HashOfLeaf(leaves, a)
    BY <1>1, <1>2, MembersAreTracked
  <2>3. MembershipVerifies(Root(layers), KeyOf(a), leaves[a].balance, leaves[a].salt,
                           MembershipSiblings(layers, KeyOf(a)))
    BY <1>1, <2>2, SlotIsMembership DEF TreeInv, HashOfLeaf
  <2>4. /\ InI128(leaves[a].balance + w.delta[a])
        /\ leaves[a].balance + w.delta[a] >= 0
    BY <1>1, <1>2 DEF UpdateVerifies
  <2>5. entry.oldLeaf = leaves[a] /\ leaves[a] \in [balance : Int, salt : Salts]
    BY <1>2 DEF TypeOK
  <2>6. leaves[a] # <<>>
    <3>1. "balance" \in DOMAIN leaves[a]
      BY <2>5
    <3>2. DOMAIN <<>> = 1..0
      OBVIOUS
    <3>3. "balance" \notin {}
      OBVIOUS
    <3>4. 1..0 = {}
      OBVIOUS
    <3>5. QED
      BY <3>1, <3>2, <3>3, <3>4
  <2> HIDE DEF now
  <2>7. EntryVerifies(Root(layers), a, entry, now)
    BY <2>1, <2>3, <2>4, <2>5, <2>6 DEF EntryVerifies, GuestMembershipRoot, MembershipVerifies
  <2>8. QED
    BY <1>1, <1>2, <2>1, <2>7 DEF now
<1>3. CASE a \notin DOMAIN leaves
  <2>1. AddressProofVerifies(leaves, layers, a, w.proof[a])
    BY DEF UpdateVerifies
  <2>2. NonMembershipVerifies(Root(layers), a, w.proof[a])
    BY <1>3, <2>1 DEF AddressProofVerifies
  <2>3. ProofTyped(w.proof[a]) /\ NotReturned(leaves, layers, a, w.proof[a])
    BY DEF HeldTyped, HeldNotReturned
  <2>4. DefaultNow(a, now) \/ CollisionNow(a, now)
    BY <1>1, <1>3, <2>2, <2>3, FreshAbsence
  <2> HIDE DEF now
  <2>5. CASE DefaultNow(a, now)
    <3>1. now.kind = "default" /\ GuestDefaultVerifies(Root(layers), a, now)
      BY <2>5 DEF DefaultNow
    <3>2. EntryVerifies(Root(layers), a, entry, now)
      BY <3>1 DEF EntryVerifies
    <3>3. QED
      BY <1>1, <1>3, <3>1, <3>2 DEF now
  <2>6. CASE CollisionNow(a, now)
    <3>1. /\ now.kind = "collision" /\ GuestCollisionVerifies(Root(layers), a, now)
          /\ CommonPrefixLen(KeyOf(a), KeyOf(now.address)) = Depth
      BY <2>6 DEF CollisionNow
    <3>2. EntryVerifies(Root(layers), a, entry, now)
      BY <3>1 DEF EntryVerifies
    <3>3. QED
      BY <1>1, <1>3, <3>1, <3>2 DEF now
  <2>7. QED
    BY <2>4, <2>5, <2>6
<1>4. QED
  BY <1>2, <1>3

\* The siblings that the members' proofs give for one place of the tree.
GivenFor(Members, place) ==
    {ProofFor(leaves, layers, a).siblings[place[1]] :
        a \in {m \in Members :
                 <<place[1], SiblingIndex(PathIndex(KeyOf(m), Depth)[place[1]])>> = place}}

\* They are all the digest that the tree has there.
LEMMA OneSiblingGiven ==
    ASSUME IndexFits, TypeOK, NEW M, M \subseteq DOMAIN leaves, NEW a \in M, NEW l \in 0..(Depth - 1),
           NEW place, place = <<l, SiblingIndex(PathIndex(KeyOf(a), Depth)[l])>>
    PROVE  /\ GivenFor(M, place) = {NodeAt(layers, place[1], place[2])}
           /\ place = <<l, SiblingIndex(PrefixIndex(KeyOf(a), Depth - l))>>
<1> DEFINE node == NodeAt(layers, place[1], place[2])
<1>1. place[1] = l /\ place[2] = SiblingIndex(PathIndex(KeyOf(a), Depth)[l])
  OBVIOUS
<1>2. ASSUME NEW m \in M PROVE KeyOf(m) \in Keys /\ m \in DOMAIN leaves
  BY KeyType DEF TypeOK
<1>3. ASSUME NEW m \in M, place[2] = SiblingIndex(PathIndex(KeyOf(m), Depth)[l])
      PROVE  ProofFor(leaves, layers, m).siblings[l] = node
  <2>1. ProofFor(leaves, layers, m).siblings = MembershipSiblings(layers, KeyOf(m))
    BY <1>2, MemberNow
  <2>2. /\ MembershipSiblings(layers, KeyOf(m))[l]
             = NodeAt(layers, l, SiblingIndex(PrefixIndex(KeyOf(m), Depth - l)))
        /\ PathIndex(KeyOf(m), Depth)[l] = PrefixIndex(KeyOf(m), Depth - l)
    BY <1>2, SiblingOf
  <2>3. QED
    BY <1>1, <1>3, <2>1, <2>2
<1>4. PathIndex(KeyOf(a), Depth)[l] = PrefixIndex(KeyOf(a), Depth - l)
  BY <1>2, SiblingOf
<1> DEFINE Givers == {m \in M : <<place[1], SiblingIndex(PathIndex(KeyOf(m), Depth)[place[1]])>> = place}
<1>5. a \in Givers
  BY <1>1
<1>6. ASSUME NEW m \in Givers PROVE ProofFor(leaves, layers, m).siblings[place[1]] = node
  <2>1. place[2] = SiblingIndex(PathIndex(KeyOf(m), Depth)[l]) /\ m \in M
    BY <1>1
  <2>2. QED
    BY <1>1, <1>3, <2>1
<1>7. GivenFor(M, place) = {ProofFor(leaves, layers, m).siblings[place[1]] : m \in Givers}
  BY DEF GivenFor
<1> HIDE DEF Givers, node
<1>8. GivenFor(M, place) = {node}
  BY <1>5, <1>6, <1>7
<1>9. QED
  BY <1>1, <1>4, <1>8 DEF node

\* What the guest returns for the input of an update that the library accepts: the
\* library's roots, flags, delta and total, unless a sum overflows.
LEMMA GuestUpdateResult ==
    ASSUME IndexFits, KeysApart, TypeOK, TreeInv, SaltsOwned, HeldTyped, HeldNotReturned,
           NonMembershipSound, NEW w \in held, w.op = "update", UpdateVerifies(w),
           NEW sum, sum = Total(OrZero(MemberDelta(w)))
    PROVE  GuestUpdate(UpdateStdin(w)) =
              IF SumFits(OrZero(MemberDelta(w))) /\ InI128(total + sum)
                THEN [accepted |-> TRUE, oldRoot |-> Root(layers), newRoot |-> Root(UpdatedLayers(w)),
                      delta |-> sum, members |-> MemberEntries(w), newTotal |-> total + sum]
                ELSE Rejected
<1> USE DepthAssumption
<1> DEFINE input == UpdateStdin(w)
           M == MemberEntries(w)
           new == UpdatedLayers(w)
           E == input.entries
           proofs == [a \in DOMAIN E |-> ExpandProof(input.frontier, E[a].proof)]
           Members == {a \in DOMAIN E : proofs[a].kind = "member"}
           Place(a, l) == <<l, SiblingIndex(PathIndex(KeyOf(a), Depth)[l])>>
           Places == {Place(a, l) : a \in Members, l \in 0..(Depth - 1)}
           GivenAt(p) == {proofs[a].siblings[p[1]] :
                             a \in {m \in Members : Place(m, p[1]) = p}}
           siblings == [p \in Places |-> CHOOSE h \in GivenAt(p) : TRUE]
           LeafPair(a) == << LeafHash(KeyOf(a), E[a].oldLeaf.balance, E[a].oldLeaf.salt),
                             LeafHash(KeyOf(a), E[a].oldLeaf.balance + E[a].delta,
                                      E[a].oldLeaf.salt) >>
           changed == [i \in {LeafIndex(a) : a \in Members} |->
                           LeafPair(Largest({a \in Members : LeafIndex(a) = i}))]
           roots == IF Members = {} THEN <<input.oldRoot, input.oldRoot>>
                    ELSE UpdatedRoots(changed, siblings)
           aggregate == GuestAggregate([a \in Members |-> E[a].delta])
<1>1. GuestUpdate(input) =
         IF /\ \A a \in DOMAIN E : /\ RefsInRange(input.frontier, E[a].proof)
                                   /\ EntryVerifies(input.oldRoot, a, E[a], proofs[a])
            /\ \A p \in Places : Cardinality(GivenAt(p)) = 1
            /\ aggregate.fits
            /\ roots[1] = input.oldRoot
            /\ InI128(input.oldTotal + aggregate.sum)
         THEN [accepted |-> TRUE, oldRoot |-> input.oldRoot, newRoot |-> roots[2],
               delta |-> aggregate.sum, members |-> Members,
               newTotal |-> input.oldTotal + aggregate.sum]
         ELSE Rejected
  BY DEF GuestUpdate
<1>2. /\ input.oldRoot = Root(layers) /\ input.oldTotal = total /\ DOMAIN E = DOMAIN w.delta
      /\ \A a \in DOMAIN w.delta :
            /\ E[a].delta = w.delta[a]
            /\ E[a].oldLeaf = IF a \in DOMAIN leaves THEN leaves[a] ELSE NoLeaf
            /\ ExpandProof(input.frontier, E[a].proof) = ProofFor(leaves, layers, a)
            /\ RefsInRange(input.frontier, E[a].proof)
  BY UpdateInput
<1>3. /\ DOMAIN w.delta \subseteq Address /\ M \subseteq DOMAIN w.delta /\ M \subseteq DOMAIN leaves
      /\ \A a \in M : layers[0][LeafIndex(a)] = HashOfLeaf(leaves, a)
  BY MembersAreTracked
<1> HIDE DEF input
<1>4. \A a \in DOMAIN E : proofs[a] = ProofFor(leaves, layers, a)
  BY <1>2
<1>5. ASSUME NEW a \in DOMAIN E
      PROVE  /\ RefsInRange(input.frontier, E[a].proof)
             /\ EntryVerifies(input.oldRoot, a, E[a], proofs[a])
             /\ proofs[a].kind = "member" <=> a \in M
  <2> DEFINE entry == E[a]
  <2>1. /\ a \in DOMAIN w.delta /\ entry.delta = w.delta[a]
        /\ entry.oldLeaf = IF a \in DOMAIN leaves THEN leaves[a] ELSE NoLeaf
        /\ RefsInRange(input.frontier, entry.proof) /\ proofs[a] = ProofFor(leaves, layers, a)
    BY <1>2, <1>4
  <2> HIDE DEF entry, E, proofs, M
  <2>2. /\ EntryVerifies(Root(layers), a, entry, ProofFor(leaves, layers, a))
        /\ ProofFor(leaves, layers, a).kind = "member" <=> a \in MemberEntries(w)
    BY <2>1, EntryConfirmed
  <2>3. QED
    BY <1>2, <2>1, <2>2 DEF entry, M
<1>6. Members = M
  BY <1>2, <1>3, <1>5
<1>7. \A p : GivenAt(p) = GivenFor(Members, p)
  BY <1>4 DEF GivenFor
<1> HIDE DEF E, proofs, Members, GivenAt
<1>8. ASSUME NEW p \in Places
      PROVE  /\ GivenAt(p) = {NodeAt(layers, p[1], p[2])}
             /\ Cardinality(GivenAt(p)) = 1
  <2>1. PICK a \in Members, l \in 0..(Depth - 1) : p = Place(a, l)
    OBVIOUS
  <2>2. GivenFor(Members, p) = {NodeAt(layers, p[1], p[2])}
    BY <1>3, <1>6, <2>1, OneSiblingGiven
  <2> HIDE DEF Places, Place
  <2>3. GivenAt(p) = GivenFor(Members, p)
    BY <1>7
  <2>4. GivenAt(p) = {NodeAt(layers, p[1], p[2])}
    BY <2>2, <2>3
  <2>5. Cardinality({NodeAt(layers, p[1], p[2])}) = 1
    BY FS_Singleton
  <2>6. QED
    BY <2>4, <2>5
<1>9. DOMAIN siblings = Places /\ \A p \in Places : siblings[p] = NodeAt(layers, p[1], p[2])
  BY <1>8
<1>10. \A a \in M, l \in 0..(Depth - 1) : Place(a, l) = <<l, SiblingIndex(PrefixIndex(KeyOf(a), Depth - l))>>
  BY <1>3, OneSiblingGiven
<1> DEFINE W == MemberKeys(w)
<1>11. Places = {<<l, SiblingIndex(PrefixIndex(k, Depth - l))>> : k \in W, l \in 0..(Depth - 1)}
  BY <1>6, <1>10 DEF MemberKeys
<1>12. GivenOK(siblings, layers, W)
  <2> HIDE DEF siblings, Places, W
  <2>1. QED
    BY <1>9, <1>11 DEF GivenOK
<1>13. /\ TreeOK(new) /\ W \in SUBSET Keys /\ SameSlotsBut(W, layers, new)
       /\ \A a \in M : /\ NodeAt(layers, 0, LeafIndex(a)) = HashOfLeaf(leaves, a)
                       /\ NodeAt(new, 0, LeafIndex(a)) = HashOfLeaf(UpdatedLeaves(w), a)
  BY UpdatedTree
<1>14. PairsOK(changed, layers, new, W, 0)
  <2>1. ASSUME NEW a \in M
        PROVE  LeafPair(a) = <<NodeAt(layers, 0, LeafIndex(a)), NodeAt(new, 0, LeafIndex(a))>>
    <3>1. E[a].oldLeaf = leaves[a] /\ E[a].delta = w.delta[a]
      BY <1>2, <1>3
    <3>2. /\ UpdatedLeaves(w)[a].balance = leaves[a].balance + w.delta[a]
          /\ UpdatedLeaves(w)[a].salt = leaves[a].salt
      BY <1>3 DEF UpdatedLeaves
    <3>3. QED
      BY <1>13, <3>1, <3>2 DEF HashOfLeaf
  <2>2. ASSUME NEW a \in M PROVE Largest({b \in Members : LeafIndex(b) = LeafIndex(a)}) = a
    <3>1. \A b \in M : LeafIndex(b) = LeafIndex(a) => b = a
      BY <1>3, MembersApart
    <3>2. {b \in Members : LeafIndex(b) = LeafIndex(a)} = {a}
      BY <1>6, <3>1
    <3>3. a \in Nat
      BY <1>3 DEF Address
    <3>4. Largest({a}) = a
      BY <3>3 DEF Largest
    <3>5. QED
      BY <3>2, <3>4
  <2>3. DOMAIN changed = {LeafIndex(a) : a \in M}
    BY <1>6
  <2>4. ASSUME NEW a \in M PROVE changed[LeafIndex(a)] = LeafPair(a)
    BY <2>2, <2>3
  <2>5. Depth - 0 = Depth /\ W = {KeyOf(a) : a \in M}
    BY DEF MemberKeys
  <2> HIDE DEF changed, LeafPair, W, M, new
  <2>6. DOMAIN changed = {PrefixIndex(k, Depth - 0) : k \in W}
    BY <2>3, <2>5 DEF LeafIndex
  <2>7. \A i \in DOMAIN changed : changed[i] = <<NodeAt(layers, 0, i), NodeAt(new, 0, i)>>
    BY <2>1, <2>3, <2>4
  <2>8. QED
    BY <2>6, <2>7 DEF PairsOK
<1> HIDE DEF changed, siblings, new, W, M, Places
<1>15. roots = <<Root(layers), Root(new)>>
  <2>0. TreeOK(layers)
    BY DEF TreeInv
  <2>1. CASE M = {}
    <3>1. W = {}
      BY <2>1 DEF W, M, MemberKeys
    <3>2. 0 \in Nat /\ Depth \in 0..Depth /\ \A k \in W : PrefixIndex(k, Depth - Depth) # 0
      BY <3>1
    <3>3. NodeAt(layers, Depth, 0) = NodeAt(new, Depth, 0)
      BY <1>13, <2>0, <3>2, OffPathSame
    <3>4. QED
      BY <1>2, <1>6, <2>1, <3>3 DEF Root
  <2>2. CASE M # {}
    <3>1. W # {}
      BY <2>2 DEF W, M, MemberKeys
    <3>2. UpdatedRoots(changed, siblings) = <<Root(layers), Root(new)>>
      BY <1>12, <1>13, <1>14, <2>0, <3>1, RootsFromLeaves
    <3>3. QED
      BY <1>6, <2>2, <3>2
  <2>3. QED
    BY <2>1, <2>2
<1>16. aggregate.fits = SumFits(OrZero(MemberDelta(w))) /\ aggregate.sum = sum
  <2>1. [a \in Members |-> E[a].delta] = MemberDelta(w)
    BY <1>2, <1>3, <1>6 DEF MemberDelta, M
  <2>2. QED
    BY <2>1 DEF GuestAggregate
<1> HIDE DEF roots, aggregate
<1>17. roots[1] = Root(layers) /\ roots[2] = Root(new)
  BY <1>15
<1>18. GuestUpdate(input) =
         IF SumFits(OrZero(MemberDelta(w))) /\ InI128(total + sum)
         THEN [accepted |-> TRUE, oldRoot |-> Root(layers), newRoot |-> Root(new),
               delta |-> sum, members |-> M, newTotal |-> total + sum]
         ELSE Rejected
  BY <1>1, <1>2, <1>5, <1>6, <1>8, <1>16, <1>17
<1>19. QED
  BY <1>18 DEF input, new, M

\* The guest accepts exactly if no sum overflows, and then all it commits to is what
\* the library computed, whose wrapping arithmetic has not wrapped.
LEMMA UpdateConfirmedIfExact ==
    ASSUME IndexFits, KeysApart, TypeOK, TreeInv, SaltsOwned, HeldTyped, HeldNotReturned,
           NonMembershipSound, NEW w \in held, w.op = "update", UpdateVerifies(w)
    PROVE  GuestConfirmsUpdate(w) = ExactUpdate(w)
<1> DEFINE moved == OrZero(MemberDelta(w))
           sum   == Total(moved)
           pv    == GuestUpdate(UpdateStdin(w))
<1>1. pv = IF SumFits(moved) /\ InI128(total + sum)
             THEN [accepted |-> TRUE, oldRoot |-> Root(layers), newRoot |-> Root(UpdatedLayers(w)),
                   delta |-> sum, members |-> MemberEntries(w), newTotal |-> total + sum]
             ELSE Rejected
  BY GuestUpdateResult
<1>2. moved \in [Address -> Int] /\ sum \in Int /\ total \in Int
  BY MemberDeltaType, TotalType DEF TypeOK, WitnessOK
<1>3. ExactUpdate(w) = (SumFits(moved) /\ InI128(total + sum))
  BY DEF ExactUpdate
<1>4. GuestConfirmsUpdate(w) = (/\ pv.accepted
                                /\ pv.oldRoot = Root(layers)
                                /\ pv.newRoot = Root(UpdatedLayers(w))
                                /\ pv.delta = Aggregate(w)
                                /\ pv.members = MemberEntries(w)
                                /\ pv.newTotal = UpdatedTotal(w))
  BY DEF GuestConfirmsUpdate
<1>5. ASSUME SumFits(moved), InI128(total + sum)
      PROVE  Aggregate(w) = sum /\ UpdatedTotal(w) = total + sum
  <2>1. InI128(sum)
    BY <1>5, NAssumption DEF SumFits, Total
  <2>2. Aggregate(w) = Wrap(sum) /\ UpdatedTotal(w) = Wrap(total + Aggregate(w))
    BY DEF Aggregate, UpdatedTotal
  <2> HIDE DEF sum
  <2>3. Aggregate(w) = sum
    BY <1>2, <2>1, <2>2, WrapInRange
  <2>4. total + sum \in Int
    BY <1>2
  <2>5. QED
    BY <1>5, <2>2, <2>3, <2>4, WrapInRange
<1> HIDE DEF pv, sum, moved
<1>6. CASE SumFits(moved) /\ InI128(total + sum)
  <2>1. /\ pv.accepted = TRUE /\ pv.oldRoot = Root(layers) /\ pv.newRoot = Root(UpdatedLayers(w))
        /\ pv.delta = sum /\ pv.members = MemberEntries(w) /\ pv.newTotal = total + sum
    BY <1>1, <1>6
  <2>2. QED
    BY <1>3, <1>4, <1>5, <1>6, <2>1
<1>7. CASE ~(SumFits(moved) /\ InI128(total + sum))
  <2>1. pv.accepted = FALSE
    BY <1>1, <1>7 DEF Rejected
  <2>2. QED
    BY <1>3, <1>4, <1>7, <2>1
<1>8. QED
  BY <1>6, <1>7

\* The two implementations of the update agree, whatever witnesses were built, held,
\* repeated and applied before: an update that the library accepts is confirmed by
\* the guest, with the library's roots, flags, delta and total, unless an i128 sum
\* overflows (smt-update main.rs, sp1-host update.rs, smt update.rs).
THEOREM UpdatesAgree ==
    ASSUME IndexFits, KeysApart PROVE ProverSpec => []GuestAgreesOnUpdates
<1>1. TypeOK /\ TreeInv /\ SaltsOwned /\ HeldTyped /\ HeldNotReturned /\ NonMembershipSound
         => GuestAgreesOnUpdates
  BY UpdateConfirmedIfExact DEF GuestAgreesOnUpdates
<1>2. Spec => /\ []TypeOK /\ []TreeInv /\ []SaltsOwned
               /\ []HeldTyped /\ []HeldNotReturned /\ []NonMembershipSound
  BY TypeCorrect, TreeCorrect, SaltsOwnedCorrect, HeldTypedCorrect, HeldNotReturnedCorrect, ProofsSound
<1>3. QED
  BY <1>1, <1>2, ProverImplementsLibrary, PTL

-----------------------------------------------------------------------------
(* Every build that proves is exact *)

\* Where no sum overflows, the new total is exact.
LEMMA ExactUpdateTotal ==
    ASSUME TypeOK, NEW w \in held, w.op = "update", ExactUpdate(w)
    PROVE  UpdatedTotal(w) = total + Total(OrZero(MemberDelta(w)))
<1> DEFINE sum == Total(OrZero(MemberDelta(w)))
<1>1. sum \in Int /\ total \in Int
  BY MemberDeltaType, TotalType DEF TypeOK, WitnessOK
<1>2. InI128(sum) /\ InI128(total + sum)
  BY NAssumption DEF ExactUpdate, SumFits, Total
<1>3. Aggregate(w) = Wrap(sum) /\ UpdatedTotal(w) = Wrap(total + Aggregate(w))
  BY DEF Aggregate, UpdatedTotal
<1> HIDE DEF sum
<1>4. total + sum \in Int
  BY <1>1
<1>5. QED
  BY <1>1, <1>2, <1>3, <1>4, WrapInRange DEF sum

\* The guest confirms no insertion that takes the total out of range.
LEMMA ConfirmedInsertFits ==
    ASSUME NEW w, GuestConfirmsInsert(w) PROVE InI128(total + w.balance)
<1>1. GuestInsert(InsertStdin(w)).accepted
  BY DEF GuestConfirmsInsert
<1>2. InsertStdin(w).oldTotal = total /\ InsertStdin(w).balance = w.balance
  BY DEF InsertStdin
<1> DEFINE input == InsertStdin(w)
<1> HIDE DEF input
<1>3. ASSUME ~InI128(input.oldTotal + input.balance) PROVE GuestInsert(input) = Rejected
  BY <1>3 DEF GuestInsert
<1>4. Rejected.accepted = FALSE
  BY DEF Rejected
<1>5. QED
  BY <1>1, <1>2, <1>3, <1>4 DEF input

\* In every build balance_total is the exact sum of the leaves' balances after any
\* history of proved operations: what the wrapping additions of the library would
\* lose, the guest's checked ones reject (smt-update and smt-insert main.rs).
LEMMA ProvedTotalCorrect ==
    ASSUME IndexFits, KeysApart, ReservesFit PROVE ProverSpec => []TotalIsSum
<1>1. Init => TotalIsSum
  <2> SUFFICES ASSUME NEW r \in Reserves, leaves = NewLeaves(r), total = Wrap(Total(OrZero(r)))
               PROVE  TotalIsSum
    BY DEF Init
  <2>1. SumFits(OrZero(r))
    BY DEF ReservesFit
  <2>2. QED
    BY <2>1, NewTotalIsSum DEF TotalIsSum
<1> DEFINE Library == /\ TypeOK /\ TreeInv /\ SaltsOwned
                      /\ HeldTyped /\ HeldNotReturned /\ NonMembershipSound
<1>2. Library /\ TotalIsSum /\ [ProverNext]_vars => TotalIsSum'
  <2> SUFFICES ASSUME TypeOK, TreeInv, SaltsOwned, HeldTyped, HeldNotReturned, NonMembershipSound,
                      TotalIsSum, [ProverNext]_vars
               PROVE  TotalIsSum'
    OBVIOUS
  <2> USE DEF TotalIsSum
  <2>1. CASE UNCHANGED <<leaves, total>>
    BY <2>1
  <2>2. ASSUME NEW w \in held, ProveUpdate(w) PROVE TotalIsSum'
    <3>1. w.op = "update" /\ WriteUpdate(w) /\ GuestConfirmsUpdate(w)
      BY <2>2 DEF ProveUpdate, ApplyUpdate
    <3>2. UpdateVerifies(w) /\ total' = UpdatedTotal(w)
      BY <3>1 DEF WriteUpdate
    <3>3. ExactUpdate(w)
      BY <3>1, <3>2, UpdateConfirmedIfExact
    <3>4. UpdatedTotal(w) = total + Total(OrZero(MemberDelta(w)))
      BY <3>1, <3>3, ExactUpdateTotal
    <3>5. QED
      BY <3>1, <3>2, <3>4, UpdatedSum
  <2>3. ASSUME NEW w \in held, ProveInsert(w) PROVE TotalIsSum'
    <3>1. w.op = "insert" /\ WriteInsert(w) /\ GuestConfirmsInsert(w)
      BY <2>3 DEF ProveInsert, ApplyInsert
    <3>2. InI128(total + w.balance)
      BY <3>1, ConfirmedInsertFits
    <3>3. total + w.balance \in Int /\ total' = Wrap(total + w.balance)
      BY <3>1, InsertBalancesAssumption DEF WriteInsert, TypeOK, WitnessOK
    <3>4. QED
      BY <3>1, <3>2, <3>3, WrapInRange, InsertedSum
  <2>4. QED
    BY <2>1, <2>2, <2>3 DEF ProverNext, BuildUpdateWitness, BuildInsertWitness, Discard, Reload, vars
<1>3. Spec => /\ []TypeOK /\ []TreeInv /\ []SaltsOwned
               /\ []HeldTyped /\ []HeldNotReturned /\ []NonMembershipSound
  BY TypeCorrect, TreeCorrect, SaltsOwnedCorrect, HeldTypedCorrect, HeldNotReturnedCorrect, ProofsSound
<1>4. QED
  BY <1>1, <1>2, <1>3, ProverImplementsLibrary, PTL DEF ProverSpec

\* Proving an operation before it is kept makes every build an implementation of the
\* abstract ledger, the release build included, whose plain additions wrap: a window
\* moves exactly the tracked accounts it names, an account is enrolled once, and the
\* committed total is always the exact sum (sp1-host update.rs, insert.rs).
THEOREM ProverImplementsLedger ==
    ASSUME IndexFits, NormalForms, KeysApart, ReservesFit PROVE ProverSpec => LedgerSpec
<1>1. Init => Ledger!Init
  BY InitRefines
<1>2. TypeOK /\ TreeInv /\ NonMembershipSound /\ TotalIsSum' /\ [Next]_vars
         => [Ledger!Next]_(Ledger!vars)
  BY StepRefines
<1>3. Spec => []TypeOK /\ []TreeInv /\ []NonMembershipSound
  BY TypeCorrect, TreeCorrect, ProofsSound
<1>4. QED
  BY <1>1, <1>2, <1>3, ProvedTotalCorrect, ProverImplementsLibrary, PTL
     DEF ProverSpec, Spec, LedgerSpec, Ledger!Spec
=============================================================================
