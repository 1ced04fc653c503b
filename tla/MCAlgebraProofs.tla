--------------------------- MODULE MCAlgebraProofs ---------------------------
(***************************************************************************)
(* The properties of the pure algorithms hold for every field, every bound *)
(* on the inputs and every width of i128: the theorems of AlgebraProofs    *)
(* and the equations of the reader of delta files, at the inputs           *)
(* enumerated.                                                             *)
(***************************************************************************)
EXTENDS MCAlgebra, AlgebraProofs

-----------------------------------------------------------------------------
(* The reader of delta files *)

\* The lines of delta files.
AllLines == Address \X Int

\* The readings after the first lines, and the sums of account a.
IsReading(p, lines) ==
    /\ p[0] = Unread
    /\ \A i \in 1..Len(lines) : p[i] = AddLine(p[i - 1], lines[i])
WithLine(sum, line, a) == IF Normal[line[1]] = a THEN sum + line[2] ELSE sum
IsAccountSum(p, lines, a) ==
    /\ p[0] = 0
    /\ \A i \in 1..Len(lines) : p[i] = WithLine(p[i - 1], lines[i], a)

\* Merge reads one line after the other.
LEMMA MergeDef ==
    ASSUME NEW lines \in Seq(AllLines)
    PROVE  \E p : IsReading(p, lines) /\ Merge(lines) = p[Len(lines)]
<1> DEFINE n == Len(lines)
           Step(v, i) == AddLine(v, lines[i])
           Value(s, i) == IF i = 0 THEN Unread ELSE Step(s[i - 1], i)
           Solves(s, m) == \A i \in 0..m : s[i] = Value(s, i)
           T == {m \in 0..n : \E s : Solves(s, m)}
<1>0. n \in Nat
  OBVIOUS
<1>p. Merge(lines) = (CHOOSE s : s = [i \in 0..n |-> Value(s, i)])[n]
  BY DEF Merge
<1>q. ASSUME NEW p, p[0] = Unread, \A i \in 1..n : p[i] = Step(p[i - 1], i) PROVE IsReading(p, lines)
  BY <1>q DEF IsReading
<1> HIDE DEF Step, n
<1>1. 0 \in T
  <2> DEFINE s == [i \in 0..0 |-> Unread]
  <2>1. Solves(s, 0)
    OBVIOUS
  <2> HIDE DEF s, Solves
  <2>2. \E z : Solves(z, 0)
    BY <2>1
  <2>3. QED
    BY <1>0, <2>2
<1>2. ASSUME NEW m \in 0..(n - 1), m \in T PROVE m + 1 \in T
  <2>1. PICK s : Solves(s, m)
    BY <1>2
  <2> DEFINE t == [i \in 0..(m + 1) |-> IF i = m + 1 THEN Step(s[m], m + 1) ELSE s[i]]
  <2>2. Solves(t, m + 1)
    <3> SUFFICES ASSUME NEW i \in 0..(m + 1) PROVE t[i] = Value(t, i)
      OBVIOUS
    <3>1. CASE i = m + 1
      <4>1. i # 0 /\ i - 1 = m /\ m # m + 1 /\ m \in 0..(m + 1)
        BY <1>0, <3>1
      <4>2. t[i] = Step(s[m], m + 1) /\ t[i - 1] = s[m]
        BY <3>1, <4>1
      <4>3. QED
        BY <3>1, <4>1, <4>2
    <3>2. CASE i \in 0..m
      <4>1. s[i] = Value(s, i)
        BY <2>1, <3>2
      <4>2. t[i] = s[i]
        BY <1>0, <3>2
      <4>3. CASE i = 0
        BY <4>1, <4>2, <4>3
      <4>4. CASE i # 0
        <5>1. t[i - 1] = s[i - 1]
          BY <1>0, <3>2, <4>4
        <5>2. QED
          BY <4>1, <4>2, <4>4, <5>1
      <4>5. QED
        BY <4>3, <4>4
    <3>3. QED
      BY <1>0, <3>1, <3>2
  <2> HIDE DEF t, Solves
  <2>3. \E z : Solves(z, m + 1)
    BY <2>2
  <2>4. QED
    BY <1>0, <2>3
<1>3. 0..n \subseteq T
  <2> HIDE DEF T
  <2>1. QED
    BY <1>0, <1>1, <1>2, UpToInduction
<1>4. PICK s : Solves(s, n)
  <2>1. n \in T
    <3> HIDE DEF T
    <3>1. n \in 0..n
      BY <1>0
    <3>2. QED
      BY <1>3, <3>1
  <2> HIDE DEF Solves
  <2>2. QED
    BY <2>1
<1> DEFINE r == [i \in 0..n |-> s[i]]
<1>5. r = [i \in 0..n |-> Value(r, i)]
  <2>1. ASSUME NEW i \in 0..n PROVE r[i] = Value(r, i)
    <3>1. s[i] = Value(s, i)
      BY <1>4
    <3>2. CASE i = 0
      BY <3>1, <3>2
    <3>3. CASE i # 0
      <4>1. r[i - 1] = s[i - 1]
        BY <1>0, <3>3
      <4>2. QED
        BY <3>1, <3>3, <4>1
    <3>4. QED
      BY <3>2, <3>3
  <2>2. r = [i \in 0..n |-> r[i]]
    OBVIOUS
  <2> HIDE DEF r, Value
  <2>3. QED
    BY <2>1, <2>2
<1> HIDE DEF r
<1> DEFINE p == CHOOSE z : z = [i \in 0..n |-> Value(z, i)]
           step == [i \in 0..n |-> Value(p, i)]
<1>6. p = step
  BY <1>5
<1>7. Merge(lines) = p[n]
  BY <1>p
<1> HIDE DEF p
<1>a. \A i \in 0..n : step[i] = Value(p, i)
  OBVIOUS
<1> HIDE DEF step, Value
<1>8. step[0] = Unread
  <2>1. 0 \in 0..n
    BY <1>0
  <2>2. step[0] = Value(p, 0)
    BY <1>a, <2>1
  <2>3. QED
    BY <2>2 DEF Value
<1>9. ASSUME NEW i \in 1..n PROVE step[i] = Step(p[i - 1], i)
  <2>1. i \in 0..n /\ i # 0
    BY <1>0
  <2>2. step[i] = Value(p, i)
    BY <1>a, <2>1
  <2>3. QED
    BY <2>1, <2>2 DEF Value
<1>10. p[0] = Unread /\ \A i \in 1..n : p[i] = Step(p[i - 1], i)
  BY <1>6, <1>8, <1>9
<1>11. IsReading(p, lines)
  BY <1>10, <1>q
<1>12. QED
  BY <1>7, <1>11 DEF n

\* AccountSum adds the amounts of the account's lines.
LEMMA AccountSumDef ==
    ASSUME NEW lines \in Seq(AllLines), NEW a
    PROVE  \E p : IsAccountSum(p, lines, a) /\ AccountSum(lines, a) = p[Len(lines)]
<1> DEFINE n == Len(lines)
           Step(v, i) == WithLine(v, lines[i], a)
           Value(s, i) == IF i = 0 THEN 0 ELSE Step(s[i - 1], i)
           Solves(s, m) == \A i \in 0..m : s[i] = Value(s, i)
           T == {m \in 0..n : \E s : Solves(s, m)}
<1>0. n \in Nat
  OBVIOUS
<1>p. AccountSum(lines, a) = (CHOOSE s : s = [i \in 0..n |-> Value(s, i)])[n]
  BY DEF AccountSum, WithLine
<1>q. ASSUME NEW p, p[0] = 0, \A i \in 1..n : p[i] = Step(p[i - 1], i) PROVE IsAccountSum(p, lines, a)
  BY <1>q DEF IsAccountSum
<1> HIDE DEF Step, n
<1>1. 0 \in T
  <2> DEFINE s == [i \in 0..0 |-> 0]
  <2>1. Solves(s, 0)
    OBVIOUS
  <2> HIDE DEF s, Solves
  <2>2. \E z : Solves(z, 0)
    BY <2>1
  <2>3. QED
    BY <1>0, <2>2
<1>2. ASSUME NEW m \in 0..(n - 1), m \in T PROVE m + 1 \in T
  <2>1. PICK s : Solves(s, m)
    BY <1>2
  <2> DEFINE t == [i \in 0..(m + 1) |-> IF i = m + 1 THEN Step(s[m], m + 1) ELSE s[i]]
  <2>2. Solves(t, m + 1)
    <3> SUFFICES ASSUME NEW i \in 0..(m + 1) PROVE t[i] = Value(t, i)
      OBVIOUS
    <3>1. CASE i = m + 1
      <4>1. i # 0 /\ i - 1 = m /\ m # m + 1 /\ m \in 0..(m + 1)
        BY <1>0, <3>1
      <4>2. t[i] = Step(s[m], m + 1) /\ t[i - 1] = s[m]
        BY <3>1, <4>1
      <4>3. QED
        BY <3>1, <4>1, <4>2
    <3>2. CASE i \in 0..m
      <4>1. s[i] = Value(s, i)
        BY <2>1, <3>2
      <4>2. t[i] = s[i]
        BY <1>0, <3>2
      <4>3. CASE i = 0
        BY <4>1, <4>2, <4>3
      <4>4. CASE i # 0
        <5>1. t[i - 1] = s[i - 1]
          BY <1>0, <3>2, <4>4
        <5>2. QED
          BY <4>1, <4>2, <4>4, <5>1
      <4>5. QED
        BY <4>3, <4>4
    <3>3. QED
      BY <1>0, <3>1, <3>2
  <2> HIDE DEF t, Solves
  <2>3. \E z : Solves(z, m + 1)
    BY <2>2
  <2>4. QED
    BY <1>0, <2>3
<1>3. 0..n \subseteq T
  <2> HIDE DEF T
  <2>1. QED
    BY <1>0, <1>1, <1>2, UpToInduction
<1>4. PICK s : Solves(s, n)
  <2>1. n \in T
    <3> HIDE DEF T
    <3>1. n \in 0..n
      BY <1>0
    <3>2. QED
      BY <1>3, <3>1
  <2> HIDE DEF Solves
  <2>2. QED
    BY <2>1
<1> DEFINE r == [i \in 0..n |-> s[i]]
<1>5. r = [i \in 0..n |-> Value(r, i)]
  <2>1. ASSUME NEW i \in 0..n PROVE r[i] = Value(r, i)
    <3>1. s[i] = Value(s, i)
      BY <1>4
    <3>2. CASE i = 0
      BY <3>1, <3>2
    <3>3. CASE i # 0
      <4>1. r[i - 1] = s[i - 1]
        BY <1>0, <3>3
      <4>2. QED
        BY <3>1, <3>3, <4>1
    <3>4. QED
      BY <3>2, <3>3
  <2>2. r = [i \in 0..n |-> r[i]]
    OBVIOUS
  <2> HIDE DEF r, Value
  <2>3. QED
    BY <2>1, <2>2
<1> HIDE DEF r
<1> DEFINE p == CHOOSE z : z = [i \in 0..n |-> Value(z, i)]
           step == [i \in 0..n |-> Value(p, i)]
<1>6. p = step
  BY <1>5
<1>7. AccountSum(lines, a) = p[n]
  BY <1>p
<1> HIDE DEF p
<1>a. \A i \in 0..n : step[i] = Value(p, i)
  OBVIOUS
<1> HIDE DEF step, Value
<1>8. step[0] = 0
  <2>1. 0 \in 0..n
    BY <1>0
  <2>2. step[0] = Value(p, 0)
    BY <1>a, <2>1
  <2>3. QED
    BY <2>2 DEF Value
<1>9. ASSUME NEW i \in 1..n PROVE step[i] = Step(p[i - 1], i)
  <2>1. i \in 0..n /\ i # 0
    BY <1>0
  <2>2. step[i] = Value(p, i)
    BY <1>a, <2>1
  <2>3. QED
    BY <2>1, <2>2 DEF Value
<1>10. p[0] = 0 /\ \A i \in 1..n : p[i] = Step(p[i - 1], i)
  BY <1>6, <1>8, <1>9
<1>11. IsAccountSum(p, lines, a)
  BY <1>10, <1>q
<1>12. QED
  BY <1>7, <1>11 DEF n

\* What is known of a reading, given the exact sum of account a's lines so far:
\* the account holds the sum modulo the width, the exact sum unless an addition
\* overflowed, and nothing is held under a spelling that is not normal.
Holds(read, sum, a) ==
    /\ read.sums \in [Address -> Int] /\ read.overflowed \in BOOLEAN
    /\ sum \in Int
    /\ read.sums[a] = Wrap(sum)
    /\ ~read.overflowed => read.sums[a] = sum
    /\ Normal[a] # a => read.sums[a] = 0

\* A line keeps that.
LEMMA LineHolds ==
    ASSUME NEW a \in Address, NEW read, NEW sum, Holds(read, sum, a), NEW line \in AllLines
    PROVE  Holds(AddLine(read, line), WithLine(sum, line, a), a)
<1> DEFINE b == Normal[line[1]]
           v == line[2]
           t == read.sums[b] + v
           next == [sums |-> [read.sums EXCEPT ![b] = Wrap(t)],
                    overflowed |-> read.overflowed \/ ~InI128(t)]
<1>1. b \in Address /\ v \in Int /\ Normal[b] = b
  BY NormalAssumption DEF AllLines
<1>2. read.sums \in [Address -> Int] /\ read.overflowed \in BOOLEAN /\ sum \in Int
  BY DEF Holds
<1>3. AddLine(read, line) = next
  BY DEF AddLine
<1>4. WithLine(sum, line, a) = IF b = a THEN sum + v ELSE sum
  BY DEF WithLine
<1> HIDE DEF b, v
<1>5. t \in Int
  BY <1>1, <1>2
<1>6. Wrap(t) \in Int
  BY <1>5, WrapType
<1>7. next.overflowed = (read.overflowed \/ ~InI128(t))
  BY Zenon
<1>8. InI128(t) \in BOOLEAN
  BY DEF InI128
<1> HIDE DEF t
<1>9. next.sums \in [Address -> Int] /\ \A c \in Address : next.sums[c] = IF c = b THEN Wrap(t) ELSE read.sums[c]
  BY <1>1, <1>2, <1>6
<1> HIDE DEF next
<1>10. next.overflowed \in BOOLEAN
  BY <1>2, <1>7, <1>8
<1>11. CASE b = a
  <2>1. WithLine(sum, line, a) = sum + v /\ sum + v \in Int /\ Normal[a] = a
    BY <1>1, <1>2, <1>4, <1>11
  <2>2. t = Wrap(sum) + v
    BY <1>11 DEF t, Holds
  <2>3. next.sums[a] = Wrap(sum + v)
    BY <1>1, <1>2, <1>9, <1>11, <2>2, WrapAdds
  <2>4. ASSUME ~next.overflowed PROVE next.sums[a] = sum + v
    <3>1. ~read.overflowed /\ InI128(t)
      BY <1>7, <2>4
    <3>2. t = sum + v
      BY <1>11, <3>1 DEF t, Holds
    <3>3. Wrap(t) = t
      BY <1>5, <3>1, WrapInRange
    <3>4. QED
      BY <1>9, <1>11, <3>2, <3>3
  <2>5. QED
    BY <1>3, <1>9, <1>10, <2>1, <2>3, <2>4 DEF Holds
<1>12. CASE b # a
  <2>1. WithLine(sum, line, a) = sum /\ next.sums[a] = read.sums[a]
    BY <1>4, <1>9, <1>12
  <2>2. ~next.overflowed => ~read.overflowed
    BY <1>7
  <2>3. QED
    BY <1>3, <1>9, <1>10, <1>12, <2>1, <2>2 DEF Holds
<1>13. QED
  BY <1>11, <1>12

\* The reading of a whole file.
LEMMA MergeHolds ==
    ASSUME NEW lines \in Seq(AllLines), NEW a \in Address
    PROVE  Holds(Merge(lines), AccountSum(lines, a), a)
<1> DEFINE n == Len(lines)
<1>1. n \in Nat /\ \A i \in 1..n : lines[i] \in AllLines
  OBVIOUS
<1>2. PICK p : IsReading(p, lines) /\ Merge(lines) = p[n]
  BY MergeDef
<1>3. PICK q : IsAccountSum(q, lines, a) /\ AccountSum(lines, a) = q[n]
  BY AccountSumDef
<1>4. p[0] = Unread /\ \A i \in 1..n : p[i] = AddLine(p[i - 1], lines[i])
  BY <1>2 DEF IsReading
<1>5. q[0] = 0 /\ \A i \in 1..n : q[i] = WithLine(q[i - 1], lines[i], a)
  BY <1>3 DEF IsAccountSum
<1> HIDE DEF n
<1> DEFINE T == {m \in 0..n : Holds(p[m], q[m], a)}
<1>6. 0 \in T
  <2>1. Unread.sums = [c \in Address |-> 0] /\ Unread.overflowed = FALSE
    BY Zenon DEF Unread
  <2>2. Unread.sums \in [Address -> Int] /\ Unread.sums[a] = 0
    BY <2>1
  <2>3. Wrap(0) = 0
    <3>1. InI128(0)
      BY WidthAssumption DEF InI128
    <3>2. QED
      BY <3>1, WrapInRange
  <2>4. Unread.overflowed \in BOOLEAN
    BY <2>1
  <2>5. Holds(Unread, 0, a)
    BY <2>1, <2>2, <2>3, <2>4 DEF Holds
  <2>6. QED
    BY <1>1, <1>4, <1>5, <2>5
<1>7. ASSUME NEW m \in 0..(n - 1), m \in T PROVE m + 1 \in T
  <2>1. m + 1 \in 1..n /\ m + 1 \in 0..n /\ (m + 1) - 1 = m
    BY <1>1
  <2>2. p[m + 1] = AddLine(p[m], lines[m + 1]) /\ q[m + 1] = WithLine(q[m], lines[m + 1], a)
    BY <1>4, <1>5, <2>1
  <2>3. Holds(p[m], q[m], a) /\ lines[m + 1] \in AllLines
    BY <1>1, <1>7, <2>1
  <2>4. Holds(p[m + 1], q[m + 1], a)
    BY <2>2, <2>3, LineHolds
  <2>5. QED
    BY <2>1, <2>4
<1>8. 0..n \subseteq T
  <2> HIDE DEF T
  <2>1. QED
    BY <1>1, <1>6, <1>7, UpToInduction
<1>9. QED
  BY <1>1, <1>2, <1>3, <1>8 DEF n

\* read_delta_csv merges the lines of a file, however many there are and
\* however they are spelled, into the sums of the accounts' lines.
THEOREM ReadIsExact ==
    ASSUME NEW lines \in Seq(AllLines), NEW d \in ReadDeltas(lines), NEW a \in Address
    PROVE  LET sum == AccountSum(lines, a)
           IN /\ OrZero(d)[a] = IF OverflowPanics THEN sum ELSE Wrap(sum)
              /\ a \in DOMAIN d => d[a] # 0 /\ Normal[a] = a
<1> DEFINE read == Merge(lines)
           sum == AccountSum(lines, a)
<1>1. ~(OverflowPanics /\ read.overflowed) /\ d = [c \in {b \in Address : read.sums[b] # 0} |-> read.sums[c]]
  BY DEF ReadDeltas
<1>2. Holds(read, sum, a)
  BY MergeHolds
<1> HIDE DEF read, sum
<1>3. DOMAIN d = {b \in Address : read.sums[b] # 0} /\ \A c \in DOMAIN d : d[c] = read.sums[c]
  BY <1>1
<1>4. OrZero(d)[a] = read.sums[a]
  BY <1>3 DEF OrZero
<1>5. read.sums[a] = IF OverflowPanics THEN sum ELSE Wrap(sum)
  BY <1>1, <1>2 DEF Holds
<1>6. a \in DOMAIN d => d[a] # 0 /\ Normal[a] = a
  BY <1>2, <1>3 DEF Holds
<1>7. QED
  BY <1>4, <1>5, <1>6 DEF sum

-----------------------------------------------------------------------------
(* The inputs *)

\* What an input is.
InputOK ==
    /\ input.kind = "poly" => input.f \in Polys /\ input.f \in Coeffs /\ input.xs \in Coeffs
    /\ input.kind = "relation" =>
          \E As \in SUBSET Address : input.v \in Assignments(As) /\ input.delta \in [As -> Int]
    /\ input.kind = "csv" => input.lines \in Seq(AllLines)

\* The lists of points are lists of field elements.
LEMMA PointListsType == PointLists \subseteq Coeffs
<1> SUFFICES ASSUME NEW n \in 0..MaxPoints, NEW xs \in [1..n -> Field] PROVE xs \in Coeffs
  BY DEF PointLists
<1>1. n \in Nat
  BY BoundsAssumption
<1>2. QED
  BY <1>1, FunctionIsSequence DEF Coeffs

\* The lists of lines are lists of lines.
LEMMA LineListsType == LineLists \subseteq Seq(AllLines)
<1> SUFFICES ASSUME NEW n \in 0..MaxLines, NEW lines \in [1..n -> Lines] PROVE lines \in Seq(AllLines)
  BY DEF LineLists
<1>1. n \in Nat
  BY BoundsAssumption
<1>2. Lines \subseteq AllLines
  <2>1. {1, 2, 3} \subseteq Address
    BY BoundsAssumption, NAssumption DEF Address
  <2>2. {-8, -3, 3, 7} \subseteq Int
    OBVIOUS
  <2>3. QED
    BY <2>1, <2>2 DEF Lines, AllLines
<1>3. lines \in [1..n -> AllLines]
  BY <1>2
<1>4. QED
  BY <1>1, <1>3, FunctionIsSequence

\* The assignments are assignments of a window of two addresses.
LEMMA TwoFlagsType == TwoFlags \subseteq Assignments(1..2)
<1> SUFFICES ASSUME NEW v \in TwoFlags PROVE v \in Assignments(1..2)
  OBVIOUS
<1>0. PICK u1 \in Field, y1 \in Field, z1 \in Field, w1 \in Field, d \in Field,
           u2 \in {0, 1, 2}, y2 \in {0, 2}, z2 \in {0, 3}, w2 \in {0, 1} :
         v = [u |-> <<u1, u2>>, y |-> <<y1, y2>>, z |-> <<z1, z2>>, w |-> <<w1, w2>>, d |-> d]
  BY DEF TwoFlags
<1>1. u2 \in Field /\ y2 \in Field /\ z2 \in Field /\ w2 \in Field
  BY BoundsAssumption, OrderAssumption DEF Field
<1>2. ASSUME NEW a \in Field, NEW b \in Field PROVE <<a, b>> \in [1..2 -> Field]
  OBVIOUS
<1>3. /\ <<u1, u2>> \in [1..2 -> Field] /\ <<y1, y2>> \in [1..2 -> Field]
      /\ <<z1, z2>> \in [1..2 -> Field] /\ <<w1, w2>> \in [1..2 -> Field]
  BY <1>1, <1>2
<1>4. QED
  BY <1>0, <1>3 DEF Assignments

\* The windows of the relation are windows of two addresses.
LEMMA DeltaPairsType == DeltaPairs \subseteq [1..2 -> Int]
<1>1. <<1, -1>> \in [1..2 -> Int] /\ <<-3, 2>> \in [1..2 -> Int]
  OBVIOUS
<1>2. QED
  BY <1>1 DEF DeltaPairs

\* Every input is what it should be.
LEMMA InputsOK == Spec => []InputOK
<1>1. Init => InputOK
  <2> SUFFICES ASSUME Init PROVE InputOK
    OBVIOUS
  <2>1. ASSUME NEW f \in SmallPolys, NEW xs \in PointLists, input = [kind |-> "poly", f |-> f, xs |-> xs]
        PROVE  InputOK
    <3>1. input.kind = "poly" /\ input.f = f /\ input.xs = xs
      BY <2>1
    <3>2. f \in Polys /\ f \in Coeffs
      <4>1. PICK cs \in [1..MaxCoeffs -> Field] : f = Trim(cs)
        BY DEF SmallPolys
      <4>2. QED
        BY <4>1, BoundsAssumption, TrimCoeffs
    <3>3. QED
      BY <3>1, <3>2, PointListsType DEF InputOK
  <2>2. ASSUME NEW v \in TwoFlags, NEW ds \in DeltaPairs,
               input = [kind |-> "relation", v |-> v, delta |-> ds]
        PROVE  InputOK
    <3>1. input.kind = "relation" /\ input.v = v /\ input.delta = ds
      BY <2>2
    <3>2. 1..2 \in SUBSET Address
      BY BoundsAssumption, NAssumption DEF Address
    <3>3. QED
      BY <3>1, <3>2, TwoFlagsType, DeltaPairsType DEF InputOK
  <2>3. ASSUME NEW lines \in LineLists, input = [kind |-> "csv", lines |-> lines]
        PROVE  InputOK
    <3>1. input.kind = "csv" /\ input.lines = lines
      BY <2>3
    <3>2. QED
      BY <3>1, LineListsType DEF InputOK
  <2>4. QED
    BY <2>1, <2>2, <2>3 DEF Init
<1>2. InputOK /\ [Next]_input => InputOK'
  BY DEF InputOK, Next
<1>3. QED
  BY <1>1, <1>2, PTL DEF Spec

-----------------------------------------------------------------------------
(* The properties *)

\* evaluate_on_tree computes the values at the points, whatever the number of
\* points and of coefficients (polynomial.rs: fast_multi_evaluate).
THEOREM EvaluationsCorrect == Spec => []MultiEvaluateIsPointwise
<1>1. InputOK => MultiEvaluateIsPointwise
  BY EvaluationIsPointwise DEF InputOK, MultiEvaluateIsPointwise, ValuesAt
<1>2. QED
  BY <1>1, InputsOK, PTL

\* QueryContext::new reports repeated points and only those; at distinct points
\* interpolate returns the values it was given and leaves a difference that
\* divides (polynomial.rs).
THEOREM InterpolationCorrect == Spec => []InterpolationOpens
<1>1. InputOK => InterpolationOpens
  <2> SUFFICES ASSUME InputOK, input.kind = "poly" PROVE InterpolationOpens
    BY DEF InterpolationOpens
  <2> DEFINE f == input.f
             xs == input.xs
             ys == ValuesAt(f, xs)
             g == Interpolate(xs, ys)
  <2>1. f \in Coeffs /\ xs \in Coeffs
    BY DEF InputOK
  <2>2. InterpolationOpens = /\ LagrangeDefined(xs) = IsInjective(xs)
                             /\ IsInjective(xs) =>
                                   /\ Len(g) <= Len(xs)
                                   /\ ValuesAt(g, xs) = ys
                                   /\ DividesExactly(PolySub(f, g), ProductFromRoots(xs))
    BY DEF InterpolationOpens
  <2> HIDE DEF f, xs
  <2>3. Len(xs) \in Nat /\ DOMAIN xs = 1..Len(xs) /\ \A i \in 1..Len(xs) : xs[i] \in Field
    BY <2>1 DEF Coeffs
  <2>4. ys \in Coeffs /\ Len(ys) = Len(xs) /\ \A i \in 1..Len(xs) : ys[i] = PolyEval(f, xs[i])
    <3>1. \A i \in 1..Len(xs) : PolyEval(f, xs[i]) \in Field
      BY <2>1, <2>3, PolyEvalType
    <3>2. ys = [j \in 1..Len(xs) |-> PolyEval(f, xs[j])]
      BY <2>3 DEF ValuesAt
    <3>3. ys \in [1..Len(xs) -> Field]
      BY <3>1, <3>2
    <3>4. ys \in Coeffs /\ Len(ys) = Len(xs)
      BY <2>3, <3>3, FunctionIsSequence DEF Coeffs
    <3>5. QED
      BY <3>2, <3>4
  <2>5. LagrangeDefined(xs) = IsInjective(xs)
    BY <2>1, DefinedIsDistinct
  <2>6. ASSUME IsInjective(xs)
        PROVE  /\ Len(g) <= Len(xs)
               /\ ValuesAt(g, xs) = ys
               /\ DividesExactly(PolySub(f, g), ProductFromRoots(xs))
    <3> HIDE DEF ys
    <3>1. Len(g) <= Len(xs) /\ \A i \in 1..Len(xs) : PolyEval(g, xs[i]) = ys[i]
      BY <2>1, <2>4, <2>6, InterpolationIsExact
    <3>2. DividesExactly(PolySub(f, g), ProductFromRoots(xs))
      BY <2>1, <2>4, <2>6, InterpolationDivides
    <3> HIDE DEF g
    <3>3. ValuesAt(g, xs) = ValuesAt(f, xs)
      <4>1. \A i \in DOMAIN xs : PolyEval(g, xs[i]) = PolyEval(f, xs[i])
        BY <2>3, <2>4, <3>1
      <4>2. QED
        BY <4>1 DEF ValuesAt
    <3>4. QED
      BY <3>1, <3>2, <3>3 DEF ys
  <2> HIDE DEF g, ys
  <2>7. QED
    BY <2>2, <2>5, <2>6
<1>2. QED
  BY <1>1, InputsOK, PTL

\* The committed constraints say membership, for every prime field in which the
\* inputs are field elements (bp.rs: update_relation).
THEOREM RelationCorrect == Spec => []RelationIsMembership
<1>1. InputOK => RelationIsMembership
  <2> SUFFICES ASSUME InputOK, input.kind = "relation" PROVE RelationIsMembership
    BY DEF RelationIsMembership
  <2>1. PICK As \in SUBSET Address : input.v \in Assignments(As) /\ input.delta \in [As -> Int]
    BY DEF InputOK
  <2>2. UpdateRelation(input.v, input.delta) => MembershipRelation(input.v, input.delta)
    BY <2>1, RelationSound
  <2>3. MembershipRelation(input.v, input.delta) /\ HonestAdvice(input.v, input.delta)
          => UpdateRelation(input.v, input.delta)
    BY <2>1, RelationComplete
  <2>4. QED
    BY <2>2, <2>3 DEF RelationIsMembership
<1>2. QED
  BY <1>1, InputsOK, PTL

\* read_delta_csv merges whatever file it is given into the sums of the
\* accounts' lines (io.rs).
THEOREM ReaderCorrect == Spec => []ReaderMerges
<1>1. InputOK => ReaderMerges
  <2> SUFFICES ASSUME InputOK, input.kind = "csv",
                      NEW d \in ReadDeltas(input.lines), NEW a \in Address
               PROVE  LET sum == AccountSum(input.lines, a)
                      IN /\ OrZero(d)[a] = IF OverflowPanics THEN sum ELSE Wrap(sum)
                         /\ a \in DOMAIN d => d[a] # 0 /\ Normal[a] = a
    BY DEF ReaderMerges
  <2>1. input.lines \in Seq(AllLines)
    BY DEF InputOK
  <2>2. QED
    BY <2>1, ReadIsExact
<1>2. QED
  BY <1>1, InputsOK, PTL
=============================================================================
