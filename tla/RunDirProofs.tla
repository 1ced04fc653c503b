---------------------------- MODULE RunDirProofs ----------------------------
(***************************************************************************)
(* Theorems about module RunDir, for every field, tree, reserve list,      *)
(* window, set of jobs and bound on the processes that die: a run keeps    *)
(* its files, commands are atomic but for a prefix of their writes, what   *)
(* verify and smt-verify accept has been applied, and the files of every   *)
(* command that exited verify together until one of them is written.       *)
(*                                                                         *)
(* The invariant says what is in each file, whoever wrote it and whether   *)
(* or not it was cut short, and where between two files a process is.      *)
(***************************************************************************)
EXTENDS RunDir, FixedSetOpsProofs

\* The facts of SmtProofs about trees: those that mention no state.
Host == INSTANCE SmtProofs WITH
          leaves <- <<>>, layers <- <<>>, total <- 0, held <- {},
          Reserves <- {}, DeltaLists <- {}, InsertBalances <- {},
          MaxBalance <- MaxI128, MaxHeld <- 0

-----------------------------------------------------------------------------
(* The files after some writes, the directories after some commands *)

\* A write replaces the file it names and leaves the others.
Written(files, write) == [files EXCEPT ![write[1]] = write[2]]

\* FilesAfter does write by write.
LEMMA FilesAfterDef ==
    ASSUME NEW files, NEW writes, Len(writes) \in Nat
    PROVE  /\ FilesAfter(files, writes, 0) = files
           /\ \A i \in 1..Len(writes) :
                 FilesAfter(files, writes, i) = Written(FilesAfter(files, writes, i - 1), writes[i])
<1> DEFINE n == Len(writes)
           NextFiles(v, i) == [v EXCEPT ![writes[i][1]] = writes[i][2]]
           Value(s, i) == IF i = 0 THEN files ELSE NextFiles(s[i - 1], i)
           Solves(s, m) == \A i \in 0..m : s[i] = Value(s, i)
           T == {m \in 0..n : \E s : Solves(s, m)}
<1>0. n \in Nat
  OBVIOUS
<1>p. \A k \in 0..Len(writes) :
         FilesAfter(files, writes, k) = (CHOOSE s : s = [i \in 0..n |-> Value(s, i)])[k]
  BY DEF FilesAfter
<1>q. ASSUME NEW p, p[0] = files, \A i \in 1..n : p[i] = NextFiles(p[i - 1], i),
             \A k \in 0..Len(writes) : FilesAfter(files, writes, k) = p[k]
      PROVE  /\ FilesAfter(files, writes, 0) = files
             /\ \A i \in 1..Len(writes) :
                   FilesAfter(files, writes, i) = Written(FilesAfter(files, writes, i - 1), writes[i])
  <2>1. 0 \in 0..n /\ \A i \in 1..n : i \in 0..n /\ i - 1 \in 0..n
    BY <1>0
  <2>2. FilesAfter(files, writes, 0) = p[0]
    BY <1>q, <2>1
  <2>3. ASSUME NEW i \in 1..n
        PROVE  FilesAfter(files, writes, i) = Written(FilesAfter(files, writes, i - 1), writes[i])
    <3>1. FilesAfter(files, writes, i) = p[i] /\ FilesAfter(files, writes, i - 1) = p[i - 1]
      BY <1>q, <2>1
    <3>2. p[i] = [p[i - 1] EXCEPT ![writes[i][1]] = writes[i][2]]
      BY <1>q
    <3>3. QED
      BY <3>1, <3>2 DEF Written
  <2>4. QED
    BY <1>q, <2>2, <2>3
<1> HIDE DEF NextFiles, n
<1>1. 0 \in T
  <2> DEFINE s == [i \in 0..0 |-> files]
  <2>1. Solves(s, 0)
    OBVIOUS
  <2> HIDE DEF s, Solves
  <2>2. \E z : Solves(z, 0)
    BY <2>1
  <2>3. QED
    BY <1>0, <2>2
<1>2. ASSUME NEW m \in 0..(n - 1), m \in T PROVE m + 1 \in T
  <2>1. PICK s : Solves(s, m)
    BY <1>2
  <2> DEFINE t == [i \in 0..(m + 1) |-> IF i = m + 1 THEN NextFiles(s[m], m + 1) ELSE s[i]]
  <2>2. Solves(t, m + 1)
    <3> SUFFICES ASSUME NEW i \in 0..(m + 1) PROVE t[i] = Value(t, i)
      OBVIOUS
    <3>1. CASE i = m + 1
      <4>1. i # 0 /\ i - 1 = m /\ m # m + 1 /\ m \in 0..(m + 1)
        BY <1>0, <3>1
      <4>2. t[i] = NextFiles(s[m], m + 1) /\ t[i - 1] = s[m]
        BY <3>1, <4>1
      <4>3. QED
        BY <3>1, <4>1, <4>2
    <3>2. CASE i \in 0..m
      <4>1. s[i] = Value(s, i)
        BY <2>1, <3>2
      <4>2. t[i] = s[i]
        BY <1>0, <3>2
      <4>3. CASE i = 0
        BY <4>1, <4>2, <4>3
      <4>4. CASE i # 0
        <5>1. t[i - 1] = s[i - 1]
          BY <1>0, <3>2, <4>4
        <5>2. QED
          BY <4>1, <4>2, <4>4, <5>1
      <4>5. QED
        BY <4>3, <4>4
    <3>3. QED
      BY <1>0, <3>1, <3>2
  <2> HIDE DEF t, Solves
  <2>3. \E z : Solves(z, m + 1)
    BY <2>2
  <2>4. QED
    BY <1>0, <2>3
<1>3. 0..n \subseteq T
  <2> HIDE DEF T
  <2>1. QED
    BY <1>0, <1>1, <1>2, UpToInduction
<1>4. PICK s : Solves(s, n)
  <2>1. n \in T
    <3> HIDE DEF T
    <3>1. n \in 0..n
      BY <1>0
    <3>2. QED
      BY <1>3, <3>1
  <2> HIDE DEF Solves
  <2>2. QED
    BY <2>1
<1> DEFINE r == [i \in 0..n |-> s[i]]
<1>5. r = [i \in 0..n |-> Value(r, i)]
  <2>1. ASSUME NEW i \in 0..n PROVE r[i] = Value(r, i)
    <3>1. s[i] = Value(s, i)
      BY <1>4
    <3>2. CASE i = 0
      BY <3>1, <3>2
    <3>3. CASE i # 0
      <4>1. r[i - 1] = s[i - 1]
        BY <1>0, <3>3
      <4>2. QED
        BY <3>1, <3>3, <4>1
    <3>4. QED
      BY <3>2, <3>3
  <2>2. r = [i \in 0..n |-> r[i]]
    OBVIOUS
  <2> HIDE DEF r, Value
  <2>3. QED
    BY <2>1, <2>2
<1> HIDE DEF r
<1> DEFINE p == CHOOSE z : z = [i \in 0..n |-> Value(z, i)]
           step == [i \in 0..n |-> Value(p, i)]
<1>6. p = step
  BY <1>5
<1>7. \A k \in 0..Len(writes) : FilesAfter(files, writes, k) = p[k]
  BY <1>p
<1> HIDE DEF p
<1>a. \A i \in 0..n : step[i] = Value(p, i)
  OBVIOUS
<1> HIDE DEF step, Value
<1>8. step[0] = files
  <2>1. 0 \in 0..n
    BY <1>0
  <2>2. step[0] = Value(p, 0)
    BY <1>a, <2>1
  <2>3. QED
    BY <2>2 DEF Value
<1>9. ASSUME NEW i \in 1..n PROVE step[i] = NextFiles(p[i - 1], i)
  <2>1. i \in 0..n /\ i # 0
    BY <1>0
  <2>2. step[i] = Value(p, i)
    BY <1>a, <2>1
  <2>3. QED
    BY <2>1, <2>2 DEF Value
<1>10. p[0] = files /\ \A i \in 1..n : p[i] = NextFiles(p[i - 1], i)
  BY <1>6, <1>8, <1>9
<1>11. QED
  BY <1>7, <1>10, <1>q

\* The files before any write.
LEMMA FilesAfterNone ==
    ASSUME NEW files, NEW writes, Len(writes) \in Nat
    PROVE  FilesAfter(files, writes, 0) = files
BY FilesAfterDef, ZenonT(30)

\* The files after one more write.
LEMMA FilesAfterNext ==
    ASSUME NEW files, NEW writes, Len(writes) \in Nat, NEW i \in 1..Len(writes)
    PROVE  FilesAfter(files, writes, i) = Written(FilesAfter(files, writes, i - 1), writes[i])
BY FilesAfterDef, ZenonT(30)

\* The directories that a script may leave after each of its commands.
IsHistory(dirs, script, dir) ==
    /\ dirs[0] = {dir}
    /\ \A i \in 1..Len(script) : dirs[i] = After(script[i], dirs[i - 1])

\* Uncrashed goes command by command.
LEMMA UncrashedDef ==
    ASSUME NEW script, NEW dir, Len(script) \in Nat
    PROVE  \E dirs : IsHistory(dirs, script, dir) /\ Uncrashed(script, dir) = dirs[Len(script)]
<1> DEFINE n == Len(script)
           NextDirs(v, i) == After(script[i], v)
           Value(s, i) == IF i = 0 THEN {dir} ELSE NextDirs(s[i - 1], i)
           Solves(s, m) == \A i \in 0..m : s[i] = Value(s, i)
           T == {m \in 0..n : \E s : Solves(s, m)}
<1>0. n \in Nat
  OBVIOUS
<1>p. Uncrashed(script, dir) = (CHOOSE s : s = [i \in 0..n |-> Value(s, i)])[Len(script)]
  BY DEF Uncrashed
<1>q. ASSUME NEW p, p[0] = {dir}, \A i \in 1..n : p[i] = NextDirs(p[i - 1], i),
             Uncrashed(script, dir) = p[Len(script)]
      PROVE  \E dirs : IsHistory(dirs, script, dir) /\ Uncrashed(script, dir) = dirs[Len(script)]
  BY <1>q DEF IsHistory
<1> HIDE DEF NextDirs, n
<1>1. 0 \in T
  <2> DEFINE s == [i \in 0..0 |-> {dir}]
  <2>1. Solves(s, 0)
    OBVIOUS
  <2> HIDE DEF s, Solves
  <2>2. \E z : Solves(z, 0)
    BY <2>1
  <2>3. QED
    BY <1>0, <2>2
<1>2. ASSUME NEW m \in 0..(n - 1), m \in T PROVE m + 1 \in T
  <2>1. PICK s : Solves(s, m)
    BY <1>2
  <2> DEFINE t == [i \in 0..(m + 1) |-> IF i = m + 1 THEN NextDirs(s[m], m + 1) ELSE s[i]]
  <2>2. Solves(t, m + 1)
    <3> SUFFICES ASSUME NEW i \in 0..(m + 1) PROVE t[i] = Value(t, i)
      OBVIOUS
    <3>1. CASE i = m + 1
      <4>1. i # 0 /\ i - 1 = m /\ m # m + 1 /\ m \in 0..(m + 1)
        BY <1>0, <3>1
      <4>2. t[i] = NextDirs(s[m], m + 1) /\ t[i - 1] = s[m]
        BY <3>1, <4>1
      <4>3. QED
        BY <3>1, <4>1, <4>2
    <3>2. CASE i \in 0..m
      <4>1. s[i] = Value(s, i)
        BY <2>1, <3>2
      <4>2. t[i] = s[i]
        BY <1>0, <3>2
      <4>3. CASE i = 0
        BY <4>1, <4>2, <4>3
      <4>4. CASE i # 0
        <5>1. t[i - 1] = s[i - 1]
          BY <1>0, <3>2, <4>4
        <5>2. QED
          BY <4>1, <4>2, <4>4, <5>1
      <4>5. QED
        BY <4>3, <4>4
    <3>3. QED
      BY <1>0, <3>1, <3>2
  <2> HIDE DEF t, Solves
  <2>3. \E z : Solves(z, m + 1)
    BY <2>2
  <2>4. QED
    BY <1>0, <2>3
<1>3. 0..n \subseteq T
  <2> HIDE DEF T
  <2>1. QED
    BY <1>0, <1>1, <1>2, UpToInduction
<1>4. PICK s : Solves(s, n)
  <2>1. n \in T
    <3> HIDE DEF T
    <3>1. n \in 0..n
      BY <1>0
    <3>2. QED
      BY <1>3, <3>1
  <2> HIDE DEF Solves
  <2>2. QED
    BY <2>1
<1> DEFINE r == [i \in 0..n |-> s[i]]
<1>5. r = [i \in 0..n |-> Value(r, i)]
  <2>1. ASSUME NEW i \in 0..n PROVE r[i] = Value(r, i)
    <3>1. s[i] = Value(s, i)
      BY <1>4
    <3>2. CASE i = 0
      BY <3>1, <3>2
    <3>3. CASE i # 0
      <4>1. r[i - 1] = s[i - 1]
        BY <1>0, <3>3
      <4>2. QED
        BY <3>1, <3>3, <4>1
    <3>4. QED
      BY <3>2, <3>3
  <2>2. r = [i \in 0..n |-> r[i]]
    OBVIOUS
  <2> HIDE DEF r, Value
  <2>3. QED
    BY <2>1, <2>2
<1> HIDE DEF r
<1> DEFINE p == CHOOSE z : z = [i \in 0..n |-> Value(z, i)]
           step == [i \in 0..n |-> Value(p, i)]
<1>6. p = step
  BY <1>5
<1>7. Uncrashed(script, dir) = p[Len(script)]
  BY <1>p
<1> HIDE DEF p
<1>a. \A i \in 0..n : step[i] = Value(p, i)
  OBVIOUS
<1> HIDE DEF step, Value
<1>8. step[0] = {dir}
  <2>1. 0 \in 0..n
    BY <1>0
  <2>2. step[0] = Value(p, 0)
    BY <1>a, <2>1
  <2>3. QED
    BY <2>2 DEF Value
<1>9. ASSUME NEW i \in 1..n PROVE step[i] = NextDirs(p[i - 1], i)
  <2>1. i \in 0..n /\ i # 0
    BY <1>0
  <2>2. step[i] = Value(p, i)
    BY <1>a, <2>1
  <2>3. QED
    BY <2>1, <2>2 DEF Value
<1>10. p[0] = {dir} /\ \A i \in 1..n : p[i] = NextDirs(p[i - 1], i)
  BY <1>6, <1>8, <1>9
<1>11. QED
  BY <1>7, <1>10, <1>q

-----------------------------------------------------------------------------
(* What a command writes *)

\* The proof goes where the command line says, given or derived.
LEMMA ProofPathGiven ==
    ASSUME NEW c, IsCommand(c), IsUpdate(c) \/ IsSmtChange(c) PROVE ProofPathOf(c) = c.proof
<1> QED BY DEF IsCommand, ProofPathOf, Companion

\* The writes of an outcome: those before reading, then those of a success.
LEMMA OutcomeParts ==
    ASSUME NEW c, NEW files, NEW o \in Outcomes(c, files)
    PROVE  /\ o.ok = (Writes(c, files) # {})
           /\ Writes(c, files) = {} => o.writes = FirstWrites(c, files) \o <<>>
           /\ Writes(c, files) # {} =>
                 \E w \in Writes(c, files) : o.writes = FirstWrites(c, files) \o w
<1> DEFINE W == Writes(c, files)
           chosen == CHOOSE w \in W : TRUE
           result == [ok |-> W # {},
                      writes |-> FirstWrites(c, files) \o IF W = {} THEN <<>> ELSE chosen]
<1>1. o = result
  BY DEF Outcomes
<1>2. W # {} => chosen \in W
  OBVIOUS
<1> HIDE DEF W, chosen
<1>3. /\ result.ok = (W # {})
      /\ result.writes = FirstWrites(c, files) \o IF W = {} THEN <<>> ELSE chosen
  OBVIOUS
<1> HIDE DEF result
<1>4. CASE W = {}
  BY <1>1, <1>3, <1>4 DEF W
<1>5. CASE W # {}
  BY <1>1, <1>2, <1>3, <1>5 DEF W
<1>6. QED
  BY <1>4, <1>5

\* The sequences that occur: none, one or two writes.
LEMMA ShortSequences ==
    ASSUME NEW x, NEW y
    PROVE  /\ <<>> \o <<>> = <<>> /\ <<>> \o <<x>> = <<x>> /\ <<>> \o <<x, y>> = <<x, y>>
           /\ <<x>> \o <<>> = <<x>> /\ <<x>> \o <<y>> = <<x, y>>
<1> DEFINE S == {x, y}
<1>1. <<>> \in Seq(S) /\ <<x>> \in Seq(S) /\ <<y>> \in Seq(S) /\ <<x, y>> \in Seq(S)
  OBVIOUS
<1>2. \A s \in Seq(S) : <<>> \o s = s /\ s \o <<>> = s
  OBVIOUS
<1>3. <<x>> \o <<y>> = <<x, y>>
  <2> DEFINE a == <<x>>
             b == <<y>>
             d == <<x, y>>
  <2>1. Len(a) = 1 /\ Len(b) = 1 /\ a[1] = x /\ b[1] = y /\ Len(d) = 2 /\ d[1] = x /\ d[2] = y
    OBVIOUS
  <2>2. a \in Seq(S) /\ b \in Seq(S) /\ d \in Seq(S)
    BY <1>1
  <2> HIDE DEF a, b, d, S
  <2> DEFINE e == a \o b
  <2>3. e \in Seq(S) /\ Len(e) = 2 /\ \A i \in 1..2 : e[i] = IF i <= 1 THEN a[i] ELSE b[i - 1]
    BY <2>1, <2>2, ConcatProperties
  <2> HIDE DEF e
  <2>4. e[1] = a[1] /\ e[2] = b[1]
    <3>1. 1 \in 1..2 /\ 1 <= 1
      OBVIOUS
    <3>2. 2 \in 1..2 /\ ~(2 <= 1) /\ 2 - 1 = 1
      OBVIOUS
    <3>3. QED
      BY <2>3, <3>1, <3>2
  <2>5. e = d
    BY <2>1, <2>2, <2>3, <2>4
  <2>6. QED
    BY <2>5 DEF a, b, d, e
<1>4. QED
  BY <1>1, <1>2, <1>3

\* The files of an update and of an SMT operation.
UpdateWrites(c, s, p) ==
    << <<c.to, StateFile(NextState(s, p))>>, <<c.proof, ProofFile(p)>> >>
SmtWrites(c, state, p) ==
    << <<c.to, SmtStateFile(state)>>, <<c.proof, SmtProofFile(p)>> >>

\* What a command that succeeds writes.
Initialized(c, w) ==
    \E powers : /\ Initializes(c.reserves, c.label, powers) /\ powers.degree \in Nat
                /\ w = << <<c.to, StateFile(InitialState(c.reserves, c.label, powers))>> >>
Updated(c, files, w) ==
    LET s == files[c.from].value
        p == UpdateProof(s, c.window, c.label)
    IN /\ files[c.from].kind = "state"
       /\ ReadsSrsPrefix(files[Srs], Len(s.poly), Cardinality(DOMAIN c.window) + 1)
       /\ Applies(s, c.window, PrefixForUpdate(files[Srs].degree, s, c.window))
       /\ w = UpdateWrites(c, s, p)
SmtInitialized(c, w) ==
    /\ ~SmtNewPanics(SmtInitialLeaves(c.reserves))
    /\ w = << <<c.to, SmtStateFile(SmtInitial(c.reserves, c.label))>> >>
SmtChanged(c, files, w) ==
    \E s \in SmtLoaded(files[c.from]) :
        \E witness \in WitnessFor(c, s) :
            \E result \in Proved(s, witness, c.label, <<witness.op, c.label>>) :
                w = SmtWrites(c, result.state, result.proof)

\* A success of init or prepare-run writes an initial state.
LEMMA InitWrites ==
    ASSUME NEW c, NEW srs, srs.kind = "srs" => srs.degree \in Nat, NEW w \in FixedInit(c, srs)
    PROVE  Initialized(c, w)
<1>1. PICK powers \in {p \in {WholeSrs(srs.degree) : f \in {g \in {srs} : ReadsSrs(g)}} :
                          Initializes(c.reserves, c.label, p)} :
         w = << <<c.to, StateFile(InitialState(c.reserves, c.label, powers))>> >>
  BY DEF FixedInit
<1>2. ReadsSrs(srs) /\ powers = WholeSrs(srs.degree)
  BY <1>1
<1>3. powers.degree = srs.degree
  BY <1>2 DEF WholeSrs
<1>4. QED
  BY <1>1, <1>2, <1>3 DEF Initialized, ReadsSrs

\* A success of an update writes the next state, then the proof.
LEMMA UpdateWritesBoth ==
    ASSUME NEW c, IsCommand(c), IsUpdate(c), NEW files, NEW w \in Update(c, ProofPathOf(c), files)
    PROVE  Updated(c, files, w)
<1>1. ProofPathOf(c) = c.proof
  BY ProofPathGiven
<1>2. QED
  BY <1>1 DEF Update, Updated, UpdateWrites

\* A success of smt-init writes an initial SMT state.
LEMMA SmtInitWrites ==
    ASSUME NEW c, NEW w \in SmtInit(c) PROVE SmtInitialized(c, w)
<1> QED BY DEF SmtInit, SmtInitialized

\* A success of an SMT operation writes what was proved, state first.
LEMMA SmtChangeWrites ==
    ASSUME NEW c, IsCommand(c), IsSmtChange(c), NEW files, NEW w \in SmtChange(c, ProofPathOf(c), files)
    PROVE  SmtChanged(c, files, w)
<1>1. ProofPathOf(c) = c.proof
  BY ProofPathGiven
<1> DEFINE Pairs(s, v) == { << <<c.to, SmtStateFile(result.state)>>, <<c.proof, SmtProofFile(result.proof)>> >> :
                             result \in Proved(s, v, c.label, <<v.op, c.label>>) }
<1>2. SmtChange(c, ProofPathOf(c), files)
         = UNION { UNION { Pairs(s, v) : v \in WitnessFor(c, s) } : s \in SmtLoaded(files[c.from]) }
  BY <1>1 DEF SmtChange
<1>3. PICK s \in SmtLoaded(files[c.from]) : \E v \in WitnessFor(c, s) : w \in Pairs(s, v)
  <2> HIDE DEF Pairs
  <2>1. QED
    BY <1>2
<1>4. QED
  BY <1>3 DEF SmtChanged, SmtWrites

-----------------------------------------------------------------------------
(* The library at a state, and at none *)

\* What SmtProofs assumes holds here.
LEMMA HostFacts ==
    /\ N \in Nat /\ MaxI128 \in Nat /\ OverflowPanics \in BOOLEAN
    /\ Depth \in Nat /\ KeyBits \in Nat /\ IndexBits \in Nat /\ Depth <= KeyBits
    /\ FieldModulus \in Nat \ {0} /\ WordModulus \in Nat /\ FieldModulus <= WordModulus
    /\ Normal \in [Host!Address -> Host!Address]
    /\ \A a \in Host!Address : Normal[Normal[a]] = Normal[a]
    /\ Words \in [Host!Address -> Seq(0..(WordModulus - 1))]
    /\ \A a, b \in Host!Address : Words[Normal[a]] = Words[Normal[b]] => Normal[a] = Normal[b]
    /\ \A a \in Host!Address : KeyHash[Host!KeyInput(a)] \in [1..KeyBits -> {0, 1}]
    /\ \A a, b \in Host!Address : Host!KeyOf(a) = Host!KeyOf(b) => Host!KeyInput(a) = Host!KeyInput(b)
    /\ Host!Address = Address
<1>1. Host!Address = Address
  BY DEF Host!Address, Address
<1>2. \A a : Host!KeyInput(a) = Tree!KeyInput(a) /\ Host!KeyOf(a) = Tree!KeyOf(a)
  BY DEF Host!KeyInput, Host!KeyOf, Tree!KeyInput, Tree!KeyOf
<1>3. /\ \A a \in Host!Address : KeyHash[Host!KeyInput(a)] \in [1..KeyBits -> {0, 1}]
      /\ \A a, b \in Host!Address :
            Host!KeyOf(a) = Host!KeyOf(b) => Host!KeyInput(a) = Host!KeyInput(b)
  BY <1>1, <1>2, KeysAssumption
<1>4. QED
  BY <1>1, <1>3, NAssumption, WidthAssumption, TreeAssumption, NamesAssumption

\* What an instance defines depends on its state only where it names the state: what the
\* library checks of a proof, a root, the tree built and upserted, and the proofs it hands
\* out are the same at every state.
LEMMA SameNonMembership ==
    ASSUME NEW s, NEW root, NEW a, NEW p
    PROVE  Lib(s)!NonMembershipVerifies(root, a, p) = Host!NonMembershipVerifies(root, a, p)
<1> QED
  BY DEF Lib!NonMembershipVerifies, Lib!DefaultVerifies, Lib!CollisionVerifies,
         Lib!CommonPrefixLen, Lib!Largest, Lib!MembershipVerifies, Lib!FoldUp, Lib!KeyBit,
         Lib!DefaultHash, Lib!InternalHash, Lib!LeafHash, Lib!BalanceWords, Lib!KeyOf, Lib!KeyInput,
         Host!NonMembershipVerifies, Host!DefaultVerifies, Host!CollisionVerifies,
         Host!CommonPrefixLen, Host!Largest, Host!MembershipVerifies, Host!FoldUp,
         Host!KeyBit, Host!DefaultHash, Host!InternalHash, Host!LeafHash, Host!BalanceWords,
         Host!KeyOf, Host!KeyInput

\* The root of given layers.
LEMMA SameRoot ==
    ASSUME NEW s, NEW ly
    PROVE  Tree!Root(ly) = Host!Root(ly) /\ Lib(s)!Root(ly) = Host!Root(ly)
<1> QED
  BY DEF Tree!Root, Tree!NodeAt, Tree!DefaultHash, Tree!InternalHash, Lib!Root, Lib!NodeAt,
         Lib!DefaultHash, Lib!InternalHash, Host!Root, Host!NodeAt, Host!DefaultHash,
         Host!InternalHash

\* The layers of given leaves.
LEMMA SameLayers ==
    ASSUME NEW lv
    PROVE  Tree!ComputeLayers(lv) = Host!ComputeLayers(lv)
<1> QED
  BY DEF Tree!ComputeLayers, Tree!LeafLayer, Tree!ParentLayer, Tree!LeafIndex,
         Tree!HashOfLeaf, Tree!Largest, Tree!PrefixIndex, Tree!KeyBit, Tree!IndexLimit,
         Tree!Pow2, Tree!DefaultHash, Tree!InternalHash, Tree!LeafHash, Tree!BalanceWords,
         Tree!KeyOf, Tree!KeyInput, Host!ComputeLayers, Host!LeafLayer, Host!ParentLayer, Host!LeafIndex,
         Host!HashOfLeaf, Host!Largest, Host!PrefixIndex, Host!KeyBit, Host!IndexLimit,
         Host!Pow2, Host!DefaultHash, Host!InternalHash, Host!LeafHash, Host!BalanceWords,
         Host!KeyOf, Host!KeyInput

\* The layers after the leaves of W were upserted.
LEMMA SameUpserts ==
    ASSUME NEW s, NEW ly, NEW lv, NEW W
    PROVE  Lib(s)!UpsertAll(ly, lv, W) = Host!UpsertAll(ly, lv, W)
<1> QED
  BY DEF Lib!UpsertAll, Lib!UpsertLayers, Lib!NodeAt, Lib!SiblingIndex, Lib!Put,
         Lib!HashOfLeaf, Lib!PathIndex, Lib!PrefixIndex, Lib!KeyBit, Lib!IndexLimit,
         Lib!Pow2, Lib!DefaultHash, Lib!InternalHash, Lib!LeafHash, Lib!BalanceWords,
         Lib!KeyOf, Lib!KeyInput, Host!UpsertAll, Host!UpsertLayers, Host!NodeAt, Host!SiblingIndex,
         Host!Put, Host!HashOfLeaf, Host!PathIndex, Host!PrefixIndex, Host!KeyBit,
         Host!IndexLimit, Host!Pow2, Host!DefaultHash, Host!InternalHash, Host!LeafHash,
         Host!BalanceWords, Host!KeyOf, Host!KeyInput

\* The proof that is handed out for an address.
LEMMA SameProofFor ==
    ASSUME NEW s, NEW lv, NEW ly, NEW a
    PROVE  Lib(s)!ProofFor(lv, ly, a) = Host!ProofFor(lv, ly, a)
<1>1. ASSUME NEW k1, NEW k2
      PROVE  Lib(s)!CommonPrefixLen(k1, k2) = Host!CommonPrefixLen(k1, k2)
  BY DEF Lib!CommonPrefixLen, Lib!KeyBit, Lib!Largest,
         Host!CommonPrefixLen, Host!KeyBit, Host!Largest
<1>2. ASSUME NEW l, NEW i PROVE Lib(s)!NodeAt(ly, l, i) = Host!NodeAt(ly, l, i)
  BY DEF Lib!NodeAt, Lib!DefaultHash, Lib!InternalHash,
         Host!NodeAt, Host!DefaultHash, Host!InternalHash
<1>3. ASSUME NEW key, NEW len PROVE Lib(s)!PathIndex(key, len) = Host!PathIndex(key, len)
  BY DEF Lib!PathIndex, Lib!PrefixIndex, Lib!KeyBit, Lib!IndexLimit, Lib!Pow2,
         Host!PathIndex, Host!PrefixIndex, Host!KeyBit, Host!IndexLimit, Host!Pow2
<1>4. ASSUME NEW i PROVE Lib(s)!SiblingIndex(i) = Host!SiblingIndex(i)
  BY DEF Lib!SiblingIndex, Host!SiblingIndex
<1>5. ASSUME NEW key
      PROVE  Lib(s)!MembershipSiblings(ly, key) = Host!MembershipSiblings(ly, key)
  BY <1>2, <1>3, <1>4 DEF Lib!MembershipSiblings, Host!MembershipSiblings
<1>6. ASSUME NEW key, NEW d
      PROVE  Lib(s)!DefaultSiblings(ly, key, d) = Host!DefaultSiblings(ly, key, d)
  BY <1>2, <1>3, <1>4 DEF Lib!DefaultSiblings, Host!DefaultSiblings
<1>7. ASSUME NEW b PROVE Lib(s)!KeyOf(b) = Host!KeyOf(b)
  BY DEF Lib!KeyOf, Lib!KeyInput, Host!KeyOf, Host!KeyInput
<1>8. ASSUME NEW key PROVE Lib(s)!SharesPath(lv, key) = Host!SharesPath(lv, key)
  BY <1>1, <1>7 DEF Lib!SharesPath, Host!SharesPath
<1>9. ASSUME NEW S
      PROVE  Lib(s)!Smallest(S) = Host!Smallest(S) /\ Lib(s)!Largest(S) = Host!Largest(S)
  BY DEF Lib!Smallest, Lib!Largest, Host!Smallest, Host!Largest
<1>10. ASSUME NEW key
       PROVE  Lib(s)!DefaultSubtreeDepth(lv, key) = Host!DefaultSubtreeDepth(lv, key)
  <2>1. {Lib(s)!CommonPrefixLen(Lib(s)!KeyOf(b), key) : b \in DOMAIN lv}
           = {Host!CommonPrefixLen(Host!KeyOf(b), key) : b \in DOMAIN lv}
    BY <1>1, <1>7
  <2>2. QED
    BY <1>9, <2>1 DEF Lib!DefaultSubtreeDepth, Host!DefaultSubtreeDepth
<1>11. QED
  BY <1>5, <1>6, <1>7, <1>8, <1>9, <1>10 DEF Lib!ProofFor, Lib!MembershipProof,
     Host!ProofFor, Host!MembershipProof

\* Keys and slots of addresses.
LEMMA SameLeafIndex ==
    ASSUME NEW a PROVE Tree!LeafIndex(a) = Host!LeafIndex(a) /\ Tree!KeyOf(a) = Host!KeyOf(a)
<1> QED BY DEF Tree!LeafIndex, Tree!PrefixIndex, Tree!KeyBit, Tree!IndexLimit, Tree!Pow2, Tree!KeyOf, Tree!KeyInput,
               Host!LeafIndex, Host!PrefixIndex, Host!KeyBit, Host!IndexLimit, Host!Pow2, Host!KeyOf, Host!KeyInput

\* Sums and wrapping.
LEMMA LibArithmetic ==
    ASSUME NEW s, NEW f
    PROVE  /\ Lib(s)!Total(f) = Total(f) /\ Lib(s)!OrZero(f) = OrZero(f)
           /\ Lib(s)!SumFits(f) = SumFits(f)
           /\ Lib(s)!Wrap(f) = Wrap(f) /\ Lib(s)!InI128(f) = InI128(f)
<1>1. Lib(s)!Total(f) = Total(f)
  BY DEF Lib!Total, Lib!PartialSums, Total, PartialSums
<1>2. Lib(s)!OrZero(f) = OrZero(f)
  BY DEF Lib!OrZero, Lib!Address, OrZero, Address
<1>3. Lib(s)!SumFits(f) = SumFits(f)
  BY DEF Lib!SumFits, Lib!PartialSums, Lib!InI128, SumFits, PartialSums, InI128
<1>4. Lib(s)!Wrap(f) = Wrap(f) /\ Lib(s)!InI128(f) = InI128(f)
  BY DEF Lib!Wrap, Lib!InI128, Wrap, InI128
<1>5. QED
  BY <1>1, <1>2, <1>3, <1>4

-----------------------------------------------------------------------------
(* States and witnesses of the SMT route *)

\* The tree is chosen so that an index holds a whole path, at most 128 levels, and
\* no two keys share one.
NoPathClash ==
    \A a, b \in Address : Tree!KeyOf(a) # Tree!KeyOf(b) => Tree!LeafIndex(a) # Tree!LeafIndex(b)
TreeFits == Depth <= IndexBits /\ NoPathClash

\* A reserve list names each account once, no two reserves are one to key_hash, and no
\* reserve is negative.
DistinctReserves ==
    \A r \in Reserves : \A a, b \in DOMAIN r : Tree!KeyOf(a) = Tree!KeyOf(b) => a = b
ReservesNotNegative == \A r \in Reserves : \A a \in DOMAIN r : r[a] >= 0

\* With these a state's file loads as the state (SmtProofs shows that of the library).
StatesReload ==
    TreeFits /\ DistinctReserves /\ (OverflowPanics => ReservesNotNegative)

\* What SmtProofs asks of a tree is what TreeFits says.
LEMMA HostTreeFits ==
    ASSUME TreeFits PROVE Host!IndexFits /\ Host!NoPathClash
<1>1. Host!IndexFits
  BY DEF TreeFits, Host!IndexFits
<1>2. Host!NoPathClash
  BY SameLeafIndex, HostFacts DEF TreeFits, NoPathClash, Host!NoPathClash
<1>3. QED
  BY <1>1, <1>2

\* The balances of some leaves.
BalancesOf(lv) == [a \in DOMAIN lv |-> lv[a].balance]

\* Leaves that a history of loads, updates and insertions can end with.
LeavesOK(lv) ==
    /\ DOMAIN lv \subseteq Address
    /\ \A a \in DOMAIN lv : lv[a].balance \in Int
    /\ DistinctReserves => \A a, b \in DOMAIN lv : Tree!KeyOf(a) = Tree!KeyOf(b) => a = b
    /\ ReservesNotNegative => \A a \in DOMAIN lv : lv[a].balance >= 0

\* A state as it is loaded.
IsLoaded(s) ==
    /\ LeavesOK(s.leaves)
    /\ s.layers = Host!ComputeLayers(s.leaves)
    /\ s.total = Wrap(Total(OrZero(BalancesOf(s.leaves))))
    /\ OverflowPanics => SumFits(OrZero(BalancesOf(s.leaves)))

\* A witness that was built for some state: its proofs were handed out by proof_for.
ProofTyped(p) ==
    /\ p.kind = "default" => p.depth \in Nat
    /\ p.kind = "collision" => p.address \in Address
WitnessOK(w) ==
    \/ /\ w.op = "update" /\ w.delta \in Windows
       /\ \A a \in DOMAIN w.delta : ProofTyped(w.proof[a])
    \/ /\ w.op = "insert" /\ w.address \in Address /\ w.balance \in Int
       /\ ProofTyped(w.proof)

\* The accounts that an update moves by its own proofs, and by how much.
Members(w) == {a \in DOMAIN w.delta : w.proof[a].kind = "member"}
MemberDeltas(w) == [a \in Members(w) |-> w.delta[a]]

\* A witness of a proof that was made: the guest summed its deltas without overflow.
Summed(w) == WitnessOK(w) /\ (w.op = "update" => SumFits(OrZero(MemberDeltas(w))))

\* Extended by zero, they are integers.
LEMMA BalancesAreInt ==
    ASSUME NEW lv, LeavesOK(lv) PROVE OrZero(BalancesOf(lv)) \in [Address -> Int]
<1>1. DOMAIN lv \in SUBSET Address /\ BalancesOf(lv) \in [DOMAIN lv -> Int]
  BY DEF LeavesOK, BalancesOf
<1>2. QED
  BY <1>1, OrZeroType

\* So are the deltas of a witness.
LEMMA MemberDeltasAreInt ==
    ASSUME NEW w, WitnessOK(w), w.op = "update"
    PROVE  /\ DOMAIN w.delta \subseteq Address /\ \A a \in DOMAIN w.delta : w.delta[a] \in Int
           /\ Members(w) \in SUBSET Address /\ OrZero(MemberDeltas(w)) \in [Address -> Int]
           /\ Total(OrZero(MemberDeltas(w))) \in Int
<1>1. w.delta \in Windows
  BY DEF WitnessOK
<1>2. DOMAIN w.delta \subseteq Address /\ \A a \in DOMAIN w.delta : w.delta[a] \in Int
  BY <1>1, ListAssumption
<1>3. Members(w) \in SUBSET Address /\ MemberDeltas(w) \in [Members(w) -> Int]
  BY <1>2 DEF Members, MemberDeltas
<1>4. OrZero(MemberDeltas(w)) \in [Address -> Int]
  BY <1>3, OrZeroType
<1>5. QED
  BY <1>2, <1>3, <1>4, TotalType

\* What the library's names for these are at a state.
LEMMA LibNames ==
    ASSUME NEW s, NEW w
    PROVE  /\ Lib(s)!MemberEntries(w) = Members(w)
           /\ Lib(s)!MemberDelta(w) = MemberDeltas(w)
           /\ Lib(s)!Aggregate(w) = Wrap(Total(OrZero(MemberDeltas(w))))
<1>1. Lib(s)!MemberEntries(w) = Members(w)
  BY DEF Lib!MemberEntries, Members
<1>2. Lib(s)!MemberDelta(w) = MemberDeltas(w)
  BY <1>1 DEF Lib!MemberDelta, MemberDeltas
<1>3. Lib(s)!Aggregate(w) = Lib(s)!Wrap(Lib(s)!Total(Lib(s)!OrZero(Lib(s)!MemberDelta(w))))
  BY DEF Lib!Aggregate
<1>4. QED
  BY <1>1, <1>2, <1>3, LibArithmetic

\* A reserve list and a stored list of leaves load as such a state.
LEMMA InitialIsLoaded ==
    ASSUME NEW r \in Reserves, NEW label
    PROVE  LeavesOK(SmtInitialLeaves(r))
<1>1. DOMAIN r \subseteq Address /\ \A a \in DOMAIN r : r[a] \in Int
  BY ListAssumption
<1>2. /\ DOMAIN SmtInitialLeaves(r) = DOMAIN r
      /\ \A a \in DOMAIN r : SmtInitialLeaves(r)[a].balance = r[a]
  BY DEF SmtInitialLeaves
<1>3. QED
  BY <1>1, <1>2 DEF LeavesOK, DistinctReserves, ReservesNotNegative

\* A stored state that loads is a loaded state, and the one that was stored.
LEMMA LoadedState ==
    ASSUME NEW stored, LeavesOK(stored.leaves), NEW s \in Loaded(stored)
    PROVE  /\ IsLoaded(s) /\ ToStored(s) = stored
           /\ s.leaves = stored.leaves /\ s.total = stored.commitment[1]
<1>1. s = SmtNew(stored.label, stored.leaves, stored.commitment[2])
      /\ ~SmtNewPanics(stored.leaves) /\ ToStored(s) = stored
  BY DEF Loaded
<1>2. /\ s.leaves = stored.leaves /\ s.layers = Tree!ComputeLayers(stored.leaves)
      /\ s.total = Wrap(Total(OrZero(BalancesOf(stored.leaves))))
  BY <1>1 DEF SmtNew, BalancesOf
<1>3. OverflowPanics => SumFits(OrZero(BalancesOf(stored.leaves)))
  BY <1>1 DEF SmtNewPanics, BalancesOf
<1>4. IsLoaded(s)
  BY <1>2, <1>3, SameLayers DEF IsLoaded
<1>5. stored.commitment[1] = s.total
  BY <1>1 DEF ToStored
<1>6. QED
  BY <1>1, <1>2, <1>4, <1>5

\* What proof_for hands out names a depth or an address.
LEMMA ProofForTyped ==
    ASSUME TreeFits, NEW s, IsLoaded(s), NEW a \in Address
    PROVE  ProofTyped(Lib(s)!ProofFor(s.leaves, s.layers, a))
<1> DEFINE lv == s.leaves
           p == Host!ProofFor(lv, s.layers, a)
           S == Host!SharesPath(lv, Host!KeyOf(a))
<1>1. Lib(s)!ProofFor(s.leaves, s.layers, a) = p
  BY SameProofFor
<1>2. DOMAIN lv \subseteq Address /\ Address \subseteq Nat
  BY DEF IsLoaded, LeavesOK, Address
<1>3. CASE a \in DOMAIN lv
  <2>1. p.kind = "member"
    BY <1>3 DEF Host!ProofFor, Host!MembershipProof
  <2>2. QED
    BY <1>1, <2>1 DEF ProofTyped
<1>4. CASE a \notin DOMAIN lv /\ S # {}
  <2>1. p.kind = "collision" /\ p.address = Host!Smallest(S)
    BY <1>4 DEF Host!ProofFor
  <2>2. S \in SUBSET Nat /\ S \subseteq DOMAIN lv
    BY <1>2 DEF Host!SharesPath
  <2> HIDE DEF S, p
  <2>3. Host!Smallest(S) \in S
    BY <1>4, <2>2, HostFacts, Host!SmallestExists
  <2>4. QED
    BY <1>1, <1>2, <2>1, <2>2, <2>3 DEF ProofTyped
<1>5. CASE a \notin DOMAIN lv /\ S = {}
  <2>1. p.kind = "default" /\ p.depth = Host!DefaultSubtreeDepth(lv, Host!KeyOf(a))
    BY <1>5 DEF Host!ProofFor
  <2>2. Host!KeyOf(a) \in Host!Keys /\ Host!IndexFits
    BY HostFacts, Host!KeyType, HostTreeFits
  <2> HIDE DEF p
  <2>3. Host!DefaultSubtreeDepth(lv, Host!KeyOf(a)) \in 0..Depth
    BY <1>2, <1>5, <2>2, HostFacts, Host!DefaultDepth
  <2>4. p.depth \in Nat
    BY <2>1, <2>3, HostFacts
  <2>5. QED
    BY <1>1, <2>1, <2>4 DEF ProofTyped
<1>6. QED
  BY <1>3, <1>4, <1>5

\* So the witnesses of a command are witnesses.
LEMMA WitnessBuilt ==
    ASSUME TreeFits, NEW c, IsCommand(c), IsSmtChange(c), NEW s, IsLoaded(s), NEW w \in WitnessFor(c, s)
    PROVE  /\ WitnessOK(w)
           /\ w.op = IF c.cmd = "smt-insert" THEN "insert" ELSE "update"
<1>1. CASE c.cmd # "smt-insert"
  <2>1. w = Lib(s)!UpdateWitness(c.window)
    BY <1>1 DEF WitnessFor
  <2>2. /\ w.op = "update" /\ w.delta = c.window
        /\ \A a \in DOMAIN c.window : w.proof[a] = Lib(s)!ProofFor(s.leaves, s.layers, a)
    BY <2>1 DEF Lib!UpdateWitness
  <2>3. c.window \in Windows /\ DOMAIN c.window \subseteq Address
    BY <1>1, ListAssumption DEF IsCommand, IsSmtChange
  <2>4. QED
    BY <1>1, <2>2, <2>3, ProofForTyped DEF WitnessOK
<1>2. CASE c.cmd = "smt-insert"
  <2>1. w = Lib(s)!InsertWitness(c.address, c.balance)
    BY <1>2 DEF WitnessFor
  <2>2. /\ w.op = "insert" /\ w.address = c.address /\ w.balance = c.balance
        /\ w.proof = Lib(s)!ProofFor(s.leaves, s.layers, c.address)
    BY <2>1 DEF Lib!InsertWitness
  <2>3. c.address \in Address /\ c.balance \in Int
    BY <1>2 DEF IsCommand
  <2>4. QED
    BY <1>2, <2>2, <2>3, ProofForTyped DEF WitnessOK
<1>3. QED
  BY <1>1, <1>2

\* A non-membership proof is accepted only of an account without a leaf.
LEMMA AcceptedMeansAbsent ==
    ASSUME TreeFits, NEW s, IsLoaded(s), NEW a \in Address, NEW p, ProofTyped(p),
           Lib(s)!NonMembershipVerifies(Lib(s)!Root(s.layers), a, p), NEW b \in DOMAIN s.leaves
    PROVE  Tree!KeyOf(b) # Tree!KeyOf(a)
<1> DEFINE lv == s.leaves
           ly == s.layers
<1>1. DOMAIN lv \subseteq Address /\ ly = Host!ComputeLayers(lv)
  BY DEF IsLoaded, LeavesOK
<1>2. Host!IndexFits /\ Host!NoPathClash
  BY HostTreeFits
<1>3. Host!TreeOK(ly) /\ Host!SlotsOK(ly, lv)
  BY <1>1, <1>2, HostFacts, Host!ComputedTree, Host!ComputedSlots
<1>4. Host!NonMembershipVerifies(Host!Root(ly), a, p)
  BY SameNonMembership, SameRoot
<1> HIDE DEF lv, ly
<1>5. CASE p.kind = "default" /\ Host!DefaultVerifies(Host!Root(ly), Host!KeyOf(a), p)
  <2>1. p.depth \in Nat
    BY <1>5 DEF ProofTyped
  <2>2. Host!LeafIndex(b) # Host!LeafIndex(a)
    BY <1>2, <1>3, <1>5, <2>1, HostFacts, Host!DefaultIsEmptySlot DEF lv
  <2>3. Host!KeyOf(b) # Host!KeyOf(a)
    BY <2>2 DEF Host!LeafIndex
  <2>4. QED
    BY <2>3, SameLeafIndex
<1>6. CASE p.kind = "collision" /\ Host!CollisionVerifies(Host!Root(ly), Host!KeyOf(a), p)
  <2>1. p.address \in Address
    BY <1>6 DEF ProofTyped
  <2>2. Host!KeyOf(p.address) # Host!KeyOf(a) /\ Host!LeafIndex(p.address) = Host!LeafIndex(a)
    BY <1>2, <1>3, <1>6, <2>1, HostFacts, Host!CollisionIsSlot
  <2>3. QED
    BY <1>2, <2>1, <2>2, HostFacts DEF Host!NoPathClash
<1>7. QED
  BY <1>4, <1>5, <1>6 DEF Host!NonMembershipVerifies

\* What a replay that succeeds has checked of its witness.
LEMMA ReplayChecks ==
    ASSUME NEW s, NEW w, Replays(s, w)
    PROVE  /\ InI128(s.total + Moves(s, w))
           /\ w.op = "update" \/ w.op = "insert"
           /\ w.op = "update" =>
                 /\ \A a \in DOMAIN w.delta :
                       \/ w.proof[a].kind = "member" /\ a \in DOMAIN s.leaves
                       \/ Lib(s)!NonMembershipVerifies(Lib(s)!Root(s.layers), a, w.proof[a])
                 /\ \A a \in Members(w) : s.leaves[a].balance + w.delta[a] >= 0
                 /\ \A a \in DOMAIN w.delta :
                       Lib(s)!AddressProofVerifies(s.leaves, s.layers, a, w.proof[a])
                 /\ OverflowPanics => SumFits(OrZero(MemberDeltas(w)))
           /\ w.op = "insert" =>
                 /\ w.address \notin DOMAIN s.leaves /\ w.balance >= 0
                 /\ Lib(s)!NonMembershipVerifies(Lib(s)!Root(s.layers), w.address, w.proof)
<1>1. InI128(s.total + Moves(s, w)) /\ (w.op = "update" \/ w.op = "insert")
  BY DEF Replays
<1>2. ASSUME w.op = "update"
      PROVE  /\ \A a \in DOMAIN w.delta :
                   Lib(s)!AddressProofVerifies(s.leaves, s.layers, a, w.proof[a])
             /\ \A a \in Members(w) : s.leaves[a].balance + w.delta[a] >= 0
             /\ OverflowPanics => SumFits(OrZero(MemberDeltas(w)))
  <2>1. Lib(s)!UpdateVerifies(w) /\ Lib(s)!UpdateDoesNotPanic(w)
    BY <1>2 DEF Replays
  <2>2. OverflowPanics => Lib(s)!SumFits(Lib(s)!OrZero(Lib(s)!MemberDelta(w)))
    BY <2>1 DEF Lib!UpdateDoesNotPanic
  <2>3. /\ \A a \in DOMAIN w.delta :
              Lib(s)!AddressProofVerifies(s.leaves, s.layers, a, w.proof[a])
        /\ \A a \in Lib(s)!MemberEntries(w) : s.leaves[a].balance + w.delta[a] >= 0
    BY <2>1 DEF Lib!UpdateVerifies
  <2>4. QED
    BY <2>2, <2>3, LibNames, LibArithmetic
<1>3. ASSUME w.op = "update", NEW a \in DOMAIN w.delta
      PROVE  \/ w.proof[a].kind = "member" /\ a \in DOMAIN s.leaves
             \/ Lib(s)!NonMembershipVerifies(Lib(s)!Root(s.layers), a, w.proof[a])
  BY <1>2, <1>3 DEF Lib!AddressProofVerifies
<1>4. ASSUME w.op = "insert"
      PROVE  /\ w.address \notin DOMAIN s.leaves /\ w.balance >= 0
             /\ Lib(s)!NonMembershipVerifies(Lib(s)!Root(s.layers), w.address, w.proof)
  BY <1>4 DEF Replays, Lib!InsertVerifies
<1>5. QED
  BY <1>1, <1>2, <1>3, <1>4

\* The accounts that a witness moves on given leaves, and by how much.
NamedBy(lv, w) == IF w.op = "update" THEN DOMAIN w.delta \cap DOMAIN lv ELSE {w.address}
MovedBy(w, a) == IF w.op = "update" THEN w.delta[a] ELSE w.balance
BalanceIn(lv, a) == IF a \in DOMAIN lv THEN lv[a].balance ELSE 0

\* The proofs by membership are those of the accounts with a leaf.
LEMMA MembersAreNamed ==
    ASSUME TreeFits, NEW s, IsLoaded(s), NEW w, WitnessOK(w), Replays(s, w), w.op = "update"
    PROVE  Members(w) = NamedBy(s.leaves, w)
<1>1. \A a \in DOMAIN w.delta :
         \/ w.proof[a].kind = "member" /\ a \in DOMAIN s.leaves
         \/ Lib(s)!NonMembershipVerifies(Lib(s)!Root(s.layers), a, w.proof[a])
  BY ReplayChecks
<1>2. DOMAIN w.delta \subseteq Address /\ \A a \in DOMAIN w.delta : ProofTyped(w.proof[a])
  BY MemberDeltasAreInt DEF WitnessOK
<1>3. ASSUME NEW a \in DOMAIN w.delta,
             Lib(s)!NonMembershipVerifies(Lib(s)!Root(s.layers), a, w.proof[a])
      PROVE  w.proof[a].kind # "member" /\ a \notin DOMAIN s.leaves
  <2>1. w.proof[a].kind # "member"
    BY <1>3 DEF Lib!NonMembershipVerifies
  <2>2. a \notin DOMAIN s.leaves
    BY <1>2, <1>3, AcceptedMeansAbsent
  <2>3. QED
    BY <2>1, <2>2
<1>4. \A a \in DOMAIN w.delta : w.proof[a].kind = "member" <=> a \in DOMAIN s.leaves
  BY <1>1, <1>3
<1>5. QED
  BY <1>4 DEF Members, NamedBy

\* The leaves after a replay: the accounts that were named have moved.
LEMMA ReplayedLeaves ==
    ASSUME TreeFits, NEW s, IsLoaded(s), NEW w, WitnessOK(w), Replays(s, w), NEW label, NEW blind
    PROVE  LET lv == Replayed(s, w, label, blind).leaves
               named == NamedBy(s.leaves, w)
           IN /\ DOMAIN lv = DOMAIN s.leaves \cup named
              /\ named \in SUBSET Address /\ \A a \in named : MovedBy(w, a) \in Int
              /\ \A a \in Address :
                    BalanceIn(lv, a) = BalanceIn(s.leaves, a) + IF a \in named THEN MovedBy(w, a) ELSE 0
              /\ LeavesOK(lv)
<1> DEFINE lv == Replayed(s, w, label, blind).leaves
           old == s.leaves
           named == NamedBy(old, w)
<1>0. LeavesOK(old)
  BY DEF IsLoaded
<1>1. CASE w.op = "update"
  <2>1. lv = [a \in DOMAIN old |->
                IF a \in Members(w) THEN [balance |-> old[a].balance + w.delta[a], salt |-> old[a].salt]
                ELSE old[a]]
    BY <1>1, LibNames DEF Replayed, Lib!UpdatedLeaves
  <2>2. Members(w) = named /\ named = DOMAIN w.delta \cap DOMAIN old
    BY <1>1, MembersAreNamed DEF NamedBy
  <2>3. DOMAIN w.delta \subseteq Address /\ \A a \in DOMAIN w.delta : w.delta[a] \in Int
    BY <1>1, MemberDeltasAreInt
  <2>4. \A a \in Members(w) : old[a].balance + w.delta[a] >= 0
    BY <1>1, ReplayChecks
  <2> HIDE DEF lv, old, named
  <2>5. DOMAIN lv = DOMAIN old /\ named \subseteq DOMAIN old
    BY <2>1, <2>2
  <2>6. ASSUME NEW a \in DOMAIN old
        PROVE  lv[a].balance = old[a].balance + IF a \in named THEN w.delta[a] ELSE 0
    <3>1. old[a].balance \in Int
      BY <1>0 DEF LeavesOK
    <3>2. CASE a \in named
      <4>1. lv[a] = [balance |-> old[a].balance + w.delta[a], salt |-> old[a].salt]
        BY <2>1, <2>2, <3>2
      <4>2. QED
        BY <3>2, <4>1
    <3>3. CASE a \notin named
      <4>1. lv[a] = old[a]
        BY <2>1, <2>2, <3>3
      <4>2. QED
        BY <3>1, <3>3, <4>1
    <3>4. QED
      BY <3>2, <3>3
  <2>7. DOMAIN old \subseteq Address /\ \A a \in DOMAIN old : old[a].balance \in Int
    BY <1>0 DEF LeavesOK
  <2>8. \A a \in DOMAIN lv : lv[a].balance \in Int
    BY <2>2, <2>3, <2>5, <2>6, <2>7
  <2>9. ReservesNotNegative => \A a \in DOMAIN lv : lv[a].balance >= 0
    <3>1. SUFFICES ASSUME ReservesNotNegative, NEW a \in DOMAIN lv PROVE lv[a].balance >= 0
      OBVIOUS
    <3>2. old[a].balance >= 0 /\ old[a].balance \in Int
      BY <1>0, <2>5, <3>1 DEF LeavesOK
    <3>3. QED
      BY <2>2, <2>4, <2>5, <2>6, <3>2
  <2>10. DistinctReserves => \A a, b \in DOMAIN lv : Tree!KeyOf(a) = Tree!KeyOf(b) => a = b
    BY <1>0, <2>5 DEF LeavesOK
  <2>11. LeavesOK(lv)
    BY <2>5, <2>7, <2>8, <2>9, <2>10 DEF LeavesOK
  <2>12. \A a \in Address :
            BalanceIn(lv, a) = BalanceIn(old, a) + IF a \in named THEN MovedBy(w, a) ELSE 0
    BY <1>1, <2>5, <2>6, <2>7 DEF BalanceIn, MovedBy
  <2>13. named \in SUBSET Address /\ \A a \in named : MovedBy(w, a) \in Int
    BY <1>1, <2>2, <2>3 DEF MovedBy
  <2>14. QED
    BY <2>5, <2>11, <2>12, <2>13 DEF lv, old, named
<1>2. CASE w.op = "insert"
  <2>1. lv = Lib(s)!InsertedLeaves(w)
    BY <1>2 DEF Replayed
  <2>2. lv = [a \in DOMAIN old \cup {w.address} |->
                IF a = w.address THEN [balance |-> w.balance, salt |-> w.salt] ELSE old[a]]
    BY <2>1 DEF Lib!InsertedLeaves, Lib!Put
  <2>3. w.address \in Address /\ w.balance \in Int /\ ProofTyped(w.proof)
    BY <1>2 DEF WitnessOK
  <2>4. /\ w.address \notin DOMAIN old /\ w.balance >= 0
        /\ Lib(s)!NonMembershipVerifies(Lib(s)!Root(s.layers), w.address, w.proof)
    BY <1>2, ReplayChecks
  <2>5. \A b \in DOMAIN old : Tree!KeyOf(b) # Tree!KeyOf(w.address)
    BY <2>3, <2>4, AcceptedMeansAbsent
  <2>6. named = {w.address}
    BY <1>2 DEF NamedBy
  <2> HIDE DEF lv, old, named
  <2>7. /\ DOMAIN lv = DOMAIN old \cup {w.address}
        /\ lv[w.address].balance = w.balance
        /\ \A a \in DOMAIN old : lv[a] = old[a]
    BY <2>2, <2>4
  <2>8. LeavesOK(lv)
    <3>1. DOMAIN lv \subseteq Address /\ \A a \in DOMAIN lv : lv[a].balance \in Int
      BY <1>0, <2>3, <2>7 DEF LeavesOK
    <3>2. DistinctReserves => \A a, b \in DOMAIN lv : Tree!KeyOf(a) = Tree!KeyOf(b) => a = b
      BY <1>0, <2>5, <2>7 DEF LeavesOK
    <3>3. ReservesNotNegative => \A a \in DOMAIN lv : lv[a].balance >= 0
      BY <1>0, <2>4, <2>7 DEF LeavesOK
    <3>4. QED
      BY <3>1, <3>2, <3>3 DEF LeavesOK
  <2>9. \A a \in Address :
           BalanceIn(lv, a) = BalanceIn(old, a) + IF a \in named THEN MovedBy(w, a) ELSE 0
    <3>1. ASSUME NEW a \in Address, a = w.address
          PROVE  BalanceIn(lv, a) = BalanceIn(old, a) + IF a \in named THEN MovedBy(w, a) ELSE 0
      BY <1>2, <2>3, <2>4, <2>6, <2>7, <3>1 DEF BalanceIn, MovedBy
    <3>2. ASSUME NEW a \in Address, a # w.address
          PROVE  BalanceIn(lv, a) = BalanceIn(old, a) + IF a \in named THEN MovedBy(w, a) ELSE 0
      <4>1. BalanceIn(old, a) \in Int
        BY <1>0 DEF LeavesOK, BalanceIn
      <4>2. BalanceIn(lv, a) = BalanceIn(old, a)
        BY <2>7, <3>2 DEF BalanceIn
      <4>3. QED
        BY <2>6, <3>2, <4>1, <4>2
    <3>3. QED
      BY <3>1, <3>2
  <2>10. named \in SUBSET Address /\ \A a \in named : MovedBy(w, a) \in Int
    BY <1>2, <2>3, <2>6 DEF MovedBy
  <2>11. QED
    BY <2>6, <2>7, <2>8, <2>9, <2>10 DEF lv, old, named
<1>3. QED
  BY <1>1, <1>2, ReplayChecks

\* What the leaves sum to, with the accounts that have none at zero.
LEMMA BalancesOrZero ==
    ASSUME NEW lv, LeavesOK(lv), NEW a \in Address
    PROVE  OrZero(BalancesOf(lv))[a] = BalanceIn(lv, a)
<1> QED BY DEF OrZero, BalancesOf, BalanceIn

\* What a replay adds to the total, if the deltas fit.
LEMMA ReplayedSum ==
    ASSUME TreeFits, NEW s, IsLoaded(s), NEW w, Summed(w), Replays(s, w)
    PROVE  LET named == NamedBy(s.leaves, w)
               moved == OrZero([a \in named |-> MovedBy(w, a)])
           IN /\ moved \in [Address -> Int]
              /\ Total(moved) \in Int /\ Moves(s, w) = Total(moved)
<1> DEFINE named == NamedBy(s.leaves, w)
           f == [a \in named |-> MovedBy(w, a)]
           moved == OrZero(f)
<1>0. WitnessOK(w)
  BY DEF Summed
<1>1. named \in SUBSET Address /\ \A a \in named : MovedBy(w, a) \in Int
  BY <1>0, ReplayedLeaves
<1>2. f \in [named -> Int]
  BY <1>1
<1>3. moved \in [Address -> Int]
  <2> HIDE DEF f, named
  <2>1. QED
    BY <1>1, <1>2, OrZeroType
<1>4. Total(moved) \in Int
  <2> HIDE DEF moved
  <2>1. QED
    BY <1>3, TotalType
<1>5. CASE w.op = "update"
  <2>1. Members(w) = named
    BY <1>0, <1>5, MembersAreNamed
  <2>2. f = MemberDeltas(w)
    BY <1>5, <2>1 DEF MemberDeltas, MovedBy
  <2>3. SumFits(moved)
    BY <1>5, <2>2 DEF Summed
  <2>4. Moves(s, w) = Wrap(Total(moved))
    BY <1>5, <2>2, LibNames DEF Moves
  <2> HIDE DEF moved
  <2>5. InI128(Total(moved))
    BY <2>3, NAssumption DEF SumFits, Total
  <2>6. QED
    BY <1>3, <1>4, <2>4, <2>5, WrapInRange DEF moved
<1>6. CASE w.op # "update"
  <2>1. w.op = "insert" /\ w.address \in Address /\ w.balance \in Int /\ named = {w.address}
    BY <1>0, <1>6 DEF WitnessOK, NamedBy
  <2>2. Moves(s, w) = w.balance
    BY <1>6 DEF Moves
  <2>3. \A b \in Address : moved[b] = IF b = w.address THEN w.balance ELSE 0
    BY <1>6, <2>1 DEF OrZero, MovedBy
  <2> HIDE DEF moved
  <2>4. Total(moved) = w.balance
    BY <1>3, <2>1, <2>3, TotalOfOne
  <2>5. QED
    BY <1>3, <1>4, <2>2, <2>4 DEF moved
<1>7. QED
  BY <1>5, <1>6

\* A replay between two loaded states is the move that its witness states.
LEMMA ReplayMoves ==
    ASSUME TreeFits, NEW s, IsLoaded(s), NEW w, Summed(w), Replays(s, w), NEW t, NEW blind,
           Replayed(s, w, t.label, blind) = t
    PROVE  SmtMoved(ToStored(s), ToStored(t), w)
<1> DEFINE old == ToStored(s)
           new == ToStored(t)
           named == NamedBy(s.leaves, w)
           moved == OrZero([a \in named |-> MovedBy(w, a)])
<1>0. WitnessOK(w)
  BY DEF Summed
<1>1. /\ old.leaves = s.leaves /\ new.leaves = t.leaves
      /\ old.commitment[1] = s.total /\ new.commitment[1] = t.total
  BY DEF ToStored
<1>2. t.leaves = Replayed(s, w, t.label, blind).leaves /\ t.total = s.total + Moves(s, w)
  <2>1. Replayed(s, w, t.label, blind).total = s.total + Moves(s, w)
    BY DEF Replayed
  <2>2. QED
    BY <2>1
<1>3. /\ DOMAIN t.leaves = DOMAIN s.leaves \cup named
      /\ LeavesOK(t.leaves)
      /\ \A a \in Address :
            BalanceIn(t.leaves, a) = BalanceIn(s.leaves, a) + IF a \in named THEN MovedBy(w, a) ELSE 0
  BY <1>0, <1>2, ReplayedLeaves
<1>4. t.total = s.total + Total(moved)
  BY <1>2, ReplayedSum
<1> HIDE DEF old, new
<1>5. /\ OrZero([a \in DOMAIN old.leaves |-> old.leaves[a].balance]) = OrZero(BalancesOf(s.leaves))
      /\ OrZero([a \in DOMAIN new.leaves |-> new.leaves[a].balance]) = OrZero(BalancesOf(t.leaves))
  BY <1>1 DEF BalancesOf
<1>6. \A a \in Address :
         OrZero(BalancesOf(t.leaves))[a]
            = OrZero(BalancesOf(s.leaves))[a] + IF a \in named THEN MovedBy(w, a) ELSE 0
  BY <1>3, BalancesOrZero DEF IsLoaded
<1> DEFINE balances(z) == OrZero([a \in DOMAIN z.leaves |-> z.leaves[a].balance])
           Named == IF w.op = "update" THEN DOMAIN w.delta \cap DOMAIN old.leaves ELSE {w.address}
           Moved(a) == IF w.op = "update" THEN w.delta[a] ELSE w.balance
<1>7. Named = named /\ \A a : Moved(a) = MovedBy(w, a)
  BY <1>1 DEF NamedBy, MovedBy
<1>8. OrZero([a \in Named |-> Moved(a)]) = moved
  BY <1>7
<1> HIDE DEF named, moved
<1>9. /\ DOMAIN new.leaves = DOMAIN old.leaves \cup Named
      /\ \A a \in Address : balances(new)[a] = balances(old)[a] + IF a \in Named THEN Moved(a) ELSE 0
      /\ new.commitment[1] = old.commitment[1] + Total(OrZero([a \in Named |-> Moved(a)]))
  <2> HIDE DEF Named, Moved
  <2>1. DOMAIN new.leaves = DOMAIN old.leaves \cup Named
    BY <1>1, <1>3, <1>7
  <2>2. \A a \in Address : balances(new)[a] = balances(old)[a] + IF a \in Named THEN Moved(a) ELSE 0
    <3>1. balances(new) = OrZero(BalancesOf(t.leaves)) /\ balances(old) = OrZero(BalancesOf(s.leaves))
      BY <1>5
    <3> HIDE DEF balances
    <3>2. QED
      BY <1>6, <1>7, <3>1
  <2>3. new.commitment[1] = old.commitment[1] + Total(OrZero([a \in Named |-> Moved(a)]))
    BY <1>1, <1>4, <1>8
  <2>4. QED
    BY <2>1, <2>2, <2>3
<1>10. SmtMoved(old, new, w)
  BY <1>9 DEF SmtMoved
<1>11. QED
  BY <1>10 DEF old, new

\* The guest accepts only deltas that it could sum.
LEMMA GuestSums ==
    ASSUME NEW s, NEW input
    PROVE  Lib(s)!GuestUpdate(input).accepted =>
              SumFits(OrZero([a \in Lib(s)!GuestUpdate(input).members |-> input.entries[a].delta]))
<1> DEFINE E == input.entries
           proofs == [a \in DOMAIN E |-> Lib(s)!ExpandProof(input.frontier, E[a].proof)]
           M == {a \in DOMAIN E : proofs[a].kind = "member"}
           Place(a, l) == <<l, Lib(s)!SiblingIndex(Lib(s)!PathIndex(Lib(s)!KeyOf(a), Depth)[l])>>
           Places == {Place(a, l) : a \in M, l \in 0..(Depth - 1)}
           GivenAt(p) == {proofs[a].siblings[p[1]] : a \in {m \in M : Place(m, p[1]) = p}}
           siblings == [p \in Places |-> CHOOSE h \in GivenAt(p) : TRUE]
           LeafPair(a) == << Lib(s)!LeafHash(Lib(s)!KeyOf(a), E[a].oldLeaf.balance, E[a].oldLeaf.salt),
                             Lib(s)!LeafHash(Lib(s)!KeyOf(a), E[a].oldLeaf.balance + E[a].delta,
                                             E[a].oldLeaf.salt) >>
           changed == [i \in {Lib(s)!LeafIndex(a) : a \in M} |->
                           LeafPair(Lib(s)!Largest({a \in M : Lib(s)!LeafIndex(a) = i}))]
           roots == IF M = {} THEN <<input.oldRoot, input.oldRoot>>
                    ELSE Lib(s)!UpdatedRoots(changed, siblings)
           aggregate == Lib(s)!GuestAggregate([a \in M |-> E[a].delta])
<1>0. Lib(s)!GuestUpdate(input) =
         IF /\ \A a \in DOMAIN E : /\ Lib(s)!RefsInRange(input.frontier, E[a].proof)
                                   /\ Lib(s)!EntryVerifies(input.oldRoot, a, E[a], proofs[a])
            /\ \A p \in Places : Lib(s)!Cardinality(GivenAt(p)) = 1
            /\ aggregate.fits
            /\ roots[1] = input.oldRoot
            /\ Lib(s)!InI128(input.oldTotal + aggregate.sum)
         THEN [accepted |-> TRUE, oldRoot |-> input.oldRoot, newRoot |-> roots[2],
               delta |-> aggregate.sum, members |-> M,
               newTotal |-> input.oldTotal + aggregate.sum]
         ELSE Lib(s)!Rejected
  BY DEF Lib!GuestUpdate
<1> SUFFICES ASSUME Lib(s)!GuestUpdate(input).accepted
             PROVE  SumFits(OrZero([a \in Lib(s)!GuestUpdate(input).members |-> E[a].delta]))
  OBVIOUS
<1> DEFINE pv == Lib(s)!GuestUpdate(input)
<1>1. pv.accepted
  OBVIOUS
<1> HIDE DEF aggregate, M, roots, Places, GivenAt, proofs, E
<1>2. aggregate.fits /\ pv.members = M
  BY <1>0, <1>1 DEF Lib!Rejected
<1>3. aggregate.fits = Lib(s)!SumFits(Lib(s)!OrZero([a \in M |-> E[a].delta]))
  BY DEF Lib!GuestAggregate, aggregate
<1>4. QED
  BY <1>2, <1>3, LibArithmetic

\* So the deltas in an SMT proof fit.
LEMMA ProvenFits ==
    ASSUME NEW s, NEW w, WitnessOK(w), NEW label, NEW blind, NEW result \in Proved(s, w, label, blind)
    PROVE  /\ Summed(w) /\ Replays(s, w)
           /\ result.state = Replayed(s, w, label, blind)
           /\ \E pv \in PublicValues(s, w, label) :
                 /\ Confirms(s, result.state, w, pv)
                 /\ result.proof = SmtProof(s, result.state, w, blind, pv)
<1>1. PICK next \in {n \in {Replayed(s, w, label, blind)} : Replays(s, w)} :
         \E pv \in {v \in PublicValues(s, w, label) : Confirms(s, next, w, v)} :
             result = [state |-> next, proof |-> SmtProof(s, next, w, blind, pv)]
  BY DEF Proved
<1>2. PICK pv \in PublicValues(s, w, label) :
         /\ Confirms(s, next, w, pv)
         /\ result = [state |-> next, proof |-> SmtProof(s, next, w, blind, pv)]
  BY <1>1
<1>3. Replays(s, w) /\ next = Replayed(s, w, label, blind)
  BY <1>1
<1>4. ASSUME w.op = "update" PROVE SumFits(OrZero(MemberDeltas(w)))
  <2> DEFINE input == Lib(s)!UpdateStdin(w)
             values == pv.values
  <2>1. values = Lib(s)!GuestUpdate(input)
    BY <1>4 DEF PublicValues
  <2>2. values.accepted /\ values.members = Members(w)
    BY <1>2, <1>4, LibNames DEF Confirms, Flagged
  <2>3. \A a \in DOMAIN w.delta : input.entries[a].delta = w.delta[a]
    BY DEF Lib!UpdateStdin
  <2> HIDE DEF input, values
  <2>4. SumFits(OrZero([a \in Members(w) |-> input.entries[a].delta]))
    BY <2>1, <2>2, GuestSums
  <2>5. [a \in Members(w) |-> input.entries[a].delta] = MemberDeltas(w)
    BY <2>3 DEF MemberDeltas, Members
  <2>6. QED
    BY <2>4, <2>5
<1>5. result.state = next /\ result.proof = SmtProof(s, next, w, blind, pv)
  BY <1>2
<1>6. QED
  BY <1>2, <1>3, <1>4, <1>5 DEF Summed

-----------------------------------------------------------------------------
(* The files of a directory *)

\* What is in a file, whoever wrote it and whether or not it was cut short.
FileOK(x) ==
    /\ x.kind = "srs" => x.degree \in Nat /\ x.written \in Nat
    /\ x.kind = "state" => x.value.poly \in Polynomials /\ Carries(x.value) /\ x.value.degree \in Nat
    /\ x.kind = "proof" => \E y : Honest(y) /\ x.value = y.proof
    /\ TreeFits /\ x.kind = "smt-state" => LeavesOK(x.value.leaves)
    /\ TreeFits /\ x.kind = "smt-proof" => Summed(x.value.witness)
DirOK(dir) == DOMAIN dir = Path /\ \A p \in Path : FileOK(dir[p])

\* A content that a command writes whole, and a write of one.
IsContent(x) == x.kind = "srs" => \E d \in Nat : x = WholeSrsFile(d)
IsWrite(c, files, write) ==
    /\ write[1] \in Targets(c) /\ IsContent(write[2])
    /\ DirOK(files) => FileOK(write[2])
AreWrites(c, files, ws) ==
    Len(ws) \in Nat /\ DOMAIN ws = 1..Len(ws) /\ \A i \in DOMAIN ws : IsWrite(c, files, ws[i])

\* None, one and two writes are writes.
LEMMA FewWrites ==
    ASSUME NEW c, NEW files, NEW x, NEW y, IsWrite(c, files, x), IsWrite(c, files, y)
    PROVE  AreWrites(c, files, <<>>) /\ AreWrites(c, files, <<x>>) /\ AreWrites(c, files, <<x, y>>)
<1>1. AreWrites(c, files, <<>>)
  BY DEF AreWrites
<1>2. AreWrites(c, files, <<x>>)
  <2>1. Len(<<x>>) = 1 /\ DOMAIN <<x>> = 1..1 /\ \A i \in 1..1 : <<x>>[i] = x
    OBVIOUS
  <2>2. QED
    BY <2>1 DEF AreWrites
<1>3. AreWrites(c, files, <<x, y>>)
  <2>1. Len(<<x, y>>) = 2 /\ DOMAIN <<x, y>> = 1..2 /\ <<x, y>>[1] = x /\ <<x, y>>[2] = y
    OBVIOUS
  <2>2. \A i \in 1..2 : i = 1 \/ i = 2
    OBVIOUS
  <2>3. QED
    BY <2>1, <2>2 DEF AreWrites
<1>4. QED
  BY <1>1, <1>2, <1>3

\* What the commands write is.
LEMMA SrsIsOK ==
    ASSUME NEW d \in Nat PROVE IsContent(WholeSrsFile(d)) /\ FileOK(WholeSrsFile(d))
<1>1. /\ WholeSrsFile(d).kind = "srs" /\ WholeSrsFile(d).degree = d
      /\ WholeSrsFile(d).written = SrsUnits(d) /\ SrsUnits(d) \in Nat
  BY DEF WholeSrsFile, SrsFile, SrsUnits
<1>2. QED
  BY <1>1 DEF IsContent, FileOK

\* The state that init makes.
LEMMA InitializedIsOK ==
    ASSUME NEW c, c.reserves \in Reserves, NEW powers, powers.degree \in Nat
    PROVE  FileOK(StateFile(InitialState(c.reserves, c.label, powers)))
<1> DEFINE s == InitialState(c.reserves, c.label, powers)
           x == StateFile(s)
<1>1. s.poly \in Polynomials /\ s.degree \in Nat
  BY DEF InitialState, Polynomials
<1>2. Carries(s)
  BY InitialStateCarries
<1>3. x.kind = "state" /\ x.value = s
  BY DEF StateFile
<1> HIDE DEF s, x
<1>4. FileOK(x)
  BY <1>1, <1>2, <1>3 DEF FileOK
<1>5. QED
  BY <1>4 DEF x, s

\* The state and the proof that an update makes of a state file.
LEMMA UpdatedIsOK ==
    ASSUME NEW c, c.window \in Windows, NEW files, NEW w, Updated(c, files, w), FileOK(files[c.from])
    PROVE  LET p == UpdateProof(files[c.from].value, c.window, c.label)
           IN FileOK(StateFile(NextState(files[c.from].value, p))) /\ FileOK(ProofFile(p))
<1> DEFINE s == files[c.from].value
           p == UpdateProof(s, c.window, c.label)
           n == NextState(s, p)
           srs == PrefixForUpdate(files[Srs].degree, s, c.window)
           y == [old |-> s, window |-> c.window, new |-> n, proof |-> p]
           x1 == StateFile(n)
           x2 == ProofFile(p)
<1>1. files[c.from].kind = "state" /\ Applies(s, c.window, srs)
  BY DEF Updated
<1>2. s.poly \in Polynomials /\ Carries(s) /\ s.degree \in Nat
  BY <1>1 DEF FileOK
<1>3. Carries(n)
  BY <1>2, NextStateCarries
<1>4. n.poly = s.poly /\ n.degree = s.degree
  BY DEF NextState
<1>5. Honest(y)
  <2>1. y.old = s /\ y.window = c.window /\ y.new = n /\ y.proof = p
    OBVIOUS
  <2>2. p = UpdateProof(s, c.window, c.label) /\ n = NextState(s, p)
    OBVIOUS
  <2> HIDE DEF s, p, n, srs, y
  <2>3. Made(y, c.label, srs)
    BY <1>1, <2>1, <2>2 DEF Made
  <2>4. QED
    BY <1>2, <2>1, <2>3 DEF Honest
<1>6. x1.kind = "state" /\ x1.value = n /\ x2.kind = "proof" /\ x2.value = p /\ y.proof = p
  BY DEF StateFile, ProofFile
<1> HIDE DEF x1, x2, y, n, p, s
<1>7. FileOK(x1)
  BY <1>2, <1>3, <1>4, <1>6 DEF FileOK
<1>8. FileOK(x2)
  BY <1>5, <1>6 DEF FileOK
<1>9. QED
  BY <1>7, <1>8 DEF x1, x2, n, p, s

\* The files of an SMT state and proof.
LEMMA SmtFilesOK ==
    ASSUME NEW state, NEW p,
           TreeFits => LeavesOK(state.leaves) /\ Summed(p.witness)
    PROVE  FileOK(SmtStateFile(state)) /\ FileOK(SmtProofFile(p))
<1>1. SmtStateFile(state).kind = "smt-state" /\ SmtStateFile(state).value.leaves = state.leaves
  BY DEF SmtStateFile, ToStored
<1>2. SmtProofFile(p).kind = "smt-proof" /\ SmtProofFile(p).value = p
  BY DEF SmtProofFile
<1>3. FileOK(SmtStateFile(state))
  BY <1>1 DEF FileOK
<1>4. FileOK(SmtProofFile(p))
  BY <1>2 DEF FileOK
<1>5. QED
  BY <1>3, <1>4

\* What an SMT operation reads, builds and makes.
LEMMA SmtChangedIsOK ==
    ASSUME TreeFits, NEW c, IsCommand(c), IsSmtChange(c), NEW files, FileOK(files[c.from]),
           NEW s \in SmtLoaded(files[c.from]), NEW v \in WitnessFor(c, s),
           NEW result \in Proved(s, v, c.label, <<v.op, c.label>>)
    PROVE  /\ IsLoaded(s) /\ ToStored(s) = files[c.from].value
           /\ LeavesOK(result.state.leaves) /\ result.proof.witness = v /\ Summed(v)
           /\ v.op = IF c.cmd = "smt-insert" THEN "insert" ELSE "update"
<1>1. files[c.from].kind = "smt-state" /\ s \in Loaded(files[c.from].value)
  BY DEF SmtLoaded
<1>2. LeavesOK(files[c.from].value.leaves)
  BY <1>1 DEF FileOK
<1>3. IsLoaded(s) /\ ToStored(s) = files[c.from].value
  BY <1>1, <1>2, LoadedState
<1>4. WitnessOK(v) /\ v.op = IF c.cmd = "smt-insert" THEN "insert" ELSE "update"
  BY <1>3, WitnessBuilt
<1>5. /\ Summed(v) /\ Replays(s, v)
      /\ result.state = Replayed(s, v, c.label, <<v.op, c.label>>)
      /\ \E pv : result.proof = SmtProof(s, result.state, v, <<v.op, c.label>>, pv)
  BY <1>4, ProvenFits
<1>6. LeavesOK(result.state.leaves)
  BY <1>3, <1>4, <1>5, ReplayedLeaves
<1>7. result.proof.witness = v
  BY <1>5 DEF SmtProof
<1>8. QED
  BY <1>3, <1>4, <1>5, <1>6, <1>7

\* One write or two, to the files that the command names.
LEMMA SuccessWrites ==
    ASSUME NEW c, IsCommand(c), NEW files, NEW w \in Writes(c, files)
    PROVE  \/ \E x : IsWrite(c, files, x) /\ w = <<x>>
           \/ c.cmd # "prepare-run" /\ \E x, y : IsWrite(c, files, x) /\ IsWrite(c, files, y) /\ w = <<x, y>>
<1>1. CASE c.cmd = "gen-srs"
  <2> DEFINE x == <<Srs, WholeSrsFile(c.degree)>>
  <2>1. w = <<x>>
    BY <1>1 DEF Writes, GenSrs
  <2>2. x[1] \in Targets(c)
    BY <1>1 DEF Targets
  <2>3. x[2] = WholeSrsFile(c.degree) /\ c.degree \in Nat
    BY <1>1 DEF IsCommand
  <2>4. IsWrite(c, files, x)
    BY <2>2, <2>3, SrsIsOK DEF IsWrite
  <2>5. QED
    BY <2>1, <2>4
<1>2. CASE c.cmd \in {"init", "prepare-run"}
  <2> DEFINE srs == IF c.cmd = "prepare-run" /\ files[Srs] = Absent
                      THEN WholeSrsFile(c.degree) ELSE files[Srs]
  <2>1. w \in FixedInit(c, srs)
    BY <1>2 DEF Writes
  <2>2. PICK s : w = << <<c.to, StateFile(s)>> >>
    BY <2>1 DEF FixedInit
  <2> DEFINE x == <<c.to, StateFile(s)>>
  <2>3. x[1] \in Targets(c)
    BY <1>2 DEF Targets
  <2>4. x[2].kind = "state"
    BY DEF StateFile
  <2>5. ASSUME DirOK(files) PROVE FileOK(x[2])
    <3>1. srs.kind = "srs" => srs.degree \in Nat
      <4>1. FileOK(files[Srs])
        BY <2>5 DEF DirOK, Path
      <4>2. c.cmd = "prepare-run" => c.degree \in Nat
        BY DEF IsCommand
      <4>3. QED
        BY <4>1, <4>2, SrsIsOK DEF FileOK
    <3> HIDE DEF srs
    <3>2. Initialized(c, w)
      BY <2>1, <3>1, InitWrites
    <3>3. PICK powers : /\ powers.degree \in Nat
                        /\ w = << <<c.to, StateFile(InitialState(c.reserves, c.label, powers))>> >>
      BY <3>2 DEF Initialized
    <3>4. x[2] = StateFile(InitialState(c.reserves, c.label, powers))
      BY <2>2, <3>3
    <3>5. c.reserves \in Reserves
      BY <1>2 DEF IsCommand
    <3> HIDE DEF x
    <3>6. QED
      BY <3>3, <3>4, <3>5, InitializedIsOK
  <2>6. IsWrite(c, files, x)
    BY <2>3, <2>4, <2>5 DEF IsWrite, IsContent
  <2>7. QED
    BY <2>2, <2>6
<1>3. CASE IsUpdate(c)
  <2> DEFINE p == UpdateProof(files[c.from].value, c.window, c.label)
             x == <<c.to, StateFile(NextState(files[c.from].value, p))>>
             y == <<c.proof, ProofFile(p)>>
  <2>1. w \in Update(c, ProofPathOf(c), files)
    BY <1>3 DEF Writes, IsUpdate
  <2>2. Updated(c, files, w)
    BY <1>3, <2>1, UpdateWritesBoth
  <2>3. c.cmd # "prepare-run" /\ w = <<x, y>>
    BY <1>3, <2>2 DEF Updated, IsUpdate, UpdateWrites
  <2>4. x[1] \in Targets(c) /\ y[1] \in Targets(c)
    BY <1>3 DEF Targets, IsUpdate
  <2>5. x[2].kind = "state" /\ y[2].kind = "proof"
    BY DEF StateFile, ProofFile
  <2>6. ASSUME DirOK(files) PROVE FileOK(x[2]) /\ FileOK(y[2])
    <3>1. c.window \in Windows /\ c.from \in Path
      BY <1>3 DEF IsCommand, Path
    <3>2. FileOK(files[c.from])
      BY <2>6, <3>1 DEF DirOK
    <3>3. QED
      BY <2>2, <3>1, <3>2, UpdatedIsOK
  <2>7. IsWrite(c, files, x) /\ IsWrite(c, files, y)
    <3> HIDE DEF x, y
    <3>1. QED
      BY <2>4, <2>5, <2>6 DEF IsWrite, IsContent
  <2>8. QED
    BY <2>3, <2>7
<1>4. CASE c.cmd \in {"smt-init", "prepare-smt-run"}
  <2> DEFINE s == SmtInitial(c.reserves, c.label)
             x == <<c.to, SmtStateFile(s)>>
  <2>1. w \in SmtInit(c)
    BY <1>4 DEF Writes
  <2>2. w = <<x>>
    BY <2>1, SmtInitWrites DEF SmtInitialized
  <2>3. x[1] \in Targets(c)
    BY <1>4 DEF Targets
  <2>4. x[2].kind = "smt-state"
    BY DEF SmtStateFile
  <2>5. FileOK(x[2])
    <3>1. s.leaves = SmtInitialLeaves(c.reserves)
      BY DEF SmtInitial, SmtNew
    <3>2. LeavesOK(s.leaves)
      BY <1>4, <3>1, InitialIsLoaded DEF IsCommand
    <3>3. x[2].value.leaves = s.leaves
      BY DEF SmtStateFile, ToStored
    <3> HIDE DEF s, x
    <3>4. QED
      BY <2>4, <3>2, <3>3 DEF FileOK
  <2>6. IsWrite(c, files, x)
    BY <2>3, <2>4, <2>5 DEF IsWrite, IsContent
  <2>7. QED
    BY <2>2, <2>6
<1>5. CASE IsSmtChange(c)
  <2>1. w \in SmtChange(c, ProofPathOf(c), files)
    BY <1>5 DEF Writes, IsSmtChange
  <2>2. SmtChanged(c, files, w)
    BY <1>5, <2>1, SmtChangeWrites
  <2>3. PICK s \in SmtLoaded(files[c.from]) :
           \E v \in WitnessFor(c, s) : \E r \in Proved(s, v, c.label, <<v.op, c.label>>) :
               w = SmtWrites(c, r.state, r.proof)
    BY <2>2 DEF SmtChanged
  <2>4. PICK v \in WitnessFor(c, s) :
           \E r \in Proved(s, v, c.label, <<v.op, c.label>>) : w = SmtWrites(c, r.state, r.proof)
    BY <2>3
  <2>5. PICK r \in Proved(s, v, c.label, <<v.op, c.label>>) : w = SmtWrites(c, r.state, r.proof)
    BY <2>4
  <2> DEFINE x == <<c.to, SmtStateFile(r.state)>>
             y == <<c.proof, SmtProofFile(r.proof)>>
  <2>6. c.cmd # "prepare-run" /\ w = <<x, y>>
    BY <1>5, <2>5 DEF IsSmtChange, SmtWrites
  <2>7. x[1] \in Targets(c) /\ y[1] \in Targets(c)
    BY <1>5 DEF Targets, IsSmtChange
  <2>8. x[2].kind = "smt-state" /\ y[2].kind = "smt-proof"
    BY DEF SmtStateFile, SmtProofFile
  <2>9. ASSUME DirOK(files) PROVE FileOK(x[2]) /\ FileOK(y[2])
    <3>1. c.from \in Path
      BY <1>5 DEF IsCommand, Path
    <3>2. FileOK(files[c.from])
      BY <2>9, <3>1 DEF DirOK
    <3>3. TreeFits => LeavesOK(r.state.leaves) /\ Summed(r.proof.witness)
      BY <1>5, <3>2, SmtChangedIsOK
    <3>4. QED
      BY <3>3, SmtFilesOK
  <2>10. IsWrite(c, files, x) /\ IsWrite(c, files, y)
    <3> HIDE DEF x, y
    <3>1. QED
      BY <2>7, <2>8, <2>9 DEF IsWrite, IsContent
  <2>11. QED
    BY <2>6, <2>10
<1>6. QED
  BY <1>1, <1>2, <1>3, <1>4, <1>5 DEF IsCommand

\* Before it reads, only prepare-run writes.
LEMMA WritesBefore ==
    ASSUME NEW c, IsCommand(c), NEW files
    PROVE  \/ FirstWrites(c, files) = <<>>
           \/ c.cmd = "prepare-run" /\ \E x : IsWrite(c, files, x) /\ FirstWrites(c, files) = <<x>>
<1>1. CASE c.cmd = "prepare-run" /\ files[Srs] = Absent
  <2> DEFINE x == <<Srs, WholeSrsFile(c.degree)>>
  <2>1. FirstWrites(c, files) = <<x>>
    BY <1>1 DEF FirstWrites
  <2>2. x[1] \in Targets(c)
    BY <1>1 DEF Targets
  <2>3. x[2] = WholeSrsFile(c.degree) /\ c.degree \in Nat
    BY <1>1 DEF IsCommand
  <2>4. IsWrite(c, files, x)
    BY <2>2, <2>3, SrsIsOK DEF IsWrite
  <2>5. QED
    BY <1>1, <2>1, <2>4
<1>2. CASE ~(c.cmd = "prepare-run" /\ files[Srs] = Absent)
  BY <1>2 DEF FirstWrites
<1>3. QED
  BY <1>1, <1>2

\* All that a command writes, whether it succeeds or not.
LEMMA OutcomeWrites ==
    ASSUME NEW c, IsCommand(c), NEW files, NEW o \in Outcomes(c, files)
    PROVE  AreWrites(c, files, o.writes)
<1> DEFINE before == FirstWrites(c, files)
<1>1. \/ o.writes = before \o <<>>
      \/ \E w \in Writes(c, files) : o.writes = before \o w
  BY OutcomeParts
<1>2. \/ before = <<>>
      \/ c.cmd = "prepare-run" /\ \E x : IsWrite(c, files, x) /\ before = <<x>>
  BY WritesBefore
<1> HIDE DEF before
<1>0. \E x : IsWrite(c, files, x)
  <2> DEFINE x == <<IF c.cmd = "gen-srs" THEN Srs ELSE c.to, Absent>>
  <2>1. IsWrite(c, files, x)
    BY DEF IsWrite, IsContent, Absent, Targets, FileOK
  <2>2. QED
    BY <2>1
<1>3. CASE o.writes = before \o <<>>
  <2>1. o.writes = <<>> \/ \E x : IsWrite(c, files, x) /\ o.writes = <<x>>
    BY <1>2, <1>3, ShortSequences
  <2>2. QED
    BY <1>0, <2>1, FewWrites
<1>4. ASSUME NEW w \in Writes(c, files), o.writes = before \o w PROVE AreWrites(c, files, o.writes)
  <2>1. \/ \E x : IsWrite(c, files, x) /\ w = <<x>>
        \/ c.cmd # "prepare-run" /\ \E x, y : IsWrite(c, files, x) /\ IsWrite(c, files, y) /\ w = <<x, y>>
    BY SuccessWrites
  <2>2. CASE before = <<>>
    <3>1. CASE \E x : IsWrite(c, files, x) /\ w = <<x>>
      BY <1>4, <2>2, <3>1, ShortSequences, FewWrites
    <3>2. CASE \E x, y : IsWrite(c, files, x) /\ IsWrite(c, files, y) /\ w = <<x, y>>
      <4>1. PICK x, y : IsWrite(c, files, x) /\ IsWrite(c, files, y) /\ w = <<x, y>>
        BY <3>2
      <4>2. o.writes = <<x, y>>
        BY <1>4, <2>2, <4>1, ShortSequences
      <4>3. QED
        BY <4>1, <4>2, FewWrites
    <3>3. QED
      BY <2>1, <3>1, <3>2
  <2>3. CASE c.cmd = "prepare-run" /\ \E x : IsWrite(c, files, x) /\ before = <<x>>
    <3>1. PICK x : IsWrite(c, files, x) /\ before = <<x>>
      BY <2>3
    <3>2. PICK y : IsWrite(c, files, y) /\ w = <<y>>
      BY <2>1, <2>3
    <3>3. o.writes = <<x, y>>
      BY <1>4, <3>1, <3>2, ShortSequences
    <3>4. QED
      BY <3>1, <3>2, <3>3, FewWrites
  <2>4. QED
    BY <1>2, <2>2, <2>3
<1>5. QED
  BY <1>1, <1>3, <1>4

\* While a content is written it has images, the last one whole.
LEMMA ContentImages ==
    ASSUME NEW x, IsContent(x)
    PROVE  /\ Len(Images(x)) \in Nat \ {0} /\ DOMAIN Images(x) = 1..Len(Images(x))
           /\ Images(x)[Len(Images(x))] = x
<1>1. CASE x.kind # "srs"
  BY <1>1 DEF Images
<1>2. CASE x.kind = "srs"
  <2>1. PICK d \in Nat : x = WholeSrsFile(d)
    BY <1>2 DEF IsContent
  <2>2. x = SrsFile(d, SrsUnits(d)) /\ x.degree = d /\ x.written = SrsUnits(d) /\ SrsUnits(d) \in Nat
    BY <2>1 DEF WholeSrsFile, SrsFile, SrsUnits
  <2> DEFINE m == SrsUnits(d) + 1
             F(n) == SrsFile(d, n - 1)
             im == [n \in 1..m |-> F(n)]
  <2>3. Images(x) = im
    BY <1>2, <2>2 DEF Images
  <2>4. m \in Nat \ {0} /\ m \in 1..m /\ F(m) = x
    <3>1. m - 1 = SrsUnits(d) /\ m \in 1..m /\ m \in Nat \ {0}
      BY <2>2
    <3>2. QED
      BY <2>2, <3>1
  <2> HIDE DEF m, F
  <2>5. Len(im) = m /\ DOMAIN im = 1..m /\ im[m] = F(m)
    BY <2>4
  <2>6. QED
    BY <2>3, <2>4, <2>5
<1>3. QED
  BY <1>1, <1>2

\* Each of them is a file.
LEMMA ImagesAreOK ==
    ASSUME NEW x, IsContent(x), FileOK(x), NEW n \in 1..Len(Images(x))
    PROVE  FileOK(Images(x)[n])
<1>1. CASE x.kind # "srs"
  <2>1. Images(x) = <<Torn, x>>
    BY <1>1 DEF Images
  <2>2. n = 1 \/ n = 2
    BY <2>1
  <2>3. Images(x)[n] = Torn \/ Images(x)[n] = x
    BY <2>1, <2>2
  <2>4. FileOK(Torn)
    BY DEF Torn, FileOK
  <2>5. QED
    BY <2>3, <2>4
<1>2. CASE x.kind = "srs"
  <2>1. x.degree \in Nat /\ x.written \in Nat
    BY <1>2 DEF FileOK
  <2> DEFINE F(i) == SrsFile(x.degree, i - 1)
             m == x.written + 1
             im == [i \in 1..m |-> F(i)]
  <2>2. Images(x) = im
    BY <1>2 DEF Images
  <2>3. m \in Nat
    BY <2>1
  <2>4. F(n).kind = "srs" /\ F(n).degree = x.degree /\ F(n).written = n - 1
    BY DEF SrsFile
  <2> HIDE DEF F, m
  <2>5. Len(im) = m
    BY <2>3
  <2>6. n \in 1..m /\ n - 1 \in Nat
    BY <2>2, <2>3, <2>5
  <2>7. Images(x)[n] = F(n)
    BY <2>2, <2>6
  <2>8. QED
    BY <2>1, <2>4, <2>6, <2>7 DEF FileOK
<1>3. QED
  BY <1>1, <1>2

\* Writing files keeps a directory one of files.
LEMMA WrittenOK ==
    ASSUME NEW dir, DirOK(dir), NEW write, FileOK(write[2])
    PROVE  DirOK(Written(dir, write))
<1> QED BY DEF DirOK, Written

\* So do any number of writes.
LEMMA FilesAfterOK ==
    ASSUME NEW files, DirOK(files), NEW ws, Len(ws) \in Nat,
           \A i \in 1..Len(ws) : FileOK(ws[i][2]), NEW n \in 0..Len(ws)
    PROVE  DirOK(FilesAfter(files, ws, n))
<1> DEFINE T == {m \in 0..Len(ws) : DirOK(FilesAfter(files, ws, m))}
<1>1. 0 \in T
  <2>1. FilesAfter(files, ws, 0) = files
    BY FilesAfterNone, ZenonT(30)
  <2>2. 0 \in 0..Len(ws)
    OBVIOUS
  <2>3. QED
    BY <2>1, <2>2
<1>2. ASSUME NEW m \in 0..(Len(ws) - 1), m \in T PROVE m + 1 \in T
  <2>1. PICK i \in 1..Len(ws) : i = m + 1
    OBVIOUS
  <2>2. FilesAfter(files, ws, i) = Written(FilesAfter(files, ws, i - 1), ws[i])
    BY FilesAfterNext, ZenonT(30)
  <2>3. i - 1 = m /\ i \in 0..Len(ws)
    BY <2>1
  <2>4. DirOK(FilesAfter(files, ws, i))
    BY <1>2, <2>2, <2>3, WrittenOK
  <2>5. QED
    BY <2>1, <2>3, <2>4
<1>3. 0..Len(ws) \subseteq T
  <2> HIDE DEF T
  <2>1. QED
    BY <1>1, <1>2, UpToInduction
<1>4. QED
  BY <1>3

-----------------------------------------------------------------------------
(* The process and the disk *)

\* A process that runs: it read the files as they were when it started, it writes
\* what its command then comes to, and on disk are its writes up to where it is, the
\* next one in part once it has begun.
ProcessOK ==
    LET next == process.writes[process.next]
        before == FilesAfter(process.read, process.writes, process.next - 1)
    IN /\ ~stopped /\ pos \in DOMAIN job.script
       /\ process = [running |-> TRUE, read |-> process.read, ok |-> process.ok,
                     writes |-> process.writes, next |-> process.next, image |-> process.image]
       /\ DirOK(process.read)
       /\ \E o \in Outcomes(Current, process.read) : process.ok = o.ok /\ process.writes = o.writes
       /\ process.next \in 1..(Len(process.writes) + 1)
       /\ \/ process.image = 1 /\ disk = before
          \/ /\ process.next <= Len(process.writes)
             /\ process.image \in 2..Len(Images(next[2]))
             /\ disk = Written(before, <<next[1], Images(next[2])[process.image - 1]>>)

\* The inductive invariant: every file is one, and the process is where it is.
RunInv ==
    /\ job \in Jobs
    /\ DirOK(disk)
    /\ pos \in 1..(Len(job.script) + 1)
    /\ crashes \in 0..MaxCrashes
    /\ stopped \in BOOLEAN
    /\ process = NoProcess \/ ProcessOK

\* A script that runs to its end leaves files.
LEMMA UncrashedFiles ==
    ASSUME NEW script, IsScript(script), NEW files \in Uncrashed(script, Empty)
    PROVE  DirOK(files)
<1> DEFINE n == Len(script)
<1>1. n \in Nat /\ \A i \in 1..n : IsCommand(script[i])
  BY DEF IsScript
<1>2. PICK dirs : IsHistory(dirs, script, Empty) /\ Uncrashed(script, Empty) = dirs[n]
  BY <1>1, UncrashedDef
<1>3. dirs[0] = {Empty} /\ \A i \in 1..n : dirs[i] = After(script[i], dirs[i - 1])
  BY <1>2 DEF IsHistory
<1> HIDE DEF n
<1> DEFINE T == {m \in 0..n : \A f \in dirs[m] : DirOK(f)}
<1>4. 0 \in T
  <2>1. FileOK(Absent)
    BY DEF FileOK, Absent
  <2>2. DirOK(Empty)
    BY <2>1 DEF DirOK, Empty
  <2>3. QED
    BY <1>1, <1>3, <2>2
<1>5. ASSUME NEW m \in 0..(n - 1), m \in T PROVE m + 1 \in T
  <2>1. PICK i \in 1..n : i = m + 1 /\ i - 1 = m
    BY <1>1
  <2>2. ASSUME NEW f \in After(script[i], dirs[m]) PROVE DirOK(f)
    <3>1. PICK g \in dirs[m] : \E o \in {p \in Outcomes(script[i], g) : p.ok} :
                                   f = FilesAfter(g, o.writes, Len(o.writes))
      BY <2>2 DEF After
    <3>2. PICK o \in Outcomes(script[i], g) : f = FilesAfter(g, o.writes, Len(o.writes))
      BY <3>1
    <3>3. DirOK(g)
      BY <1>5, <3>1
    <3>4. Len(o.writes) \in Nat /\ \A k \in 1..Len(o.writes) : FileOK(o.writes[k][2])
      <4>1. AreWrites(script[i], g, o.writes)
        BY <1>1, OutcomeWrites
      <4>2. QED
        BY <3>3, <4>1 DEF AreWrites, IsWrite
    <3>5. Len(o.writes) \in 0..Len(o.writes)
      BY <3>4
    <3>6. QED
      BY <3>2, <3>3, <3>4, <3>5, FilesAfterOK
  <2>3. dirs[i] = After(script[i], dirs[m])
    BY <1>3, <2>1
  <2>4. QED
    BY <1>1, <2>1, <2>2, <2>3
<1>6. n \in T
  <2>1. 0..n \subseteq T
    <3> HIDE DEF T
    <3>1. QED
      BY <1>1, <1>4, <1>5, UpToInduction
  <2>2. QED
    BY <1>1, <2>1
<1>7. QED
  BY <1>2, <1>6 DEF n

\* What an invariant step may assume of the running process and its current write.
LEMMA RunningFacts ==
    ASSUME RunInv, process.running = TRUE
    PROVE  /\ ProcessOK /\ IsCommand(Current)
           /\ AreWrites(Current, process.read, process.writes)
<1>1. ProcessOK
  BY DEF RunInv, NoProcess
<1>2. job \in Jobs /\ pos \in DOMAIN job.script
  BY <1>1 DEF RunInv, ProcessOK
<1>3. IsCommand(Current)
  BY <1>2, JobsAssumption DEF IsScript, Current
<1>4. PICK o \in Outcomes(Current, process.read) : process.writes = o.writes
  BY <1>1 DEF ProcessOK
<1>5. AreWrites(Current, process.read, o.writes)
  BY <1>3, OutcomeWrites
<1>6. QED
  BY <1>1, <1>3, <1>4, <1>5

\* A run starts in a directory of files, those of a dead process included.
LEMMA RunStarts == ASSUME Init PROVE RunInv
<1>1. job \in Jobs /\ IsScript(job.before) /\ IsScript(job.script) /\ Len(job.died) \in Nat
  BY JobsAssumption DEF Init
<1>2. PICK files \in Uncrashed(job.before, Empty) : disk = FilesAfter(files, job.died, Len(job.died))
  BY DEF Init
<1>3. DirOK(files)
  BY <1>1, UncrashedFiles
<1>4. DirOK(disk)
  <2>1. Len(job.died) \in 0..Len(job.died)
    BY <1>1
  <2>2. ASSUME NEW i \in 1..Len(job.died) PROVE FileOK(job.died[i][2])
    <3>1. IsCut(job.died[i][2])
      BY <1>1, JobsAssumption
    <3>2. QED
      BY <3>1 DEF IsCut, FileOK, Torn, SrsUnits
  <2>3. QED
    BY <1>1, <1>2, <1>3, <2>1, <2>2, FilesAfterOK
<1>5. pos \in 1..(Len(job.script) + 1)
  BY <1>1 DEF Init, IsScript
<1>6. crashes \in 0..MaxCrashes /\ stopped \in BOOLEAN /\ process = NoProcess
  <2>1. crashes = 0 /\ stopped = FALSE /\ process = NoProcess
    BY DEF Init
  <2>2. crashes \in 0..MaxCrashes
    BY <2>1, CrashesAssumption
  <2>3. stopped \in BOOLEAN
    BY <2>1
  <2>4. QED
    BY <2>1, <2>2, <2>3
<1>7. QED
  BY <1>1, <1>4, <1>5, <1>6 DEF RunInv

\* A process starts on the files as they are.
LEMMA RunStart == ASSUME RunInv, Start PROVE RunInv'
<1>1. /\ ~stopped /\ ~Finished
      /\ job' = job /\ pos' = pos /\ disk' = disk /\ stopped' = stopped /\ crashes' = crashes
  BY DEF Start
<1>2. PICK o \in Outcomes(Current, disk) :
         process' = [running |-> TRUE, read |-> disk, ok |-> o.ok,
                     writes |-> o.writes, next |-> 1, image |-> 1]
  BY DEF Start
<1>3. job \in Jobs /\ IsScript(job.script) /\ pos \in DOMAIN job.script
  BY <1>1, JobsAssumption DEF RunInv, Finished, IsScript
<1>4. IsCommand(Current)
  BY <1>3 DEF IsScript, Current
<1>5. Len(o.writes) \in Nat
  <2>1. AreWrites(Current, disk, o.writes)
    BY <1>4, OutcomeWrites
  <2>2. QED
    BY <2>1 DEF AreWrites
<1>6. FilesAfter(disk, o.writes, 0) = disk
  BY <1>5, FilesAfterNone, ZenonT(30)
<1>7. Current' = Current
  BY <1>1 DEF Current
<1>8. ProcessOK'
  <2>1. /\ process'.read = disk /\ process'.ok = o.ok /\ process'.writes = o.writes
        /\ process'.next = 1 /\ process'.image = 1
        /\ process' = [running |-> TRUE, read |-> process'.read, ok |-> process'.ok,
                       writes |-> process'.writes, next |-> process'.next, image |-> process'.image]
    BY <1>2
  <2>2. process'.next \in 1..(Len(process'.writes) + 1) /\ process'.next - 1 = 0
    BY <1>5, <2>1
  <2>3. DirOK(process'.read)
    BY <2>1 DEF RunInv
  <2>4. disk' = FilesAfter(process'.read, process'.writes, process'.next - 1)
    BY <1>1, <1>6, <2>1, <2>2
  <2>5. \E p \in Outcomes(Current', process'.read) : process'.ok = p.ok /\ process'.writes = p.writes
    BY <1>7, <2>1
  <2>6. QED
    BY <1>1, <1>3, <2>1, <2>2, <2>3, <2>4, <2>5 DEF ProcessOK
<1>9. QED
  BY <1>1, <1>8 DEF RunInv

\* Writing a file again leaves what was written last.
LEMMA WrittenAgain ==
    ASSUME NEW files, NEW path, NEW x, NEW y
    PROVE  Written(Written(files, <<path, x>>), <<path, y>>) = Written(files, <<path, y>>)
<1> QED BY DEF Written

\* What is on disk when an image of the next write has been written.
LEMMA WriteImage ==
    ASSUME RunInv, Write
    PROVE  LET next == process.writes[process.next]
           IN /\ process.image \in 1..Len(Images(next[2]))
              /\ Len(Images(next[2])) \in Nat
              /\ Images(next[2])[Len(Images(next[2]))] = next[2]
              /\ disk' = Written(FilesAfter(process.read, process.writes, process.next - 1),
                                 <<next[1], Images(next[2])[process.image]>>)
<1> DEFINE next == process.writes[process.next]
           im == Images(next[2])
           before == FilesAfter(process.read, process.writes, process.next - 1)
<1>1. process.running /\ process.next <= Len(process.writes)
      /\ disk' = [disk EXCEPT ![next[1]] = im[process.image]]
  BY DEF Write
<1>2. ProcessOK /\ AreWrites(Current, process.read, process.writes)
  BY <1>1, RunningFacts DEF RunInv, NoProcess, ProcessOK
<1>3. process.next \in DOMAIN process.writes
  BY <1>1, <1>2 DEF ProcessOK, AreWrites
<1>4. IsContent(next[2])
  BY <1>2, <1>3 DEF AreWrites, IsWrite
<1>5. Len(im) \in Nat \ {0} /\ im[Len(im)] = next[2]
  BY <1>4, ContentImages
<1>6. \/ process.image = 1 /\ disk = before
      \/ /\ process.image \in 2..Len(im)
         /\ disk = Written(before, <<next[1], im[process.image - 1]>>)
  BY <1>2 DEF ProcessOK
<1> HIDE DEF next, im, before
<1>7. process.image \in 1..Len(im)
  BY <1>5, <1>6
<1>8. disk' = Written(disk, <<next[1], im[process.image]>>)
  BY <1>1 DEF Written
<1>9. disk' = Written(before, <<next[1], im[process.image]>>)
  BY <1>6, <1>8, WrittenAgain
<1>10. QED
  BY <1>5, <1>7, <1>9 DEF next, im, before

\* It goes from image to image and from write to write.
LEMMA RunWrite == ASSUME RunInv, Write PROVE RunInv'
<1> DEFINE next == process.writes[process.next]
           im == Images(next[2])
           before == FilesAfter(process.read, process.writes, process.next - 1)
<1>1. /\ process.running /\ process.next <= Len(process.writes)
      /\ process' = Advanced(process)
      /\ job' = job /\ pos' = pos /\ stopped' = stopped /\ crashes' = crashes
  BY DEF Write
<1>2. ProcessOK /\ AreWrites(Current, process.read, process.writes)
  BY <1>1, RunningFacts DEF RunInv, NoProcess, ProcessOK
<1>3. /\ process.image \in 1..Len(im) /\ Len(im) \in Nat /\ im[Len(im)] = next[2]
      /\ disk' = Written(before, <<next[1], im[process.image]>>)
  BY WriteImage
<1>4. /\ Len(process.writes) \in Nat /\ process.next \in 1..Len(process.writes)
      /\ process = [running |-> TRUE, read |-> process.read, ok |-> process.ok,
                    writes |-> process.writes, next |-> process.next, image |-> process.image]
  BY <1>1, <1>2 DEF ProcessOK, AreWrites
<1>5. /\ process'.read = process.read /\ process'.ok = process.ok /\ process'.writes = process.writes
      /\ process' = [running |-> TRUE, read |-> process'.read, ok |-> process'.ok,
                     writes |-> process'.writes, next |-> process'.next, image |-> process'.image]
      /\ IF process.image < Len(im)
           THEN process'.next = process.next /\ process'.image = process.image + 1
           ELSE process'.next = process.next + 1 /\ process'.image = 1
  <2>1. process' = IF process.image < Len(im) THEN [process EXCEPT !.image = @ + 1]
                   ELSE [process EXCEPT !.next = @ + 1, !.image = 1]
    BY <1>1 DEF Advanced
  <2> HIDE DEF im, next, before
  <2>2. PICK r, k, ws, n, i :
           process = [running |-> TRUE, read |-> r, ok |-> k, writes |-> ws, next |-> n, image |-> i]
    BY <1>4
  <2>3. /\ process.read = r /\ process.ok = k /\ process.writes = ws
        /\ process.next = n /\ process.image = i
    BY <2>2
  <2>4. CASE process.image < Len(im)
    <3>1. process' = [running |-> TRUE, read |-> r, ok |-> k, writes |-> ws, next |-> n, image |-> i + 1]
      BY <2>1, <2>2, <2>4
    <3>2. QED
      BY <2>3, <2>4, <3>1
  <2>5. CASE ~(process.image < Len(im))
    <3>1. process' = [running |-> TRUE, read |-> r, ok |-> k, writes |-> ws, next |-> n + 1, image |-> 1]
      BY <2>1, <2>2, <2>5
    <3>2. QED
      BY <2>3, <2>5, <3>1
  <2>6. QED
    BY <2>4, <2>5
<1>6. /\ Current' = Current
      /\ DirOK(process'.read)
      /\ \E o \in Outcomes(Current', process'.read) : process'.ok = o.ok /\ process'.writes = o.writes
  <2>1. Current' = Current
    BY <1>1 DEF Current
  <2>2. QED
    BY <1>2, <1>5, <2>1 DEF ProcessOK
<1>7. DirOK(disk')
  <2>1. IsContent(next[2]) /\ FileOK(next[2])
    BY <1>2, <1>4 DEF AreWrites, IsWrite, ProcessOK
  <2> DEFINE write == <<next[1], im[process.image]>>
  <2>2. FileOK(write[2])
    BY <1>3, <2>1, ImagesAreOK
  <2>3. disk' = Written(disk, write)
    BY DEF Write, Written
  <2> HIDE DEF write
  <2>4. QED
    BY <2>2, <2>3, WrittenOK DEF RunInv
<1>8. CASE process.image < Len(im)
  <2>1. /\ process'.next = process.next /\ process'.image = process.image + 1
        /\ process'.image \in 2..Len(im) /\ process'.image - 1 = process.image
    BY <1>3, <1>5, <1>8
  <2> HIDE DEF im, next, before
  <2>2. /\ process'.next <= Len(process'.writes) /\ process'.next \in 1..(Len(process'.writes) + 1)
        /\ disk' = Written(before, <<next[1], im[process'.image - 1]>>)
    <3>1. disk' = Written(before, <<next[1], im[process'.image - 1]>>)
      BY <1>3, <2>1
    <3>2. process'.next = process.next /\ process'.writes = process.writes
      BY <1>5, <2>1
    <3>3. process.next <= Len(process.writes) /\ process.next \in 1..(Len(process.writes) + 1)
      BY <1>4
    <3>4. QED
      BY <3>1, <3>2, <3>3
  <2>3. ProcessOK'
    BY <1>1, <1>2, <1>5, <1>6, <2>1, <2>2 DEF ProcessOK, next, im, before
  <2>4. QED
    BY <1>1, <1>7, <2>3 DEF RunInv
<1>9. CASE ~(process.image < Len(im))
  <2>1. process.image = Len(im) /\ process'.next = process.next + 1 /\ process'.image = 1
    BY <1>3, <1>5, <1>9
  <2>2. Written(before, <<next[1], next[2]>>) = FilesAfter(process.read, process.writes, process.next)
    <3>1. Len(process.writes) \in Nat /\ process.next \in 1..Len(process.writes)
      BY <1>4
    <3>2. FilesAfter(process.read, process.writes, process.next) = Written(before, next)
      BY <3>1, FilesAfterNext, ZenonT(30)
    <3>3. QED
      BY <3>2 DEF Written
  <2> HIDE DEF im, next, before
  <2>3. /\ process'.next \in 1..(Len(process'.writes) + 1) /\ process'.next - 1 = process.next
        /\ disk' = FilesAfter(process'.read, process'.writes, process.next)
    BY <1>3, <1>4, <1>5, <2>1, <2>2
  <2>4. ProcessOK'
    BY <1>1, <1>2, <1>5, <1>6, <2>1, <2>3 DEF ProcessOK
  <2>5. QED
    BY <1>1, <1>7, <2>4 DEF RunInv
<1>10. QED
  BY <1>8, <1>9

\* No step of a run breaks the invariant.
LEMMA RunStep == ASSUME RunInv, [Next]_vars PROVE RunInv'
<1>1. CASE Start
  BY <1>1, RunStart
<1>2. CASE Write
  BY <1>2, RunWrite
<1>3. CASE Exit
  <2>1. /\ process.running /\ process' = NoProcess
        /\ pos' = (IF process.ok THEN pos + 1 ELSE pos) /\ stopped' = ~process.ok
        /\ job' = job /\ disk' = disk /\ crashes' = crashes
    BY <1>3 DEF Exit
  <2>2. pos \in DOMAIN job.script
    BY <2>1, RunningFacts DEF ProcessOK, RunInv, NoProcess
  <2>3. pos' \in 1..(Len(job.script) + 1)
    BY <2>1, <2>2, JobsAssumption DEF IsScript, RunInv
  <2>4. QED
    BY <2>1, <2>3 DEF RunInv
<1>4. CASE Crash
  <2>1. /\ process' = NoProcess /\ crashes < MaxCrashes /\ crashes' = crashes + 1
        /\ job' = job /\ disk' = disk /\ pos' = pos /\ stopped' = stopped
    BY <1>4 DEF Crash
  <2>2. crashes' \in 0..MaxCrashes
    BY <2>1, CrashesAssumption DEF RunInv
  <2>3. QED
    BY <2>1, <2>2 DEF RunInv
<1>5. CASE UNCHANGED vars
  BY <1>5 DEF RunInv, vars, ProcessOK, Current
<1>6. QED
  BY <1>1, <1>2, <1>3, <1>4, <1>5 DEF Next, Step

\* The invariant holds throughout.
THEOREM RunSafe == Spec => []RunInv
<1>1. Init => RunInv
  BY RunStarts
<1>2. RunInv /\ [Next]_vars => RunInv'
  BY RunStep
<1>3. QED
  BY <1>1, <1>2, PTL DEF Spec

\* In every directory, for every script and however often a process dies: a run
\* keeps its files, and a process writes only the files that its command names.
THEOREM RunTypeOK == Spec => []TypeOK
<1>1. ASSUME RunInv PROVE TypeOK
  <2>1. process.running => /\ DOMAIN process.read = Path
                           /\ \A i \in DOMAIN process.writes : process.writes[i][1] \in Targets(Current)
    <3>1. SUFFICES ASSUME process.running
                   PROVE  /\ DOMAIN process.read = Path
                          /\ \A i \in DOMAIN process.writes : process.writes[i][1] \in Targets(Current)
      OBVIOUS
    <3>2. ProcessOK /\ AreWrites(Current, process.read, process.writes)
      BY <1>1, <3>1, RunningFacts DEF RunInv, NoProcess, ProcessOK
    <3>3. QED
      BY <3>2 DEF ProcessOK, AreWrites, IsWrite, DirOK
  <2>2. QED
    BY <1>1, <2>1 DEF RunInv, TypeOK, DirOK
<1>2. QED
  BY <1>1, RunSafe, PTL

-----------------------------------------------------------------------------
(* Commands are atomic *)

\* Both specifications write files in the same way.
LEMMA AtomicAfter ==
    ASSUME NEW ws, NEW n PROVE Atomic!After(ws, n) = FilesAfter(Files, ws, n)
<1> QED BY DEF Atomic!After, FilesAfter

\* An exit is a command run at once, a crash is one that died, and no other step is seen.
LEMMA AtomicStep ==
    ASSUME RunInv, [Next]_vars
    PROVE  [Atomic!Next]_(Atomic!vars)
<1>1. CASE Start
  <2>1. job' = job /\ pos' = pos /\ disk' = disk /\ stopped' = stopped /\ process.running = FALSE
    BY <1>1 DEF Start, RunInv, ProcessOK, NoProcess
  <2>2. process'.running = TRUE /\ process'.read = disk
    BY <1>1 DEF Start
  <2>3. Files' = Files
    BY <2>1, <2>2 DEF Files
  <2>4. QED
    BY <2>1, <2>3 DEF Atomic!vars
<1>2. CASE Write
  <2>1. /\ job' = job /\ pos' = pos /\ stopped' = stopped /\ process.running
        /\ process' = Advanced(process)
    BY <1>2 DEF Write
  <2>2. ProcessOK
    BY <2>1 DEF RunInv, NoProcess
  <2>3. process'.running = process.running /\ process'.read = process.read
    BY <2>1, <2>2 DEF Advanced, ProcessOK
  <2>4. Files' = Files
    BY <2>1, <2>3 DEF Files
  <2>5. QED
    BY <2>1, <2>4 DEF Atomic!vars
<1>3. ASSUME process.running
      PROVE  /\ ProcessOK /\ AreWrites(Current, process.read, process.writes)
             /\ ~stopped /\ pos \in DOMAIN job.script /\ Files = process.read
             /\ \E o \in Outcomes(Current, Files) : o.ok = process.ok /\ o.writes = process.writes
  <2>1. ProcessOK /\ AreWrites(Current, process.read, process.writes)
    BY <1>3, RunningFacts DEF RunInv, NoProcess, ProcessOK
  <2>2. QED
    BY <1>3, <2>1 DEF ProcessOK, Files
<1>4. CASE Exit
  <2>1. /\ process.running /\ process' = NoProcess /\ process.next > Len(process.writes)
        /\ pos' = (IF process.ok THEN pos + 1 ELSE pos) /\ stopped' = ~process.ok
        /\ job' = job /\ disk' = disk
    BY <1>4 DEF Exit
  <2>2. process.next - 1 = Len(process.writes) /\ process.image = 1
        /\ disk = FilesAfter(process.read, process.writes, process.next - 1)
    BY <1>3, <2>1 DEF ProcessOK, AreWrites
  <2>3. Files' = FilesAfter(Files, process.writes, Len(process.writes))
    BY <1>3, <2>1, <2>2 DEF Files, NoProcess
  <2>4. PICK o \in Outcomes(Current, Files) : o.ok = process.ok /\ o.writes = process.writes
    BY <1>3, <2>1
  <2>5. Atomic!Run(o)
    BY <2>1, <2>3, <2>4, AtomicAfter DEF Atomic!Run
  <2>6. QED
    BY <1>3, <2>1, <2>4, <2>5 DEF Atomic!Next
<1>5. CASE Crash
  <2>1. /\ process.running /\ process' = NoProcess
        /\ job' = job /\ disk' = disk /\ pos' = pos /\ stopped' = stopped
    BY <1>5 DEF Crash
  <2>2. Files' = disk
    BY <2>1 DEF Files, NoProcess
  <2>3. PICK o \in Outcomes(Current, Files) : o.ok = process.ok /\ o.writes = process.writes
    BY <1>3, <2>1
  <2> DEFINE n == process.next - 1
             next == process.writes[process.next]
  <2>4. n \in 0..Len(o.writes) /\ n + 1 = process.next
    BY <1>3, <2>1, <2>3 DEF ProcessOK, AreWrites
  <2>5. \/ Files' = FilesAfter(Files, o.writes, n)
        \/ /\ n < Len(o.writes)
           /\ \E part \in Parts(o.writes[n + 1][2]) :
                 Files' = [FilesAfter(Files, o.writes, n) EXCEPT ![o.writes[n + 1][1]] = part]
    <3>1. CASE disk = FilesAfter(process.read, process.writes, n)
      BY <1>3, <2>1, <2>2, <2>3, <3>1
    <3>2. CASE /\ process.next <= Len(process.writes)
               /\ process.image \in 2..Len(Images(next[2]))
               /\ disk = Written(FilesAfter(process.read, process.writes, n),
                                 <<next[1], Images(next[2])[process.image - 1]>>)
      <4> DEFINE part == Images(next[2])[process.image - 1]
      <4>1. IsContent(next[2])
        BY <1>3, <2>1, <3>2 DEF ProcessOK, AreWrites, IsWrite
      <4>2. DOMAIN Images(next[2]) = 1..Len(Images(next[2])) /\ Len(Images(next[2])) \in Nat
        BY <4>1, ContentImages
      <4>3. process.image - 1 \in DOMAIN Images(next[2])
        BY <3>2, <4>2
      <4>4. part \in Parts(next[2])
        BY <4>3 DEF Parts
      <4>5. n < Len(o.writes) /\ o.writes[n + 1] = next
        BY <2>3, <2>4, <3>2
      <4>6. Files' = [FilesAfter(Files, o.writes, n) EXCEPT ![next[1]] = part]
        <5>1. Files' = Written(FilesAfter(Files, o.writes, n), <<next[1], part>>)
          BY <1>3, <2>1, <2>2, <2>3, <3>2
        <5> HIDE DEF n, next, part
        <5>2. QED
          BY <5>1 DEF Written
      <4> HIDE DEF n, next, part
      <4>7. QED
        BY <4>4, <4>5, <4>6
    <3>3. QED
      BY <1>3, <2>1, <3>1, <3>2 DEF ProcessOK
  <2>6. Atomic!Die(o)
    <3> HIDE DEF n
    <3>1. QED
      BY <2>1, <2>4, <2>5, AtomicAfter DEF Atomic!Die
  <2>7. QED
    BY <1>3, <2>1, <2>3, <2>6 DEF Atomic!Next
<1>6. CASE UNCHANGED vars
  <2>1. job' = job /\ pos' = pos /\ disk' = disk /\ stopped' = stopped /\ process' = process
    BY <1>6 DEF vars
  <2>2. QED
    BY <2>1 DEF Atomic!vars, Files
<1>7. QED
  BY <1>1, <1>2, <1>4, <1>5, <1>6 DEF Next, Step

\* A command of poa-cli takes effect at once on the files it read, or, when its
\* process dies, leaves a prefix of its writes and perhaps a part of the next.
THEOREM RunIsAtomic == Spec => AtomicSpec
<1>1. Init => Atomic!Init
  BY DEF Init, Atomic!Init
<1>2. RunInv /\ [Next]_vars => [Atomic!Next]_(Atomic!vars)
  BY AtomicStep
<1>3. QED
  BY <1>1, <1>2, RunSafe, PTL DEF Spec, AtomicSpec, Atomic!Spec

-----------------------------------------------------------------------------
(* What is accepted has been applied *)

\* The fixed-set route, on whatever files there are.
LEMMA VerifiedFilesMove ==
    ASSUME NEW dir, DirOK(dir), NEW old \in StatePath, NEW new \in StatePath, NEW proof \in ProofPath,
           NEW d \in Windows, Verifies(dir, old, d, new, proof)
    PROVE  dir[new].value.total = Wrap(dir[old].value.total + Owed(dir[old].value, d))
<1>1. old \in Path /\ new \in Path /\ proof \in Path
  BY DEF Path
<1>2. dir[old].kind = "state" /\ dir[proof].kind = "proof"
  BY DEF Verifies
<1>3. VerifyUpdate(PrefixForVerify(dir[Srs].degree, d), dir[old].value, d,
                   dir[new].value, dir[proof].value)
  BY DEF Verifies
<1>4. FileOK(dir[old]) /\ FileOK(dir[proof])
  BY <1>1 DEF DirOK
<1>5. dir[old].value.poly \in Polynomials /\ Carries(dir[old].value)
  BY <1>2, <1>4 DEF FileOK
<1>6. PICK y : Honest(y) /\ dir[proof].value = y.proof
  BY <1>2, <1>4 DEF FileOK
<1>7. dir[old].value.total \in Int /\ dir[old].value.commitment.value \in Field
  BY <1>5 DEF Carries
<1>8. WindowMoved(dir[old].value, d, dir[new].value)
  BY <1>3, <1>5, <1>6, <1>7, VerifiedMoves
<1>9. QED
  BY <1>8 DEF WindowMoved

\* The SMT route.
LEMMA VerifiedSmtFilesMove ==
    ASSUME TreeFits, NEW dir, DirOK(dir),
           NEW old \in StatePath, NEW new \in StatePath, NEW proof \in ProofPath,
           NEW mode, SmtFilesVerify(dir, old, new, proof, mode)
    PROVE  SmtMoved(dir[old].value, dir[new].value, dir[proof].value.witness)
<1> DEFINE w == dir[proof].value.witness
<1>1. FileOK(dir[old]) /\ FileOK(dir[new]) /\ FileOK(dir[proof])
  BY DEF DirOK, Path
<1>2. dir[proof].kind = "smt-proof"
  BY DEF SmtFilesVerify
<1>3. Summed(w)
  BY <1>1, <1>2 DEF FileOK
<1>4. PICK s \in SmtLoaded(dir[old]), t \in SmtLoaded(dir[new]) :
         SmtVerifies(s, t, dir[proof].value, mode)
  BY DEF SmtFilesVerify
<1>5. IsLoaded(s) /\ ToStored(s) = dir[old].value
  <2>1. dir[old].kind = "smt-state" /\ s \in Loaded(dir[old].value)
    BY <1>4 DEF SmtLoaded
  <2>2. QED
    BY <1>1, <2>1, LoadedState DEF FileOK
<1>6. ToStored(t) = dir[new].value
  <2>1. dir[new].kind = "smt-state" /\ t \in Loaded(dir[new].value)
    BY <1>4 DEF SmtLoaded
  <2>2. QED
    BY <2>1 DEF Loaded
<1>7. Replays(s, w) /\ Replayed(s, w, t.label, dir[proof].value.blind) = t
  BY <1>4 DEF SmtVerifies, ReplayMatches
<1>8. SmtMoved(ToStored(s), ToStored(t), w)
  BY <1>3, <1>5, <1>7, ReplayMoves
<1>9. QED
  BY <1>5, <1>6, <1>8

\* In a tree whose index holds a whole path and where no two keys share one,
\* whatever mix of files is found in the directory, written whole or in part by
\* whichever run, what verify or smt-verify accepts has moved the total by what
\* the window owes and, in the SMT route, each named account by its delta.
THEOREM RunAcceptsApplied ==
    ASSUME TreeFits PROVE Spec => []AcceptedMeansApplied
<1>1. ASSUME RunInv PROVE AcceptedMeansApplied
  <2>1. DirOK(disk)
    BY <1>1 DEF RunInv
  <2>2. QED
    BY <2>1, VerifiedFilesMove, VerifiedSmtFilesMove DEF AcceptedMeansApplied
<1>2. QED
  BY <1>1, RunSafe, PTL

-----------------------------------------------------------------------------
(* A replayed state loads from its file *)

\* The leaves that a replay does not name stay as they are; the named ones are written to the tree.
LEMMA ReplayedTree ==
    ASSUME TreeFits, NEW s, IsLoaded(s), NEW w, WitnessOK(w), Replays(s, w), NEW label, NEW blind
    PROVE  LET n == Replayed(s, w, label, blind)
               named == NamedBy(s.leaves, w)
           IN /\ \A a \in DOMAIN s.leaves : a \notin named => n.leaves[a] = s.leaves[a]
              /\ n.layers = Host!UpsertAll(s.layers, n.leaves, named)
<1> DEFINE n == Replayed(s, w, label, blind)
           lv == n.leaves
           ly == n.layers
           old == s.leaves
           named == NamedBy(old, w)
<1>1. CASE w.op = "update"
  <2>1. lv = Lib(s)!UpdatedLeaves(w) /\ ly = Lib(s)!UpdatedLayers(w)
    BY <1>1 DEF Replayed
  <2>2. lv = [a \in DOMAIN old |->
                IF a \in Members(w) THEN [balance |-> old[a].balance + w.delta[a], salt |-> old[a].salt]
                ELSE old[a]]
    BY <1>1, LibNames DEF Replayed, Lib!UpdatedLeaves
  <2>3. Members(w) = named
    BY <1>1, MembersAreNamed
  <2>4. ly = Lib(s)!UpsertAll(s.layers, lv, Members(w))
    BY <2>1, LibNames DEF Lib!UpdatedLayers
  <2>5. ly = Host!UpsertAll(s.layers, lv, named)
    BY <2>3, <2>4, SameUpserts
  <2> HIDE DEF named, lv, ly, old
  <2>6. \A a \in DOMAIN old : a \notin named => lv[a] = old[a]
    BY <2>2, <2>3
  <2>7. QED
    BY <2>5, <2>6 DEF named, lv, ly, old
<1>2. CASE w.op # "update"
  <2>1. lv = Lib(s)!InsertedLeaves(w) /\ ly = Lib(s)!InsertedLayers(w)
    BY <1>2 DEF Replayed
  <2>2. lv = [a \in DOMAIN old \cup {w.address} |->
                IF a = w.address THEN [balance |-> w.balance, salt |-> w.salt] ELSE old[a]]
    BY <2>1 DEF Lib!InsertedLeaves, Lib!Put
  <2>3. named = {w.address}
    BY <1>2 DEF NamedBy
  <2>4. ly = Lib(s)!UpsertAll(s.layers, lv, {w.address})
    BY <2>1 DEF Lib!InsertedLayers
  <2>5. ly = Host!UpsertAll(s.layers, lv, named)
    BY <2>3, <2>4, SameUpserts
  <2> HIDE DEF named, lv, ly, old
  <2>6. \A a \in DOMAIN old : a \notin named => lv[a] = old[a]
    BY <2>2, <2>3
  <2>7. QED
    BY <2>5, <2>6 DEF named, lv, ly, old
<1>3. QED
  BY <1>1, <1>2

\* compute_layers builds the tree that the replay maintained.
LEMMA ReplayedLayers ==
    ASSUME TreeFits, DistinctReserves,
           NEW s, IsLoaded(s), NEW w, WitnessOK(w), Replays(s, w), NEW label, NEW blind
    PROVE  LET n == Replayed(s, w, label, blind) IN n.layers = Host!ComputeLayers(n.leaves)
<1> DEFINE n == Replayed(s, w, label, blind)
           lv == n.leaves
           ly == n.layers
           old == s.leaves
           named == NamedBy(old, w)
           new == Host!ComputeLayers(lv)
<1>1. /\ \A a \in DOMAIN old : a \notin named => lv[a] = old[a]
      /\ ly = Host!UpsertAll(s.layers, lv, named)
  BY ReplayedTree
<1>2. DOMAIN lv = DOMAIN old \cup named /\ named \in SUBSET Address /\ LeavesOK(lv)
  BY ReplayedLeaves
<1>3. DOMAIN old \subseteq Address /\ s.layers = Host!ComputeLayers(old)
  BY DEF IsLoaded, LeavesOK
<1>4. /\ DOMAIN lv \subseteq Address
      /\ \A a, b \in DOMAIN lv : Host!KeyOf(a) = Host!KeyOf(b) => a = b
  BY <1>2, SameLeafIndex DEF LeavesOK
<1>5. Host!IndexFits /\ Host!NoPathClash
  BY HostTreeFits
<1> HIDE DEF lv, ly, old, named, new
<1>6. Host!TreeOK(s.layers) /\ Host!SlotsOK(s.layers, old)
  BY <1>3, <1>5, HostFacts, Host!ComputedTree, Host!ComputedSlots
<1>7. Host!TreeOK(new) /\ Host!SlotsOK(new, lv)
  BY <1>4, <1>5, HostFacts, Host!ComputedTree, Host!ComputedSlots DEF new
<1>8. /\ Host!TreeOK(ly)
      /\ DOMAIN ly[0] = DOMAIN s.layers[0] \cup {Host!LeafIndex(a) : a \in named}
      /\ \A i \in DOMAIN ly[0] :
            \/ \E a \in named : Host!LeafIndex(a) = i /\ ly[0][i] = Host!HashOfLeaf(lv, a)
            \/ /\ i \in DOMAIN s.layers[0] /\ \A a \in named : Host!LeafIndex(a) # i
               /\ ly[0][i] = s.layers[0][i]
  BY <1>1, <1>2, <1>5, <1>6, HostFacts, Host!UpsertAllTree
<1>9. DOMAIN ly[0] = DOMAIN new[0]
  BY <1>2, <1>6, <1>7, <1>8 DEF Host!SlotsOK
<1>10. ASSUME NEW i \in DOMAIN ly[0]
       PROVE  \E a \in DOMAIN lv : Host!LeafIndex(a) = i /\ ly[0][i] = Host!HashOfLeaf(lv, a)
  <2>1. CASE \E a \in named : Host!LeafIndex(a) = i /\ ly[0][i] = Host!HashOfLeaf(lv, a)
    BY <1>2, <2>1
  <2>2. CASE /\ i \in DOMAIN s.layers[0] /\ \A a \in named : Host!LeafIndex(a) # i
             /\ ly[0][i] = s.layers[0][i]
    <3>1. PICK a \in DOMAIN old : Host!LeafIndex(a) = i /\ s.layers[0][i] = Host!HashOfLeaf(old, a)
      BY <1>6, <2>2 DEF Host!SlotsOK
    <3>2. lv[a] = old[a]
      BY <1>1, <2>2, <3>1
    <3>3. Host!HashOfLeaf(lv, a) = Host!HashOfLeaf(old, a)
      BY <3>2 DEF Host!HashOfLeaf
    <3>4. QED
      BY <1>2, <2>2, <3>1, <3>3
  <2>3. QED
    BY <1>8, <2>1, <2>2
<1>11. ASSUME NEW i \in DOMAIN ly[0] PROVE ly[0][i] = new[0][i]
  <2>1. PICK a \in DOMAIN lv : Host!LeafIndex(a) = i /\ ly[0][i] = Host!HashOfLeaf(lv, a)
    BY <1>10
  <2>2. PICK b \in DOMAIN lv : Host!LeafIndex(b) = i /\ new[0][i] = Host!HashOfLeaf(lv, b)
    BY <1>7, <1>9 DEF Host!SlotsOK
  <2>3. Host!KeyOf(a) = Host!KeyOf(b)
    BY <1>4, <1>5, <2>1, <2>2, HostFacts DEF Host!NoPathClash
  <2>4. a = b
    BY <1>4, <2>3
  <2>5. QED
    BY <2>1, <2>2, <2>4
<1>12. ly[0] = new[0]
  BY <1>7, <1>8, <1>9, <1>11 DEF Host!TreeOK, Host!IsFcn
<1>13. ly = new
  BY <1>7, <1>8, <1>12, HostFacts, Host!TreeUnique
<1>14. QED
  BY <1>13 DEF ly, new, lv

\* The sum over the leaves moves with the total, and fits where the total does.
LEMMA ReplayedTotal ==
    ASSUME TreeFits, OverflowPanics => ReservesNotNegative,
           NEW s, IsLoaded(s), NEW w, Summed(w), Replays(s, w), NEW label, NEW blind
    PROVE  LET n == Replayed(s, w, label, blind)
           IN /\ n.total = Wrap(Total(OrZero(BalancesOf(n.leaves))))
              /\ OverflowPanics => SumFits(OrZero(BalancesOf(n.leaves)))
<1> DEFINE n == Replayed(s, w, label, blind)
           lv == n.leaves
           named == NamedBy(s.leaves, w)
           moved == OrZero([a \in named |-> MovedBy(w, a)])
           f == OrZero(BalancesOf(s.leaves))
           g == OrZero(BalancesOf(lv))
<1>1. WitnessOK(w) /\ LeavesOK(s.leaves)
  BY DEF Summed, IsLoaded
<1>2. /\ LeavesOK(lv)
      /\ \A a \in Address :
            BalanceIn(lv, a) = BalanceIn(s.leaves, a) + IF a \in named THEN MovedBy(w, a) ELSE 0
  BY <1>1, ReplayedLeaves
<1>3. /\ moved \in [Address -> Int] /\ Total(moved) \in Int /\ Moves(s, w) = Total(moved)
  BY ReplayedSum
<1>4. f \in [Address -> Int] /\ g \in [Address -> Int]
  BY <1>1, <1>2, BalancesAreInt
<1>5. \A a \in Address : moved[a] = IF a \in named THEN MovedBy(w, a) ELSE 0
  BY DEF OrZero
<1>6. \A a \in Address : f[a] = BalanceIn(s.leaves, a) /\ g[a] = BalanceIn(lv, a)
  BY <1>1, <1>2, BalancesOrZero
<1>7. n.total = s.total + Moves(s, w)
  BY DEF Replayed
<1>8. InI128(s.total + Moves(s, w))
  BY ReplayChecks
<1>9. s.total = Wrap(Total(f)) /\ (OverflowPanics => SumFits(f))
  BY DEF IsLoaded
<1>10. OverflowPanics => \A a \in DOMAIN lv : lv[a].balance >= 0
  BY <1>2 DEF LeavesOK
<1> HIDE DEF n, lv, named, moved, f, g
<1>11. \A a \in Address : g[a] = f[a] + moved[a]
  BY <1>2, <1>5, <1>6
<1>12. Total(g) = Total(f) + Total(moved) /\ Total(f) \in Int /\ Total(g) \in Int
  BY <1>3, <1>4, <1>11, TotalAdds, TotalType
<1>13. n.total = Wrap(Total(g))
  <2> DEFINE x == Total(f)
             y == Total(moved)
  <2>1. x \in Int /\ y \in Int /\ Total(g) = x + y /\ n.total = Wrap(x) + y /\ InI128(Wrap(x) + y)
    BY <1>3, <1>7, <1>8, <1>9, <1>12
  <2> HIDE DEF x, y
  <2>2. Wrap(x) \in Int
    BY <2>1, WrapType
  <2>3. Wrap(x) + y = Wrap(Wrap(x) + y)
    BY <2>1, <2>2, WrapInRange
  <2>4. QED
    BY <2>1, <2>3, WrapAdds
<1>14. ASSUME OverflowPanics PROVE SumFits(g)
  <2>1. InI128(Total(f))
    BY <1>9, <1>14, NAssumption DEF SumFits, Total
  <2>2. s.total = Total(f)
    BY <1>9, <1>12, <2>1, WrapInRange
  <2>3. InI128(Total(g))
    BY <1>3, <1>8, <1>12, <2>2
  <2>4. \A a \in Address : g[a] >= 0
    <3>1. SUFFICES ASSUME NEW a \in Address PROVE g[a] >= 0
      OBVIOUS
    <3>2. CASE a \in DOMAIN lv
      BY <1>6, <1>10, <1>14, <3>2 DEF BalanceIn
    <3>3. CASE a \notin DOMAIN lv
      <4>1. g[a] = 0
        BY <1>6, <3>3 DEF BalanceIn
      <4>2. QED
        BY <4>1
    <3>4. QED
      BY <3>2, <3>3
  <2>5. ASSUME NEW k \in 0..N PROVE InI128(PartialSums(g)[k])
    <3>1. 0 <= PartialSums(g)[k] /\ PartialSums(g)[k] <= Total(g)
      BY <1>4, <2>4, PartialSumsGrow
    <3>2. PartialSums(g)[k] \in Int
      BY <1>4, PartialSumsDef
    <3>3. QED
      BY <1>12, <2>3, <3>1, <3>2, WidthAssumption DEF InI128
  <2>6. QED
    BY <2>5 DEF SumFits
<1>15. QED
  BY <1>13, <1>14 DEF n, g, lv

\* So the file of a new state loads as that state.
LEMMA ReplayReloads ==
    ASSUME TreeFits, DistinctReserves, OverflowPanics => ReservesNotNegative,
           NEW s, IsLoaded(s), NEW w, Summed(w), Replays(s, w), NEW label, NEW blind
    PROVE  LET n == Replayed(s, w, label, blind) IN n \in Loaded(ToStored(n))
<1> DEFINE n == Replayed(s, w, label, blind)
           lv == n.leaves
           stored == ToStored(n)
           m == SmtNew(label, lv, n.blind)
<1>1. WitnessOK(w)
  BY DEF Summed
<1>2. n.layers = Tree!ComputeLayers(lv)
  BY <1>1, ReplayedLayers, SameLayers
<1>3. n.total = Wrap(Total(OrZero(BalancesOf(lv)))) /\ (OverflowPanics => SumFits(OrZero(BalancesOf(lv))))
  BY ReplayedTotal
<1>4. n = [label |-> label, blind |-> n.blind, total |-> n.total, leaves |-> lv, layers |-> n.layers]
  BY DEF Replayed
<1>5. stored.label = label /\ stored.leaves = lv /\ stored.commitment[2] = n.blind
  BY <1>4 DEF ToStored
<1>6. m = [label |-> label, leaves |-> lv, blind |-> n.blind, layers |-> n.layers, total |-> n.total]
  BY <1>2, <1>3 DEF SmtNew, BalancesOf
<1>7. ~SmtNewPanics(lv)
  BY <1>3 DEF SmtNewPanics, BalancesOf
<1>8. m = n
  <2> DEFINE la == label
             b == n.blind
             t == n.total
             y == n.layers
  <2>1. n = [label |-> la, blind |-> b, total |-> t, leaves |-> lv, layers |-> y]
    BY <1>4
  <2>2. m = [label |-> la, leaves |-> lv, blind |-> b, layers |-> y, total |-> t]
    BY <1>6
  <2> HIDE DEF n, m, lv, b, t, y
  <2>3. QED
    BY <2>1, <2>2
<1> HIDE DEF n, lv, stored
<1>9. SmtNew(stored.label, stored.leaves, stored.commitment[2]) = n
  BY <1>5, <1>8
<1>10. n \in Loaded(stored)
  BY <1>5, <1>7, <1>9 DEF Loaded, stored
<1>11. QED
  BY <1>10 DEF n, stored

-----------------------------------------------------------------------------
(* What a command wrote verifies *)

\* The files of a command that changed a state verify together.
Settled(dir, c) ==
    IF IsUpdate(c)
      THEN InI128(Owed(dir[c.from].value, c.window))
             => Verifies(dir, c.from, c.window, c.to, ProofPathOf(c))
      ELSE SmtFilesVerify(dir, c.from, c.to, ProofPathOf(c),
                          IF c.cmd = "smt-insert" THEN "insert" ELSE "update")
FilesOf(c) == {Srs, c.from, c.to, ProofPathOf(c)}

\* That is a matter of these files alone.
LEMMA SettledByFiles ==
    ASSUME NEW c, NEW dir, NEW dir2, \A p \in FilesOf(c) : dir2[p] = dir[p], Settled(dir, c)
    PROVE  Settled(dir2, c)
<1>1. /\ dir2[Srs] = dir[Srs] /\ dir2[c.from] = dir[c.from] /\ dir2[c.to] = dir[c.to]
      /\ dir2[ProofPathOf(c)] = dir[ProofPathOf(c)]
  BY DEF FilesOf
<1>2. QED
  BY <1>1 DEF Settled, Verifies, SmtFilesVerify

\* Two writes to two files.
LEMMA BothWritten ==
    ASSUME NEW files, DOMAIN files = Path, NEW x, NEW y, x[1] \in Path, y[1] \in Path, x[1] # y[1]
    PROVE  LET dir == FilesAfter(files, <<x, y>>, Len(<<x, y>>))
           IN /\ dir[x[1]] = x[2] /\ dir[y[1]] = y[2]
              /\ \A p \in Path : p # x[1] /\ p # y[1] => dir[p] = files[p]
<1> DEFINE ws == <<x, y>>
<1>1. Len(ws) = 2 /\ ws[1] = x /\ ws[2] = y
  OBVIOUS
<1> HIDE DEF ws
<1>2. /\ FilesAfter(files, ws, 0) = files
      /\ \A i \in 1..Len(ws) : FilesAfter(files, ws, i) = Written(FilesAfter(files, ws, i - 1), ws[i])
  <2>1. Len(ws) \in Nat
    BY <1>1
  <2>2. QED
    BY <2>1, FilesAfterNone, FilesAfterNext, ZenonT(30)
<1>3. FilesAfter(files, ws, 1) = Written(files, x)
  <2>1. PICK i \in 1..Len(ws) : i = 1 /\ i - 1 = 0
    BY <1>1
  <2>2. FilesAfter(files, ws, i) = Written(FilesAfter(files, ws, i - 1), ws[i])
    BY <1>2
  <2>3. QED
    BY <1>1, <1>2, <2>1, <2>2
<1>4. FilesAfter(files, ws, 2) = Written(Written(files, x), y)
  <2>1. PICK i \in 1..Len(ws) : i = 2 /\ i - 1 = 1
    BY <1>1
  <2>2. FilesAfter(files, ws, i) = Written(FilesAfter(files, ws, i - 1), ws[i])
    BY <1>2
  <2>3. QED
    BY <1>1, <1>3, <2>1, <2>2
<1>5. FilesAfter(files, ws, Len(ws)) = Written(Written(files, x), y)
  BY <1>1, <1>4
<1>6. /\ Written(Written(files, x), y)[x[1]] = x[2] /\ Written(Written(files, x), y)[y[1]] = y[2]
      /\ \A p \in Path : p # x[1] /\ p # y[1] => Written(Written(files, x), y)[p] = files[p]
  BY DEF Written
<1>7. QED
  BY <1>5, <1>6 DEF ws

\* An update's own proof verifies on what it wrote, if what is owed fits i128.
LEMMA UpdateSettles ==
    ASSUME NEW files, DirOK(files), NEW c, IsCommand(c), IsUpdate(c), c.from # c.to,
           NEW w, Updated(c, files, w)
    PROVE  Settled(FilesAfter(files, w, Len(w)), c)
<1> DEFINE s == files[c.from].value
           d == c.window
           p == UpdateProof(s, d, c.label)
           n == NextState(s, p)
           x == <<c.to, StateFile(n)>>
           y == <<c.proof, ProofFile(p)>>
           dir == FilesAfter(files, w, Len(w))
           srs == PrefixForUpdate(files[Srs].degree, s, d)
           k == Cardinality(DOMAIN d)
           h == [old |-> s, window |-> d, new |-> n, proof |-> p]
<1>1. /\ files[c.from].kind = "state"
      /\ ReadsSrsPrefix(files[Srs], Len(s.poly), k + 1)
      /\ Applies(s, d, srs)
      /\ w = <<x, y>>
  BY DEF Updated, UpdateWrites
<1>2. /\ d \in Windows /\ c.from \in StatePath /\ c.to \in StatePath /\ c.proof \in ProofPath
      /\ ProofPathOf(c) = c.proof
  BY ProofPathGiven DEF IsCommand, IsUpdate
<1>3. /\ c.from \in Path /\ c.to \in Path /\ c.proof \in Path /\ Srs \in Path
      /\ c.to # c.proof /\ c.from # c.proof /\ Srs # c.to /\ Srs # c.proof
  BY <1>2 DEF Path, StatePath, ProofPath, Srs
<1>4. s.poly \in Polynomials /\ s.degree \in Nat
  <2>1. FileOK(files[c.from])
    BY <1>3 DEF DirOK
  <2>2. QED
    BY <1>1, <2>1 DEF FileOK
<1>5. /\ dir[c.to] = StateFile(n) /\ dir[c.proof] = ProofFile(p)
      /\ dir[c.from] = files[c.from] /\ dir[Srs] = files[Srs]
  <2>1. x[1] = c.to /\ y[1] = c.proof /\ x[2] = StateFile(n) /\ y[2] = ProofFile(p)
    OBVIOUS
  <2>2. DOMAIN files = Path
    BY DEF DirOK
  <2> HIDE DEF x, y
  <2>3. QED
    BY <1>1, <1>3, <2>1, <2>2, BothWritten
<1>6. ASSUME InI128(Owed(s, d))
      PROVE  VerifyUpdate(PrefixForVerify(s.degree, d), s, d, n, p)
  <2>1. h.old = s /\ h.window = d /\ h.new = n /\ h.proof = p
    OBVIOUS
  <2>2. Honest(h)
    <3>1. p = UpdateProof(s, d, c.label) /\ n = NextState(s, p)
      OBVIOUS
    <3> HIDE DEF s, p, n, srs, h, d
    <3>2. Made(h, c.label, srs)
      BY <1>1, <2>1, <3>1 DEF Made
    <3>3. QED
      BY <1>2, <1>4, <2>1, <3>2 DEF Honest
  <2>3. Suffices(PrefixForVerify(s.degree, d), k)
    BY <1>1, <1>2, <1>4, PrefixSufficesToVerify
  <2> HIDE DEF h, s, d, p, n
  <2>4. VerifyUpdate(PrefixForVerify(s.degree, d), h.old, h.window, h.new, h.proof)
    BY <1>6, <2>1, <2>2, <2>3, MadeIsAccepted
  <2>5. QED
    BY <2>1, <2>4
<1>7. s.degree = files[Srs].degree
  BY <1>1 DEF Applies, PrefixForUpdate
<1>8. ReadsSrsPrefix(files[Srs], k + 1, k + 1)
  BY <1>1 DEF ReadsSrsPrefix
<1>9. /\ StateFile(n).kind = "state" /\ StateFile(n).value = n
      /\ ProofFile(p).kind = "proof" /\ ProofFile(p).value = p
  BY DEF StateFile, ProofFile
<1> HIDE DEF dir, n, p
<1>10. InI128(Owed(dir[c.from].value, d)) => Verifies(dir, c.from, d, c.to, c.proof)
  BY <1>1, <1>5, <1>6, <1>7, <1>8, <1>9 DEF Verifies
<1>11. QED
  BY <1>2, <1>10 DEF Settled, dir

\* An SMT operation's proof verifies on what it wrote, through the formats of both states.
LEMMA SmtChangeSettles ==
    ASSUME StatesReload, NEW files, DirOK(files), NEW c, IsCommand(c), IsSmtChange(c), c.from # c.to,
           NEW w, SmtChanged(c, files, w)
    PROVE  Settled(FilesAfter(files, w, Len(w)), c)
<1> DEFINE dir == FilesAfter(files, w, Len(w))
           mode == IF c.cmd = "smt-insert" THEN "insert" ELSE "update"
<1>1. PICK s \in SmtLoaded(files[c.from]) :
         \E v \in WitnessFor(c, s) : \E r \in Proved(s, v, c.label, <<v.op, c.label>>) :
             w = SmtWrites(c, r.state, r.proof)
  BY DEF SmtChanged
<1>2. PICK v \in WitnessFor(c, s) :
         \E r \in Proved(s, v, c.label, <<v.op, c.label>>) : w = SmtWrites(c, r.state, r.proof)
  BY <1>1
<1>3. PICK r \in Proved(s, v, c.label, <<v.op, c.label>>) : w = SmtWrites(c, r.state, r.proof)
  BY <1>2
<1> DEFINE n == r.state
           p == r.proof
           blind == <<v.op, c.label>>
           x == <<c.to, SmtStateFile(n)>>
           y == <<c.proof, SmtProofFile(p)>>
<1>4. /\ c.from \in StatePath /\ c.to \in StatePath /\ c.proof \in ProofPath
      /\ ProofPathOf(c) = c.proof
  <2>1. ProofPathOf(c) = c.proof
    BY ProofPathGiven
  <2>2. QED
    BY <2>1 DEF IsCommand, IsSmtChange
<1>5. /\ c.from \in Path /\ c.to \in Path /\ c.proof \in Path
      /\ c.to # c.proof /\ c.from # c.proof
  BY <1>4 DEF Path, StatePath, ProofPath
<1>6. /\ dir[c.to] = SmtStateFile(n) /\ dir[c.proof] = SmtProofFile(p)
      /\ dir[c.from] = files[c.from]
  <2>1. x[1] = c.to /\ y[1] = c.proof /\ x[2] = SmtStateFile(n) /\ y[2] = SmtProofFile(p) /\ w = <<x, y>>
    BY <1>3 DEF SmtWrites
  <2>2. DOMAIN files = Path
    BY DEF DirOK
  <2> HIDE DEF x, y, n, p
  <2>3. QED
    BY <1>5, <2>1, <2>2, BothWritten
<1>7. /\ IsLoaded(s) /\ Summed(v) /\ v.op = mode
  <2>1. FileOK(files[c.from]) /\ TreeFits
    BY <1>5 DEF DirOK, StatesReload
  <2>2. QED
    BY <1>1, <1>2, <1>3, <2>1, SmtChangedIsOK
<1>8. WitnessOK(v)
  BY <1>7 DEF Summed
<1>9. /\ Replays(s, v) /\ n = Replayed(s, v, c.label, blind)
      /\ \E pv \in PublicValues(s, v, c.label) : Confirms(s, n, v, pv) /\ p = SmtProof(s, n, v, blind, pv)
  BY <1>3, <1>8, ProvenFits
<1>10. PICK pv \in PublicValues(s, v, c.label) :
          Confirms(s, n, v, pv) /\ p = SmtProof(s, n, v, blind, pv)
  BY <1>9
<1>11. n \in Loaded(ToStored(n))
  BY <1>7, <1>9, ReplayReloads DEF StatesReload
<1>12. /\ SmtStateFile(n).kind = "smt-state" /\ SmtStateFile(n).value = ToStored(n)
       /\ SmtProofFile(p).kind = "smt-proof" /\ SmtProofFile(p).value = p
  BY DEF SmtStateFile, SmtProofFile
<1>13. n.label = c.label
  BY <1>9 DEF Replayed
<1>14. SmtVerifies(s, n, p, mode)
  <2>1. /\ p.oldLabel = s.label /\ p.newLabel = n.label
        /\ p.oldRoot = Tree!Root(s.layers) /\ p.newRoot = Tree!Root(n.layers)
        /\ p.delta = Moves(s, v) /\ p.flagged = Flagged(s, v) /\ p.witness = v /\ p.blind = blind
        /\ p.digest = Digest(s.label, n.label, v, blind, Moves(s, v)) /\ p.public = pv
    BY <1>10 DEF SmtProof
  <2> HIDE DEF n, p, mode, blind
  <2>2. HeaderMatches(s, n, p)
    BY <2>1 DEF HeaderMatches
  <2>3. ReplayMatches(s, n, p)
    BY <1>9, <1>13, <2>1 DEF ReplayMatches
  <2>4. PublicValuesMatch(s, n, p, mode)
    BY <1>7, <1>10, <2>1 DEF Confirms, PublicValuesMatch
  <2>5. QED
    BY <1>7, <2>1, <2>2, <2>3, <2>4 DEF SmtVerifies
<1> HIDE DEF n, p, dir, mode
<1>15. s \in SmtLoaded(dir[c.from]) /\ n \in SmtLoaded(dir[c.to])
  BY <1>1, <1>6, <1>11, <1>12 DEF SmtLoaded
<1>16. SmtFilesVerify(dir, c.from, c.to, c.proof, mode)
  BY <1>6, <1>12, <1>14, <1>15 DEF SmtFilesVerify
<1>17. ~IsUpdate(c)
  BY DEF IsUpdate, IsSmtChange
<1>18. QED
  BY <1>4, <1>16, <1>17 DEF Settled, dir, mode

\* So a command that succeeds leaves files that verify.
LEMMA SuccessSettles ==
    ASSUME StatesReload, NEW files, DirOK(files), NEW c, IsCommand(c), IsUpdate(c) \/ IsSmtChange(c),
           c.from # c.to, NEW o \in Outcomes(c, files), o.ok
    PROVE  Settled(FilesAfter(files, o.writes, Len(o.writes)), c)
<1>1. FirstWrites(c, files) = <<>>
  BY DEF FirstWrites, IsUpdate, IsSmtChange
<1>2. PICK w \in Writes(c, files) : o.writes = <<>> \o w
  BY <1>1, OutcomeParts
<1>3. o.writes = w
  <2>1. \/ \E x : w = <<x>>
        \/ \E x, y : w = <<x, y>>
    BY SuccessWrites
  <2>2. QED
    BY <1>2, <2>1, ShortSequences
<1>4. CASE IsUpdate(c)
  <2>1. w \in Update(c, ProofPathOf(c), files)
    BY <1>4 DEF Writes, IsUpdate
  <2>2. QED
    BY <1>3, <1>4, <2>1, UpdateWritesBoth, UpdateSettles
<1>5. CASE IsSmtChange(c)
  <2>1. w \in SmtChange(c, ProofPathOf(c), files)
    BY <1>5 DEF Writes, IsSmtChange
  <2>2. QED
    BY <1>3, <1>5, <2>1, SmtChangeWrites, SmtChangeSettles
<1>6. QED
  BY <1>4, <1>5

\* The files that the commands after the i-th have written so far, up to position p.
WrittenSince(script, i, p) ==
    UNION {Targets(script[j]) : j \in {k \in DOMAIN script : i < k /\ k <= p}}
Stands(script, i, p) ==
    /\ IsUpdate(script[i]) \/ IsSmtChange(script[i])
    /\ script[i].from # script[i].to
    /\ WrittenSince(script, i, p) \cap FilesOf(script[i]) = {}

\* FilesVerify in these terms.
LEMMA FilesVerifyMeans ==
    FilesVerify <=> \A i \in 1..(pos - 1) : Stands(job.script, i, pos) => Settled(disk, job.script[i])
<1> QED BY DEF FilesVerify, Stands, Settled, FilesOf, WrittenSince

\* What stands later stood before.
LEMMA StandsLater ==
    ASSUME NEW script, IsScript(script), NEW i \in Int, NEW p \in Int, Stands(script, i, p + 1)
    PROVE  Stands(script, i, p)
<1>1. WrittenSince(script, i, p) \subseteq WrittenSince(script, i, p + 1)
  <2> SUFFICES ASSUME NEW x \in WrittenSince(script, i, p) PROVE x \in WrittenSince(script, i, p + 1)
    OBVIOUS
  <2>1. PICK j \in {k \in DOMAIN script : i < k /\ k <= p} : x \in Targets(script[j])
    BY DEF WrittenSince
  <2>2. j \in {k \in DOMAIN script : i < k /\ k <= p + 1}
    <3>1. j \in Nat /\ i < j /\ j <= p
      BY <2>1 DEF IsScript
    <3>2. i < j /\ j <= p + 1
      BY <3>1
    <3>3. QED
      BY <2>1, <3>2
  <2>3. QED
    BY <2>1, <2>2 DEF WrittenSince
<1>2. QED
  BY <1>1 DEF Stands

\* What a process writes is not a file of a change that stands.
LEMMA StandingFilesKept ==
    ASSUME RunInv, process.running = TRUE, NEW i \in 1..(pos - 1), Stands(job.script, i, pos),
           NEW p \in Targets(Current)
    PROVE  p \notin FilesOf(job.script[i])
<1>1. pos \in DOMAIN job.script /\ pos \in Nat /\ i < pos /\ pos <= pos
  <2>1. pos \in DOMAIN job.script
    BY RunningFacts DEF ProcessOK
  <2>2. IsScript(job.script)
    BY JobsAssumption DEF RunInv
  <2>3. QED
    BY <2>1, <2>2 DEF IsScript
<1>2. p \in WrittenSince(job.script, i, pos)
  BY <1>1 DEF WrittenSince, Current
<1>3. QED
  BY <1>2 DEF Stands

\* A write touches no change that stands, and an exit makes one that verifies.
LEMMA FilesVerifyStep ==
    ASSUME StatesReload, RunInv, FilesVerify, [Next]_vars PROVE FilesVerify'
<1>0. IsScript(job.script) /\ pos \in Nat
  BY JobsAssumption DEF RunInv, IsScript
<1>1. \A i \in 1..(pos - 1) : Stands(job.script, i, pos) => Settled(disk, job.script[i])
  BY FilesVerifyMeans
<1>2. SUFFICES ASSUME NEW i \in 1..(pos' - 1), Stands(job.script', i, pos')
               PROVE  Settled(disk', job.script'[i])
  <2>1. FilesVerify' <=> \A i \in 1..(pos' - 1) :
                            Stands(job.script', i, pos') => Settled(disk', job.script'[i])
    BY DEF FilesVerify, Stands, Settled, FilesOf, WrittenSince
  <2>2. QED
    BY <2>1
<1>3. CASE job' = job /\ pos' = pos /\ disk' = disk
  BY <1>1, <1>2, <1>3
<1>4. CASE Write
  <2>1. /\ job' = job /\ pos' = pos /\ process.running /\ process.next <= Len(process.writes)
        /\ disk' = [disk EXCEPT ![process.writes[process.next][1]] =
                       Images(process.writes[process.next][2])[process.image]]
    BY <1>4 DEF Write
  <2>2. process.running = TRUE
    BY <2>1 DEF RunInv, NoProcess, ProcessOK
  <2>3. process.next \in DOMAIN process.writes
    BY <2>1, <2>2, RunningFacts DEF ProcessOK, AreWrites
  <2>4. process.writes[process.next][1] \in Targets(Current)
    BY <2>2, <2>3, RunningFacts DEF AreWrites, IsWrite
  <2>5. process.writes[process.next][1] \notin FilesOf(job.script[i])
    BY <1>2, <2>1, <2>2, <2>4, StandingFilesKept
  <2>6. \A p \in FilesOf(job.script[i]) : disk'[p] = disk[p]
    BY <2>1, <2>5
  <2>7. Settled(disk, job.script[i])
    BY <1>1, <1>2, <2>1
  <2>8. Settled(disk', job.script[i])
    BY <2>6, <2>7, SettledByFiles
  <2>9. QED
    BY <2>1, <2>8
<1>5. CASE Exit /\ process.ok
  <2>1. /\ process.running /\ process.next > Len(process.writes)
        /\ pos' = pos + 1 /\ job' = job /\ disk' = disk
    BY <1>5 DEF Exit
  <2>2. process.running = TRUE
    BY <2>1 DEF RunInv, NoProcess, ProcessOK
  <2>3. CASE i # pos
    <3>1. i \in 1..(pos - 1)
      BY <1>0, <1>2, <2>1, <2>3
    <3>2. Stands(job.script, i, pos)
      BY <1>0, <1>2, <2>1, StandsLater
    <3>3. QED
      BY <1>1, <2>1, <3>1, <3>2
  <2>4. CASE i = pos
    <3>1. ProcessOK /\ IsCommand(Current) /\ AreWrites(Current, process.read, process.writes)
      BY <2>2, RunningFacts
    <3>2. PICK o \in Outcomes(Current, process.read) : process.ok = o.ok /\ process.writes = o.writes
      BY <3>1 DEF ProcessOK
    <3>3. disk = FilesAfter(process.read, o.writes, Len(o.writes))
      <4>1. process.next - 1 = Len(process.writes) /\ process.image = 1
        BY <2>1, <3>1 DEF ProcessOK, AreWrites
      <4>2. disk = FilesAfter(process.read, process.writes, process.next - 1)
        BY <2>1, <3>1, <4>1 DEF ProcessOK, AreWrites
      <4>3. QED
        BY <3>2, <4>1, <4>2
    <3>4. (IsUpdate(Current) \/ IsSmtChange(Current)) /\ Current.from # Current.to
      BY <1>2, <2>1, <2>4 DEF Stands, Current
    <3>5. DirOK(process.read) /\ o.ok
      BY <1>5, <3>1, <3>2 DEF ProcessOK
    <3>6. Settled(disk, Current)
      BY <3>1, <3>3, <3>4, <3>5, SuccessSettles
    <3>7. QED
      BY <2>1, <2>4, <3>6 DEF Current
  <2>5. QED
    BY <2>3, <2>4
<1>6. CASE Start \/ Crash \/ (Exit /\ ~process.ok) \/ UNCHANGED vars
  <2>1. job' = job /\ pos' = pos /\ disk' = disk
    BY <1>6 DEF Start, Crash, Exit, vars
  <2>2. QED
    BY <1>3, <2>1
<1>7. QED
  BY <1>4, <1>5, <1>6 DEF Next, Step

\* Where a state's file loads again, the files of every update and insertion that
\* exited verify together, whatever died before it, until one of them is written.
THEOREM RunFilesVerify ==
    ASSUME StatesReload PROVE Spec => []FilesVerify
<1>1. Init => FilesVerify
  <2>1. ASSUME Init PROVE \A i \in 1..(pos - 1) : Stands(job.script, i, pos) => Settled(disk, job.script[i])
    BY <2>1 DEF Init
  <2>2. QED
    BY <2>1, FilesVerifyMeans
<1>2. RunInv /\ FilesVerify /\ [Next]_vars => FilesVerify'
  BY FilesVerifyStep
<1>3. QED
  BY <1>1, <1>2, RunSafe, PTL DEF Spec

=============================================================================
