---------------------------- MODULE SessionProofs ----------------------------
(***************************************************************************)
(* Proofs about Session, for every suite, every path a script may take     *)
(* through its readings, every request and every stimulus file: what a     *)
(* replay hands out is what the file holds for the slot, row by row in the *)
(* order of recording, and a script that asks as the recorded one did is    *)
(* given its own readings and does not run out of them.                     *)
(***************************************************************************)
EXTENDS Session, SequenceTheorems, FiniteSetTheorems, TLAPS

-----------------------------------------------------------------------------
(* The places of a finite set of numbers.                                   *)

UpTo(S, n) == {m \in S : m <= n}

LEMMA RankInRange ==
    ASSUME NEW S \in SUBSET Nat, IsFiniteSet(S), NEW n \in Nat
    PROVE  /\ IsFiniteSet(UpTo(S, n)) /\ Rank(S, n) = Cardinality(UpTo(S, n))
           /\ Cardinality(S) \in Nat /\ Rank(S, n) \in 0..Cardinality(S)
           /\ n \in S => Rank(S, n) \in 1..Cardinality(S)
<1>1. UpTo(S, n) \in SUBSET S
  BY DEF UpTo
<1>2. IsFiniteSet(UpTo(S, n)) /\ Cardinality(UpTo(S, n)) <= Cardinality(S)
  BY <1>1, FS_Subset, Zenon
<1>3. Cardinality(S) \in Nat /\ Cardinality(UpTo(S, n)) \in Nat
  BY <1>2, FS_CardinalityType, Zenon
<1>4. Rank(S, n) = Cardinality(UpTo(S, n))
  BY Zenon DEF Rank, UpTo
<1>5. ASSUME n \in S PROVE Cardinality(UpTo(S, n)) # 0
  <2>1. n \in UpTo(S, n)
    BY <1>5 DEF UpTo
  <2> QED
    BY <2>1, <1>2, FS_EmptySet, Zenon
<1> QED
  BY <1>2, <1>3, <1>4, <1>5

(* A greater number has a greater place.                                    *)
LEMMA RankGrows ==
    ASSUME NEW S \in SUBSET Nat, IsFiniteSet(S), NEW m \in Nat, NEW n \in S, m < n
    PROVE  Rank(S, m) < Rank(S, n)
<1>1. UpTo(S, m) \in SUBSET UpTo(S, n)
  <2>1. ASSUME NEW k \in UpTo(S, m) PROVE k \in UpTo(S, n)
    <3>1. k \in S /\ k <= m
      BY <2>1 DEF UpTo
    <3>2. k \in Nat /\ n \in Nat /\ k <= n
      BY <3>1
    <3> QED
      BY <3>1, <3>2 DEF UpTo
  <2> QED
    BY <2>1
<1>2. n \in UpTo(S, n) /\ n \notin UpTo(S, m)
  BY DEF UpTo
<1>3. IsFiniteSet(UpTo(S, n)) /\ Rank(S, n) = Cardinality(UpTo(S, n)) /\ Rank(S, n) \in Nat
  BY RankInRange
<1>4. Rank(S, m) = Cardinality(UpTo(S, m)) /\ Rank(S, m) \in Nat
  BY RankInRange
<1>5. Cardinality(UpTo(S, m)) <= Cardinality(UpTo(S, n)) /\ Cardinality(UpTo(S, m)) # Cardinality(UpTo(S, n))
  BY <1>1, <1>2, <1>3, FS_Subset, Zenon
<1> QED
  BY <1>3, <1>4, <1>5

LEMMA RankInjective ==
    ASSUME NEW S \in SUBSET Nat, IsFiniteSet(S), NEW m \in S, NEW n \in S, Rank(S, m) = Rank(S, n)
    PROVE  m = n
<1>1. m \in Nat /\ n \in Nat /\ Rank(S, m) \in Nat
  BY RankInRange
<1>2. ~(m < n) /\ ~(n < m)
  BY <1>1, RankGrows
<1> QED
  BY <1>1, <1>2

LEMMA RankOrder ==
    ASSUME NEW S \in SUBSET Nat, IsFiniteSet(S), NEW m \in S, NEW n \in S
    PROVE  /\ m \in Nat /\ n \in Nat /\ Cardinality(S) \in Nat
           /\ Rank(S, m) \in 1..Cardinality(S) /\ Rank(S, n) \in 1..Cardinality(S)
           /\ m < n <=> Rank(S, m) < Rank(S, n)
           /\ m <= n <=> Rank(S, m) <= Rank(S, n)
<1>1. m \in Nat /\ n \in Nat
  OBVIOUS
<1>2. Cardinality(S) \in Nat /\ Rank(S, m) \in 1..Cardinality(S) /\ Rank(S, n) \in 1..Cardinality(S)
  BY <1>1, RankInRange
<1>3. m < n => Rank(S, m) < Rank(S, n)
  BY <1>1, RankGrows
<1>4. n < m => Rank(S, n) < Rank(S, m)
  BY <1>1, RankGrows
<1>5. Rank(S, m) \in Nat /\ Rank(S, n) \in Nat
  BY <1>2
<1>6. m = n => Rank(S, m) = Rank(S, n)
  OBVIOUS
<1> QED
  BY <1>1, <1>2, <1>3, <1>4, <1>5, <1>6

(* Every place up to the number of them is taken.                           *)
LEMMA RankOnto ==
    ASSUME NEW S \in SUBSET Nat, IsFiniteSet(S), NEW r \in 1..Cardinality(S)
    PROVE  \E n \in S : Rank(S, n) = r
<1> DEFINE f == [n \in S |-> Rank(S, n)]
<1> DEFINE I == {Rank(S, n) : n \in S}
<1> DEFINE C == Cardinality(S)
<1>1. C \in Nat
  BY FS_CardinalityType, Zenon
<1>2. I \in SUBSET (1..C)
  BY RankInRange
<1>3. f \in [S -> I]
  OBVIOUS
<1>4. \A m, n \in S : f[m] = f[n] => m = n
  BY RankInjective
<1>5. \A t \in I : \E n \in S : f[n] = t
  OBVIOUS
<1>6. f \in Bijection(S, I)
  BY <1>3, <1>4, <1>5, Zenon DEF Bijection, Injection, Surjection, IsInjective
<1>7. Cardinality(I) = C
  BY <1>6, FS_Bijection, Zenon DEF ExistsBijection
<1>8. IsFiniteSet(1..C) /\ Cardinality(1..C) = C
  BY <1>1, FS_Interval
<1>9. I = 1..C
  BY <1>2, <1>7, <1>8, FS_Subset, Zenon
<1> QED
  BY <1>9

(* In order: every member at its place.                                     *)
LEMMA InOrderPlaces ==
    ASSUME NEW S \in SUBSET Nat, IsFiniteSet(S)
    PROVE  /\ Cardinality(S) \in Nat
           /\ InOrder(S) \in Seq(S) /\ Len(InOrder(S)) = Cardinality(S)
           /\ \A i \in 1..Cardinality(S) : InOrder(S)[i] \in S /\ Rank(S, InOrder(S)[i]) = i
           /\ \A n \in S : InOrder(S)[Rank(S, n)] = n
<1>1. Cardinality(S) \in Nat
  BY FS_CardinalityType, Zenon
<1>2. \A i \in 1..Cardinality(S) : InOrder(S)[i] \in S /\ Rank(S, InOrder(S)[i]) = i
  <2> SUFFICES ASSUME NEW i \in 1..Cardinality(S)
               PROVE  InOrder(S)[i] \in S /\ Rank(S, InOrder(S)[i]) = i
    OBVIOUS
  <2>1. InOrder(S)[i] = CHOOSE n \in S : Rank(S, n) = i
    BY DEF InOrder
  <2>2. \E n \in S : Rank(S, n) = i
    BY RankOnto
  <2> QED
    BY <2>1, <2>2, Zenon
<1>3. InOrder(S) \in [1..Cardinality(S) -> S]
  <2> DEFINE g == [i \in 1..Cardinality(S) |-> CHOOSE n \in S : Rank(S, n) = i]
  <2>1. \A i \in 1..Cardinality(S) : g[i] \in S
    BY <1>2, Zenon DEF InOrder
  <2>2. g \in [1..Cardinality(S) -> S]
    BY <2>1, Zenon
  <2> QED
    BY <2>2, Zenon DEF InOrder
<1>4. InOrder(S) \in Seq(S) /\ Len(InOrder(S)) = Cardinality(S)
  <2> DEFINE s == InOrder(S)
  <2> HIDE DEF s
  <2>1. s \in [1..Cardinality(S) -> S]
    BY <1>3, Zenon DEF s
  <2>2. s \in Seq(S) /\ Len(s) = Cardinality(S)
    BY <1>1, <2>1
  <2> QED
    BY <2>2, Zenon DEF s
<1>5. ASSUME NEW n \in S PROVE InOrder(S)[Rank(S, n)] = n
  <2> DEFINE m == InOrder(S)[Rank(S, n)]
  <2>1. Rank(S, n) \in 1..Cardinality(S)
    BY RankInRange
  <2>2. m \in S /\ Rank(S, m) = Rank(S, n)
    BY <1>2, <2>1, Zenon
  <2> HIDE DEF m
  <2>3. m = n
    BY <2>2, RankInjective, Zenon
  <2> QED
    BY <2>3 DEF m
<1> QED
  BY <1>1, <1>2, <1>4, <1>5

(* The least of a finite set.                                               *)
LEMMA LeastOf ==
    ASSUME NEW S \in SUBSET Nat, IsFiniteSet(S), S # {}
    PROVE  \E n \in S : \A k \in S : n <= k
<1>1. Cardinality(S) \in Nat /\ Cardinality(S) # 0
  BY FS_CardinalityType, FS_EmptySet, Zenon
<1>2. PICK n \in S : Rank(S, n) = 1
  BY <1>1, RankOnto
<1>3. ASSUME NEW k \in S, k < n PROVE FALSE
  BY <1>2, <1>3, RankGrows, RankInRange
<1> QED
  BY <1>3

(* One more, after all of them.                                             *)
LEMMA RankNext ==
    ASSUME NEW S \in SUBSET Nat, IsFiniteSet(S), NEW n \in Nat, \A m \in S : m < n
    PROVE  /\ IsFiniteSet(S \cup {n})
           /\ Cardinality(S \cup {n}) = Cardinality(S) + 1
           /\ Rank(S \cup {n}, n) = Cardinality(S) + 1
           /\ \A m \in S : Rank(S \cup {n}, m) = Rank(S, m)
<1>1. n \notin S
  OBVIOUS
<1>2. IsFiniteSet(S \cup {n}) /\ Cardinality(S \cup {n}) = Cardinality(S) + 1
  BY <1>1, FS_AddElement, Zenon
<1>3. {m \in S \cup {n} : m <= n} = S \cup {n}
  <2>1. \A m \in S \cup {n} : m <= n
    OBVIOUS
  <2> QED
    BY <2>1, Zenon
<1>4. ASSUME NEW m \in S PROVE {k \in S \cup {n} : k <= m} = {k \in S : k <= m}
  OBVIOUS
<1> QED
  BY <1>2, <1>3, <1>4, Zenon DEF Rank

-----------------------------------------------------------------------------
(* The inductive invariant.                                                 *)

RunOptions == [selection : SUBSET Tests, skeleton : BOOLEAN, replay : BOOLEAN,
               injected : Injections \cup {NoInjection}]
Recording == [rows : Seq(Line), malformed : BOOLEAN, closed : BOOLEAN]
Programming == [queue : Seq(Answer), constant : BOOLEAN]
Handed == [by : Scopes, slot : Slots, answer : Answer]

Typed ==
    /\ stage \in {"recording", "between", "replaying", "refused", "ended"}
    /\ options \in RunOptions
    /\ todo \in Seq(Scopes)
    /\ now \in Scopes \cup {Nobody}
    /\ reading \in Seq(Slots) /\ (now = Nobody => reading = <<>>)
    /\ mTest \in Tests \cup {RunScope}
    /\ taken \in Seq(Row) /\ file \in Recording
    /\ sidecar \in [Heavy -> {"absent", "short", "whole"}]
    /\ DOMAIN mScripted \subseteq Slots /\ \A sl \in DOMAIN mScripted : mScripted[sl] \in Programming
    /\ served \in Seq(Handed)
    /\ threw \in BOOLEAN

IsTeardown(s) == s.role = "teardown"
AllTeardowns(scopes) == \A i \in DOMAIN scopes : IsTeardown(scopes[i])

(* A run ends in a teardown; the journal has a test open only inside that    *)
(* test, or in the teardowns that follow the exception that left it.        *)
RunShape ==
    /\ todo # <<>> => IsTeardown(todo[Len(todo)])
    /\ todo = <<>> => now = Nobody \/ IsTeardown(now)
    /\ now # Nobody /\ now.role = "test" => mTest = now.test
    /\ mTest # RunScope /\ (now = Nobody \/ now.role # "test") =>
        (now = Nobody \/ IsTeardown(now)) /\ AllTeardowns(todo)

(* A row is a hook's, stamped with a test that threw before it.              *)
Stray(r) == r.by.role # "test" /\ r.test # RunScope
OwnStamp(r) == r.by.role = "test" => r.test = r.by.test
Spilled(r) == r.whole = TRUE /\ r.content \in Heavy => sidecar[r.content] = "whole"

RowsMade ==
    /\ \A i \in DOMAIN taken : OwnStamp(taken[i]) /\ Spilled(taken[i])
    /\ \A i, j \in DOMAIN taken : i <= j /\ Stray(taken[i]) => taken[j].test = taken[i].test
    /\ stage = "recording" =>
        \A i \in DOMAIN taken : Stray(taken[i]) =>
            mTest = taken[i].test /\ (now = Nobody \/ now.role # "test")
    /\ threw = FALSE => \A i \in DOMAIN taken : ~Stray(taken[i])
    /\ stage = "recording" /\ threw = FALSE /\ (now = Nobody \/ now.role # "test") => mTest = RunScope

(* A row of the file: the number of its place; whole if it has its value.    *)
InFile(f, i) ==
    /\ i \in DOMAIN taken /\ f.rows[i].row = i
    /\ f.rows[i].hollow = FALSE => taken[i].whole = TRUE
    /\ f.rows[i].hollow = TRUE => f.closed = FALSE \/ taken[i].whole = FALSE

IsLeft(f) ==
    /\ f \in Recording
    /\ \A i \in DOMAIN f.rows : InFile(f, i)
    /\ f.closed = TRUE /\ f.malformed = FALSE => Len(f.rows) = Len(taken)

FileHolds == IsLeft(file) /\ (stage = "recording" => file = NoFile)

(* A slot that the file answers: the answers are those of its rows, and what *)
(* is queued is what has not been handed out.                               *)
Answered(sl, answers) ==
    LET count == Cardinality(ServedAt(sl)) IN
    /\ count <= Len(answers)
    /\ sl \in DOMAIN mScripted <=> answers # <<>>
    /\ sl \in DOMAIN mScripted =>
        /\ mScripted[sl].constant = FALSE
        /\ Len(mScripted[sl].queue) = Len(answers) - count
        /\ \A j \in 1..Len(mScripted[sl].queue) : mScripted[sl].queue[j] = answers[count + j]
    /\ \A i \in ServedAt(sl) : served[i].answer = answers[Rank(ServedAt(sl), i)]

FromRows(sl) == Answered(sl, AnswersAt(sl, options.selection))

(* A slot that it does not.                                                 *)
FromStimulus(sl) ==
    /\ sl \in DOMAIN mScripted => \A j \in 1..Len(mScripted[sl].queue) : mScripted[sl].queue[j] = Injected
    /\ sl \in options.injected.one =>
        sl \in DOMAIN mScripted /\ mScripted[sl].constant = TRUE /\ mScripted[sl].queue # <<>>
    /\ \A i \in ServedAt(sl) : served[i].answer = Injected

Replays ==
    /\ stage \notin {"replaying", "ended"} => served = <<>>
    /\ stage \in {"replaying", "ended"} =>
        /\ options.replay = TRUE => file.malformed = FALSE
        /\ \A sl \in Slots : IF FromFile(sl) THEN FromRows(sl) ELSE FromStimulus(sl)

IInv == Typed /\ RunShape /\ RowsMade /\ FileHolds /\ Replays

-----------------------------------------------------------------------------
(* Scopes and what is still to run.                                         *)

LEMMA ScopeFacts ==
    /\ RunHook("setup") \in Scopes /\ RunHook("teardown") \in Scopes
    /\ \A s \in Scopes :
        /\ s.role \in {"setup", "test", "teardown"} /\ s # Nobody
        /\ s.role = "test" => s.test \in Tests
        /\ s.role # "test" => s.test = RunScope
        /\ Paths[s] \subseteq Seq(Slots)
        /\ TeardownOf(s.group) \in Scopes
<1>1. /\ RunHook("setup") \in Scopes /\ RunHook("teardown") \in Scopes
      /\ \A s \in Range(Suite) : s \in Scopes
  BY Zenon DEF Scopes
<1> SUFFICES ASSUME NEW s \in Scopes
             PROVE  /\ s.role \in {"setup", "test", "teardown"} /\ s # Nobody
                    /\ s.role = "test" => s.test \in Tests
                    /\ s.role # "test" => s.test = RunScope
                    /\ Paths[s] \subseteq Seq(Slots)
                    /\ TeardownOf(s.group) \in Scopes
  BY <1>1, Zenon
<1>2. Paths[s] \subseteq Seq(Slots) /\ s # Nobody
  BY SessionAssumption, Zenon DEF SessionAssumption
<1>3. CASE s \in Range(Suite)
  BY <1>1, <1>2, <1>3, SessionAssumption, Zenon DEF SessionAssumption
<1>4. CASE s = RunHook("setup") \/ s = RunHook("teardown")
  <2>1. s.role \in {"setup", "teardown"} /\ s.test = RunScope /\ s.group = RunScope
    BY <1>4 DEF RunHook
  <2>2. TeardownOf(s.group) = RunHook("teardown")
    BY <2>1 DEF TeardownOf, RunHook
  <2> QED
    BY <1>1, <1>2, <2>1, <2>2
<1> QED
  BY <1>3, <1>4, Zenon DEF Scopes

(* What is left ends in a teardown, if anything is left.                    *)
Ends(scopes) == scopes # <<>> => IsTeardown(scopes[Len(scopes)])

LEMMA TeardownsAre ==
    /\ \A g : IsTeardown(TeardownOf(g))
    /\ IsTeardown(RunHook("teardown"))
BY DEF IsTeardown, TeardownOf, RunHook

LEMMA OneTeardown ==
    ASSUME NEW b \in Scopes, IsTeardown(b)
    PROVE  <<b>> \in Seq(Scopes) /\ <<b>> # <<>> /\ Ends(<<b>>) /\ AllTeardowns(<<b>>)
<1> DEFINE t == <<b>>
<1>1. t \in Seq(Scopes) /\ Len(t) = 1 /\ t[1] = b /\ DOMAIN t = 1..1
  OBVIOUS
<1> HIDE DEF t
<1>2. Ends(t) /\ AllTeardowns(t)
  BY <1>1 DEF Ends, AllTeardowns
<1>3. t # <<>>
  BY <1>1
<1> QED
  BY <1>1, <1>2, <1>3 DEF t

LEMMA ThenEnds ==
    ASSUME NEW x \in Seq(Scopes), NEW y \in Seq(Scopes), y # <<>>, Ends(y)
    PROVE  /\ x \o y \in Seq(Scopes) /\ x \o y # <<>> /\ Ends(x \o y)
           /\ AllTeardowns(x) /\ AllTeardowns(y) => AllTeardowns(x \o y)
<1> DEFINE z == x \o y
<1>1. /\ z \in Seq(Scopes) /\ Len(z) = Len(x) + Len(y)
      /\ \A i \in 1..(Len(x) + Len(y)) : z[i] = IF i <= Len(x) THEN x[i] ELSE y[i - Len(x)]
  BY ConcatProperties
<1> HIDE DEF z
<1>2. Len(x) \in Nat /\ Len(y) \in Nat \ {0} /\ DOMAIN x = 1..Len(x) /\ DOMAIN y = 1..Len(y)
  BY EmptySeq, LenProperties
<1>3. Len(z) # 0 /\ z[Len(z)] = y[Len(y)]
  BY <1>1, <1>2
<1>4. z # <<>>
  BY <1>3
<1>5. IsTeardown(z[Len(z)])
  BY <1>3 DEF Ends
<1>6. ASSUME AllTeardowns(x), AllTeardowns(y) PROVE AllTeardowns(z)
  <2> SUFFICES ASSUME NEW i \in DOMAIN z PROVE IsTeardown(z[i])
    BY Zenon DEF AllTeardowns
  <2>1. i \in 1..(Len(x) + Len(y))
    BY <1>1
  <2>2. CASE i <= Len(x)
    <3>1. z[i] = x[i] /\ i \in DOMAIN x
      BY <1>1, <1>2, <2>1, <2>2
    <3> QED
      BY <1>6, <3>1, Zenon DEF AllTeardowns
  <2>3. CASE ~(i <= Len(x))
    <3>1. z[i] = y[i - Len(x)] /\ i - Len(x) \in DOMAIN y
      BY <1>1, <1>2, <2>1, <2>3
    <3> QED
      BY <1>6, <3>1, Zenon DEF AllTeardowns
  <2> QED
    BY <2>2, <2>3
<1>7. z \in Seq(Scopes) /\ z # <<>> /\ Ends(z) /\ (AllTeardowns(x) /\ AllTeardowns(y) => AllTeardowns(z))
  BY <1>1, <1>4, <1>5, <1>6, Zenon DEF Ends
<1> QED
  BY <1>7 DEF z

LEMMA TeardownsLeft ==
    ASSUME NEW s \in Scopes
    PROVE  /\ TeardownsAfter(s) \in Seq(Scopes) /\ TeardownsAfter(s) # <<>>
           /\ Ends(TeardownsAfter(s)) /\ AllTeardowns(TeardownsAfter(s))
<1> DEFINE a == TeardownOf(s.group)
<1> DEFINE b == RunHook("teardown")
<1> DEFINE x == IF s.group = RunScope THEN <<>> ELSE <<a>>
<1>1. a \in Scopes /\ b \in Scopes /\ IsTeardown(a) /\ IsTeardown(b)
  BY ScopeFacts, TeardownsAre, Zenon
<1>2. TeardownsAfter(s) = x \o <<b>>
  BY Zenon DEF TeardownsAfter
<1> HIDE DEF a, b
<1>3. <<b>> \in Seq(Scopes) /\ <<b>> # <<>> /\ Ends(<<b>>) /\ AllTeardowns(<<b>>)
  BY <1>1, OneTeardown
<1>4. x \in Seq(Scopes) /\ AllTeardowns(x)
  <2>1. <<a>> \in Seq(Scopes) /\ AllTeardowns(<<a>>)
    BY <1>1, OneTeardown
  <2>2. <<>> \in Seq(Scopes) /\ AllTeardowns(<<>>)
    BY DEF AllTeardowns
  <2> QED
    BY <2>1, <2>2, Zenon
<1> HIDE DEF x
<1> QED
  BY <1>2, <1>3, <1>4, ThenEnds, Zenon

LEMMA SkipsToTeardown ==
    ASSUME todo \in Seq(Scopes), Ends(todo), todo # <<>>, NEW s \in Scopes
    PROVE  SkipTests(s) \in Seq(Scopes) /\ Ends(SkipTests(s))
<1>1. CASE s.group = RunScope
  BY <1>1, TeardownsLeft, Zenon DEF SkipTests
<1>2. CASE s.group # RunScope
  <2> DEFINE ends == {i \in DOMAIN todo : todo[i].role = "teardown"}
  <2> DEFINE n == CHOOSE i \in ends : \A j \in ends : i <= j
  <2>1. Len(todo) \in Nat /\ Len(todo) # 0 /\ DOMAIN todo = 1..Len(todo)
    BY EmptySeq, LenProperties
  <2>2. IsFiniteSet(DOMAIN todo)
    BY <2>1, FS_Interval
  <2>3. IsFiniteSet(ends) /\ ends \in SUBSET Nat
    <3>1. ends \in SUBSET (DOMAIN todo)
      OBVIOUS
    <3>2. IsFiniteSet(ends)
      BY <2>2, <3>1, FS_Subset, Zenon
    <3> QED
      BY <2>1, <3>2
  <2>4. Len(todo) \in ends
    BY <2>1 DEF Ends, IsTeardown
  <2>5. n \in ends
    <3>1. \E i \in ends : \A j \in ends : i <= j
      BY <2>3, <2>4, LeastOf, Zenon
    <3> QED
      BY <3>1, Zenon
  <2>6. SkipTests(s) = SubSeq(todo, n, Len(todo))
    BY <1>2, Zenon DEF SkipTests
  <2>7. n \in 1..Len(todo) /\ IsTeardown(todo[Len(todo)])
    BY <2>1, <2>4, <2>5 DEF IsTeardown
  <2> DEFINE t == SkipTests(s)
  <2> DEFINE l == Len(todo)
  <2> HIDE DEF n, t
  <2>8. t \in Seq(Scopes) /\ Len(t) = l - n + 1
    BY <2>1, <2>6, <2>7, SubSeqProperties DEF t
  <2>9. t[l - n + 1] = todo[n + (l - n + 1) - 1]
    <3>1. \A i \in 1..(l - n + 1) : t[i] = todo[n + i - 1]
      BY <2>1, <2>6, <2>7, SubSeqProperties DEF t
    <3> QED
      BY <2>1, <2>7, <3>1
  <2>10. n + (l - n + 1) - 1 = l
    BY <2>1, <2>7
  <2>11. Ends(t)
    BY <2>7, <2>8, <2>9, <2>10 DEF Ends
  <2> QED
    BY <2>8, <2>11 DEF t
<1> QED
  BY <1>1, <1>2

LEMMA WithinPass ==
    ASSUME NEW l \in Nat, NEW passes \in Nat, NEW i \in 1..(passes * l)
    PROVE  1 + ((i - 1) % l) \in 1..l
<1>1. l # 0
  <2>1. CASE l = 0
    <3>1. passes * l = 0
      BY <2>1
    <3> QED
      BY <3>1
  <2> QED
    BY <2>1
<1>2. passes * l \in Nat
  OBVIOUS
<1>3. i - 1 \in Nat
  BY <1>2
<1>4. (i - 1) % l \in 0..(l - 1)
  BY <1>1, <1>3
<1> QED
  BY <1>1, <1>4

LEMMA ItineraryEnds ==
    ASSUME NEW sel \in SUBSET Tests, NEW passes \in Nat
    PROVE  /\ Itinerary(sel, passes) \in Seq(Scopes) /\ Itinerary(sel, passes) # <<>>
           /\ Ends(Itinerary(sel, passes))
<1> DEFINE places == {i \in DOMAIN Suite : Included(Suite[i], sel)}
<1> DEFINE pass == InOrder(places)
<1> DEFINE middle == [i \in 1..(passes * Len(pass)) |-> Suite[pass[1 + ((i - 1) % Len(pass))]]]
<1>1. DOMAIN Suite = 1..Len(Suite) /\ Len(Suite) \in Nat /\ \A i \in DOMAIN Suite : Suite[i] \in Scopes
  <2>1. Suite \in Seq(Scopes)
    BY SessionAssumption DEF SessionAssumption, Scopes
  <2> QED
    BY <2>1, LenProperties, ElementOfSeq
<1>2. IsFiniteSet(places) /\ places \in SUBSET Nat
  <2>1. places \in SUBSET (1..Len(Suite)) /\ IsFiniteSet(1..Len(Suite))
    BY <1>1, FS_Interval
  <2>2. IsFiniteSet(places)
    BY <2>1, FS_Subset, Zenon
  <2> QED
    BY <1>1, <2>2
<1>3. Len(pass) \in Nat /\ \A i \in 1..Len(pass) : pass[i] \in places
  <2> HIDE DEF places
  <2>1. /\ Cardinality(places) \in Nat /\ Len(pass) = Cardinality(places)
        /\ \A i \in 1..Cardinality(places) : pass[i] \in places
    BY <1>2, InOrderPlaces, Zenon
  <2> QED
    BY <2>1
<1>4. middle \in Seq(Scopes)
  <2>1. ASSUME NEW i \in 1..(passes * Len(pass))
        PROVE  Suite[pass[1 + ((i - 1) % Len(pass))]] \in Scopes
    <3>1. 1 + ((i - 1) % Len(pass)) \in 1..Len(pass)
      BY <1>3, WithinPass
    <3>2. pass[1 + ((i - 1) % Len(pass))] \in DOMAIN Suite
      BY <1>3, <3>1, Zenon
    <3> QED
      BY <1>1, <3>2, Zenon
  <2>2. middle \in [1..(passes * Len(pass)) -> Scopes]
    BY <2>1, Zenon
  <2>3. passes * Len(pass) \in Nat
    BY <1>3
  <2> QED
    BY <2>2, <2>3, SeqDef, ZenonT(60)
<1> DEFINE a == RunHook("setup")
<1> DEFINE b == RunHook("teardown")
<1>5. a \in Scopes /\ b \in Scopes /\ IsTeardown(b)
  BY ScopeFacts, TeardownsAre, Zenon
<1>6. Itinerary(sel, passes) = <<a>> \o middle \o <<b>>
  BY Zenon DEF Itinerary
<1> HIDE DEF a, b, middle
<1>7. <<b>> \in Seq(Scopes) /\ <<b>> # <<>> /\ Ends(<<b>>)
  BY <1>5, OneTeardown
<1>8. <<a>> \o middle \in Seq(Scopes)
  BY <1>4, <1>5, ConcatProperties
<1> DEFINE first == <<a>> \o middle
<1> HIDE DEF first
<1>9. first \in Seq(Scopes) /\ Itinerary(sel, passes) = first \o <<b>>
  BY <1>6, <1>8, Zenon DEF first
<1> QED
  BY <1>7, <1>9, ThenEnds, Zenon

-----------------------------------------------------------------------------
(* The run moves from scope to scope.                                       *)

(* What no step of the run itself touches.                                  *)
Frame == UNCHANGED <<stage, options, taken, file, sidecar, mScripted, served>>

(* A scope is left, for what is then to run and with what test open.         *)
LEMMA ScopeLeft ==
    ASSUME Typed, RunShape, RowsMade, Frame,
           now' = Nobody, reading' = <<>>,
           todo' \in Seq(Scopes), Ends(todo'),
           mTest' \in Tests \cup {RunScope}, threw' \in BOOLEAN,
           mTest' # RunScope => AllTeardowns(todo'),
           stage = "recording" => \A i \in DOMAIN taken : Stray(taken[i]) => mTest' = taken[i].test,
           threw' = FALSE => threw = FALSE /\ (stage = "recording" => mTest' = RunScope)
    PROVE  Typed' /\ RunShape' /\ RowsMade'
<1>1. <<>> \in Seq(Slots)
  OBVIOUS
<1>2. Typed'
  BY <1>1, Zenon DEF Typed, Frame
<1>3. RunShape'
  BY Zenon DEF RunShape, Ends
<1>4. RowsMade'
  BY Zenon DEF RowsMade, Frame, OwnStamp, Spilled, Stray
<1> QED
  BY <1>2, <1>3, <1>4

LEMMA EnterMoves ==
    ASSUME Typed, RunShape, RowsMade, Enter
    PROVE  Typed' /\ RunShape' /\ RowsMade' /\ Frame
<1> DEFINE h == Head(todo)
<1>1. /\ h \in Scopes /\ Tail(todo) \in Seq(Scopes) /\ Len(Tail(todo)) = Len(todo) - 1
      /\ \A i \in 1..(Len(todo) - 1) : Tail(todo)[i] = todo[i + 1]
  BY HeadTailProperties DEF Enter, Typed
<1>2. Len(todo) \in Nat \ {0} /\ h = todo[1] /\ DOMAIN todo = 1..Len(todo)
  BY EmptySeq, LenProperties DEF Enter, Typed
<1>3. /\ todo' = Tail(todo) /\ now' = h /\ now = Nobody /\ reading' \in Paths[h] /\ threw' = threw
      /\ mTest' = IF h.role = "test" THEN h.test ELSE mTest
  BY Zenon DEF Enter
<1>4. Frame
  BY Zenon DEF Enter, Frame, fileVars
<1>5. Ends(todo') /\ (todo' = <<>> => IsTeardown(h))
  <2> DEFINE t == Tail(todo)
  <2>1. IsTeardown(todo[Len(todo)])
    BY <1>2 DEF RunShape, Enter
  <2>2. CASE Len(todo) = 1
    <3>1. t \in Seq(Scopes) /\ Len(t) = 0
      BY <1>1, <2>2
    <3> HIDE DEF t
    <3>2. t = <<>>
      BY <3>1, EmptySeq
    <3>3. IsTeardown(h)
      BY <1>2, <2>1, <2>2
    <3> QED
      BY <1>3, <3>2, <3>3, Zenon DEF Ends, t
  <2>3. CASE Len(todo) # 1
    <3>1. Len(t) # 0 /\ t[Len(t)] = todo[Len(todo)]
      BY <1>1, <1>2, <2>3
    <3> HIDE DEF t
    <3>2. t # <<>>
      BY <3>1
    <3> QED
      BY <1>3, <2>1, <3>1, <3>2, Zenon DEF Ends, t
  <2> QED
    BY <2>2, <2>3
<1>6. AllTeardowns(todo) => AllTeardowns(todo') /\ IsTeardown(h)
  <2> SUFFICES ASSUME AllTeardowns(todo) PROVE AllTeardowns(todo') /\ IsTeardown(h)
    OBVIOUS
  <2>1. IsTeardown(h)
    BY <1>2 DEF AllTeardowns
  <2>2. ASSUME NEW i \in DOMAIN todo' PROVE IsTeardown(todo'[i])
    <3>1. DOMAIN todo' = 1..(Len(todo) - 1)
      BY <1>1, <1>3, LenProperties
    <3>2. todo'[i] = todo[i + 1] /\ i + 1 \in DOMAIN todo
      BY <1>1, <1>2, <1>3, <3>1
    <3> QED
      BY <3>2 DEF AllTeardowns
  <2> QED
    BY <2>1, <2>2, Zenon DEF AllTeardowns
<1> HIDE DEF h
<1>7. /\ h # Nobody /\ (h.role = "test" => h.test \in Tests) /\ Paths[h] \subseteq Seq(Slots)
      /\ h.role \in {"setup", "test", "teardown"} /\ (IsTeardown(h) => h.role # "test")
  BY <1>1, ScopeFacts DEF IsTeardown
<1>8. Typed'
  <2>1. mTest' \in Tests \cup {RunScope}
    BY <1>3, <1>7, Zenon DEF Typed
  <2>2. todo' \in Seq(Scopes) /\ now' \in Scopes \cup {Nobody} /\ reading' \in Seq(Slots) /\ now' # Nobody
    BY <1>1, <1>3, <1>7, Zenon DEF h
  <2> QED
    BY <1>3, <1>4, <2>1, <2>2, Zenon DEF Typed, Frame
<1>9. RunShape'
  <2>1. now'.role = "test" => mTest' = now'.test
    BY <1>3, Zenon
  <2>2. ASSUME mTest' # RunScope, now'.role # "test"
        PROVE  IsTeardown(now') /\ AllTeardowns(todo')
    <3>1. mTest # RunScope
      BY <1>3, <2>2, Zenon
    <3> QED
      BY <1>3, <1>6, <3>1, Zenon DEF RunShape
  <2> QED
    BY <1>3, <1>5, <1>7, <2>1, <2>2, Zenon DEF RunShape, Ends
<1>10. RowsMade'
  <2>1. ASSUME stage = "recording", NEW i \in DOMAIN taken, Stray(taken[i])
        PROVE  mTest' = taken[i].test /\ now'.role # "test"
    <3>1. mTest = taken[i].test /\ mTest # RunScope
      BY <2>1, Zenon DEF RowsMade, Stray
    <3>2. IsTeardown(h)
      BY <1>3, <1>6, <3>1, Zenon DEF RunShape
    <3> QED
      BY <1>3, <1>7, <3>1, <3>2, Zenon
  <2>2. stage = "recording" /\ threw = FALSE /\ now'.role # "test" => mTest' = RunScope
    BY <1>3, Zenon DEF RowsMade
  <2>3. now' # Nobody
    BY <1>3, <1>7, Zenon
  <2> QED
    BY <1>3, <1>4, <2>1, <2>2, <2>3, Zenon DEF RowsMade, Frame, OwnStamp, Spilled, Stray
<1> QED
  BY <1>4, <1>8, <1>9, <1>10

LEMMA LeaveMoves ==
    ASSUME Typed, RunShape, RowsMade, Leave
    PROVE  Typed' /\ RunShape' /\ RowsMade' /\ Frame
<1>1. /\ now # Nobody /\ now' = Nobody /\ reading' = <<>> /\ todo' = todo /\ threw' = threw
      /\ mTest' = IF now.role = "test" THEN RunScope ELSE mTest
  BY Zenon DEF Leave, Out
<1>2. Frame
  BY Zenon DEF Leave, Out, Frame, fileVars
<1>3. todo' \in Seq(Scopes) /\ Ends(todo') /\ mTest' \in Tests \cup {RunScope} /\ threw' \in BOOLEAN
  BY <1>1, Zenon DEF Typed, RunShape, Ends
<1>4. mTest' # RunScope => AllTeardowns(todo')
  BY <1>1, Zenon DEF RunShape
<1>5. stage = "recording" => \A i \in DOMAIN taken : Stray(taken[i]) => mTest' = taken[i].test
  BY <1>1, Zenon DEF RowsMade
<1>6. threw' = FALSE => threw = FALSE /\ (stage = "recording" => mTest' = RunScope)
  BY <1>1, Zenon DEF RowsMade
<1> QED
  BY <1>1, <1>2, <1>3, <1>4, <1>5, <1>6, ScopeLeft, Zenon

LEMMA SetupFailsMoves ==
    ASSUME Typed, RunShape, RowsMade, SetupFails
    PROVE  Typed' /\ RunShape' /\ RowsMade' /\ Frame
<1>1. /\ now # Nobody /\ now.role = "setup" /\ now' = Nobody /\ reading' = <<>> /\ threw' = threw
      /\ todo' = (IF options.skeleton THEN todo ELSE SkipTests(now)) /\ mTest' = mTest
  BY Zenon DEF SetupFails, Out
<1>2. Frame
  BY Zenon DEF SetupFails, Out, Frame, fileVars
<1>3. now.role # "test" /\ ~IsTeardown(now)
  BY <1>1 DEF IsTeardown
<1>4. mTest = RunScope
  BY <1>1, <1>3, Zenon DEF RunShape
<1>5. todo \in Seq(Scopes) /\ Ends(todo) /\ todo # <<>> /\ now \in Scopes
  BY <1>1, <1>3, Zenon DEF Typed, RunShape, Ends
<1>6. SkipTests(now) \in Seq(Scopes) /\ Ends(SkipTests(now))
  BY <1>5, SkipsToTeardown, Zenon
<1>7. todo' \in Seq(Scopes) /\ Ends(todo') /\ mTest' \in Tests \cup {RunScope} /\ threw' \in BOOLEAN
  BY <1>1, <1>5, <1>6, Zenon DEF Typed
<1>8. mTest' # RunScope => AllTeardowns(todo')
  BY <1>1, <1>4, Zenon
<1>9. stage = "recording" => \A i \in DOMAIN taken : Stray(taken[i]) => mTest' = taken[i].test
  BY <1>1, Zenon DEF RowsMade
<1>10. threw' = FALSE => threw = FALSE /\ (stage = "recording" => mTest' = RunScope)
  BY <1>1, <1>4, Zenon
<1> QED
  BY <1>1, <1>2, <1>7, <1>8, <1>9, <1>10, ScopeLeft, Zenon

LEMMA UnwindMoves ==
    ASSUME Typed, RunShape, RowsMade, now # Nobody, Unwind
    PROVE  Typed' /\ RunShape' /\ RowsMade' /\ Frame
<1>1. /\ now' = Nobody /\ reading' = <<>> /\ mTest' = mTest
      /\ todo' = IF now.role = "teardown" THEN todo ELSE TeardownsAfter(now)
      /\ threw' = (threw \/ (stage = "recording" /\ now.role = "test"))
  BY Zenon DEF Unwind, Out
<1>2. Frame
  BY Zenon DEF Unwind, Out, Frame, fileVars
<1>3. /\ TeardownsAfter(now) \in Seq(Scopes) /\ Ends(TeardownsAfter(now))
      /\ AllTeardowns(TeardownsAfter(now))
  BY TeardownsLeft, Zenon DEF Typed
<1>4. todo' \in Seq(Scopes) /\ Ends(todo') /\ mTest' \in Tests \cup {RunScope}
  BY <1>1, <1>3, Zenon DEF Typed, RunShape, Ends
<1>5. threw' \in BOOLEAN /\ (threw' = FALSE => threw = FALSE /\ ~(stage = "recording" /\ now.role = "test"))
  BY <1>1, Zenon DEF Typed
<1>6. mTest' # RunScope => AllTeardowns(todo')
  <2>1. now.role = "teardown" => now.role # "test"
    OBVIOUS
  <2> QED
    BY <1>1, <1>3, <2>1, Zenon DEF RunShape
<1>7. stage = "recording" => \A i \in DOMAIN taken : Stray(taken[i]) => mTest' = taken[i].test
  BY <1>1, Zenon DEF RowsMade
<1>8. threw' = FALSE => threw = FALSE /\ (stage = "recording" => mTest' = RunScope)
  BY <1>1, <1>5, Zenon DEF RowsMade
<1> QED
  BY <1>1, <1>2, <1>4, <1>5, <1>6, <1>7, <1>8, ScopeLeft, Zenon

LEMMA StopInTestMoves ==
    ASSUME Typed, RunShape, RowsMade, StopInTest
    PROVE  Typed' /\ RunShape' /\ RowsMade' /\ Frame
<1>1. /\ now # Nobody /\ now.role = "test" /\ now' = Nobody /\ reading' = <<>> /\ threw' = threw
      /\ todo' = TeardownsAfter(now) /\ mTest' = RunScope
  BY Zenon DEF StopInTest, Out
<1>2. Frame
  BY Zenon DEF StopInTest, Out, Frame, fileVars
<1>3. TeardownsAfter(now) \in Seq(Scopes) /\ Ends(TeardownsAfter(now))
  BY <1>1, TeardownsLeft, Zenon DEF Typed
<1>4. stage = "recording" => \A i \in DOMAIN taken : Stray(taken[i]) => mTest' = taken[i].test
  BY <1>1, Zenon DEF RowsMade
<1>5. threw' \in BOOLEAN /\ mTest' \in Tests \cup {RunScope}
  BY <1>1, Zenon DEF Typed
<1> QED
  BY <1>1, <1>2, <1>3, <1>4, <1>5, ScopeLeft, Zenon

LEMMA StopBetweenMoves ==
    ASSUME Typed, RunShape, RowsMade, StopBetween
    PROVE  Typed' /\ RunShape' /\ RowsMade' /\ Frame
<1> DEFINE h == Head(todo)
<1> DEFINE b == RunHook("teardown")
<1>1. /\ now = Nobody /\ todo # <<>> /\ h.role # "teardown"
      /\ now' = Nobody /\ reading' = <<>> /\ threw' = threw /\ mTest' = mTest
      /\ todo' = IF h.role = "test" THEN TeardownsAfter(h) ELSE <<b>>
  BY Zenon DEF StopBetween, Out
<1>2. Frame
  BY Zenon DEF StopBetween, Out, Frame, fileVars
<1>3. h \in Scopes /\ h = todo[1] /\ 1 \in DOMAIN todo
  BY <1>1, HeadTailProperties, EmptySeq, LenProperties DEF Typed
<1>4. mTest = RunScope
  <2>1. ~IsTeardown(todo[1])
    BY <1>1, <1>3 DEF IsTeardown
  <2> QED
    BY <1>1, <1>3, <2>1, Zenon DEF RunShape, AllTeardowns
<1> HIDE DEF h, b
<1>5. b \in Scopes /\ IsTeardown(b)
  BY ScopeFacts, TeardownsAre, Zenon DEF b
<1>6. todo' \in Seq(Scopes) /\ Ends(todo')
  BY <1>1, <1>3, <1>5, OneTeardown, TeardownsLeft, Zenon
<1>7. stage = "recording" => \A i \in DOMAIN taken : Stray(taken[i]) => mTest' = taken[i].test
  BY <1>1, Zenon DEF RowsMade
<1>8. threw' \in BOOLEAN /\ mTest' \in Tests \cup {RunScope} /\ mTest' = RunScope
  BY <1>1, <1>4, Zenon DEF Typed
<1> QED
  BY <1>1, <1>2, <1>6, <1>7, <1>8, ScopeLeft, Zenon

-----------------------------------------------------------------------------
(* A row is made.                                                           *)

(* A row whose payload is heavy and whole has its file, whole; no step makes *)
(* a whole file less.                                                       *)
LEMMA SpilledWhole ==
    ASSUME Typed, NEW c \in Heavy, NEW w \in Spill(c)
    PROVE  /\ w.blob \in {"absent", "short", "whole"} /\ w.whole \in BOOLEAN
           /\ w.whole = TRUE => w.blob = "whole"
           /\ sidecar[c] = "whole" => w.blob = "whole"
<1>1. sidecar[c] \in {"absent", "short", "whole"} /\ c # Torn
  BY SessionAssumption DEF Typed, SessionAssumption
<1>2. CASE sidecar[c] = "absent"
  <2>1. w \in WrittenBlob
    BY <1>2, Zenon DEF Spill
  <2>2. \/ w.blob = "whole" /\ w.whole = TRUE
        \/ w.blob = "short" /\ w.whole = FALSE
        \/ w.blob = "absent" /\ w.whole = FALSE
    <3>1. CASE w = [blob |-> "whole", whole |-> TRUE]
      BY <3>1
    <3>2. CASE w = [blob |-> "short", whole |-> FALSE]
      BY <3>2
    <3>3. CASE w = [blob |-> "absent", whole |-> FALSE]
      BY <3>3
    <3> QED
      BY <2>1, <3>1, <3>2, <3>3, Zenon DEF WrittenBlob
  <2>3. sidecar[c] # "whole" /\ TRUE # FALSE
    BY <1>2
  <2> QED
    BY <2>2, <2>3, Zenon
<1>3. CASE sidecar[c] # "absent"
  <2>1. w = [blob |-> sidecar[c], whole |-> ReadBlob(c) = c]
    BY <1>3, Zenon DEF Spill
  <2>2. (ReadBlob(c) = c) <=> sidecar[c] = "whole"
    BY <1>1, Zenon DEF ReadBlob
  <2>3. w.blob = sidecar[c] /\ w.whole = (ReadBlob(c) = c)
    BY <2>1
  <2> QED
    BY <1>1, <2>2, <2>3, Zenon
<1> QED
  BY <1>2, <1>3

LEMMA ReadingsAre ==
    ASSUME Typed, NEW sl \in Slots, NEW c \in Readings(sl)
    PROVE  c \in Contents \cup {Empty}
BY Zenon DEF Readings, LiveReadings

(* The row made last is like the others.                                    *)
LEMMA RowAdded ==
    ASSUME Typed, RunShape, RowsMade, stage = "recording", reading # <<>>,
           NEW c \in Contents \cup {Empty}, NEW w \in BOOLEAN,
           taken' = Append(taken, RowOf(c, w)),
           sidecar' \in [Heavy -> {"absent", "short", "whole"}],
           \A d \in Heavy : sidecar[d] = "whole" => sidecar'[d] = "whole",
           w = TRUE /\ c \in Heavy => sidecar'[c] = "whole",
           now' \in {now, Nobody}, mTest' = mTest, stage' = stage, threw' \in BOOLEAN,
           threw' = FALSE => threw = FALSE /\ (now' = now \/ now.role # "test")
    PROVE  taken' \in Seq(Row) /\ RowsMade'
<1> DEFINE r == RowOf(c, w)
<1> DEFINE n == Len(taken)
<1>1. now # Nobody /\ now \in Scopes /\ Head(reading) \in Slots /\ mTest \in Tests \cup {RunScope}
  BY HeadTailProperties DEF Typed
<1>2. /\ r.by = now /\ r.test = mTest /\ r.content = c /\ r.whole = w
      /\ r \in Row
  BY <1>1 DEF RowOf, Stamp, Row
<1> HIDE DEF r
<1>3. /\ taken' \in Seq(Row) /\ Len(taken') = n + 1 /\ taken'[n + 1] = r
      /\ \A i \in 1..n : taken'[i] = taken[i]
      /\ n \in Nat /\ DOMAIN taken = 1..n /\ DOMAIN taken' = 1..(n + 1)
  <2>1. taken' = Append(taken, r)
    BY DEF r
  <2> QED
    BY <1>2, <2>1, AppendProperties, LenProperties DEF Typed
<1> HIDE DEF n
<1>4. \A i \in DOMAIN taken' : i = n + 1 \/ (i \in DOMAIN taken /\ i # n + 1)
  BY <1>3
<1>5. \A i \in DOMAIN taken : Stray(taken[i]) => mTest = taken[i].test /\ now.role # "test"
  BY <1>1, Zenon DEF RowsMade
<1>6. ASSUME NEW i \in DOMAIN taken' PROVE (OwnStamp(taken[i]) /\ Spilled(taken[i]))'
  <2>1. CASE i = n + 1
    <3>1. OwnStamp(r)
      BY <1>1, <1>2, Zenon DEF OwnStamp, RunShape
    <3>2. r.whole = TRUE /\ r.content \in Heavy => sidecar'[r.content] = "whole"
      BY <1>2, Zenon
    <3>3. taken'[i] = r
      BY <1>3, <2>1
    <3> QED
      BY <3>1, <3>2, <3>3, Zenon DEF Spilled, OwnStamp
  <2>2. CASE i \in DOMAIN taken
    <3>1. taken'[i] = taken[i]
      BY <1>3, <2>2
    <3>2. OwnStamp(taken[i]) /\ Spilled(taken[i])
      BY <2>2, Zenon DEF RowsMade
    <3> QED
      BY <1>2, <1>5, <3>1, <3>2, Zenon DEF Spilled, OwnStamp
  <2> QED
    BY <1>4, <2>1, <2>2
<1>7. ASSUME NEW i \in DOMAIN taken', NEW j \in DOMAIN taken', i <= j, Stray(taken'[i])
      PROVE  taken'[j].test = taken'[i].test
  <2>1. CASE j = n + 1
    <3>1. taken'[j] = r
      BY <1>3, <2>1
    <3>2. CASE i = n + 1
      BY <2>1, <3>2
    <3>3. CASE i \in DOMAIN taken
      <4>1. taken'[i] = taken[i]
        BY <1>3, <3>3
      <4> QED
        BY <1>2, <1>5, <1>7, <3>1, <3>3, <4>1, Zenon
    <3> QED
      BY <1>4, <3>2, <3>3
  <2>2. CASE j \in DOMAIN taken
    <3>1. i \in DOMAIN taken /\ taken'[i] = taken[i] /\ taken'[j] = taken[j]
      BY <1>3, <1>7, <2>2
    <3> QED
      BY <1>7, <2>2, <3>1, Zenon DEF RowsMade
  <2> QED
    BY <1>4, <2>1, <2>2
<1>8. ASSUME NEW i \in DOMAIN taken', Stray(taken'[i])
      PROVE  mTest' = taken'[i].test /\ now.role # "test" /\ (threw' = TRUE \/ threw = TRUE)
  <2>1. CASE i = n + 1
    <3>1. taken'[i] = r
      BY <1>3, <2>1
    <3>2. now.role # "test" /\ mTest # RunScope
      BY <1>2, <1>8, <3>1, Zenon DEF Stray
    <3>3. threw # FALSE
      BY <1>1, <3>2, Zenon DEF RowsMade
    <3> QED
      BY <1>2, <3>1, <3>2, <3>3, Zenon DEF Typed
  <2>2. CASE i \in DOMAIN taken
    <3>1. taken'[i] = taken[i]
      BY <1>3, <2>2
    <3>2. threw # FALSE
      BY <1>8, <2>2, <3>1, Zenon DEF RowsMade
    <3> QED
      BY <1>5, <1>8, <2>2, <3>1, <3>2, Zenon DEF Typed
  <2> QED
    BY <1>4, <2>1, <2>2
<1>9. threw' = FALSE => \A i \in DOMAIN taken' : ~Stray(taken'[i])
  BY <1>8, Zenon
<1>10. threw' = FALSE /\ (now' = Nobody \/ now'.role # "test") => mTest' = RunScope
  BY <1>1, Zenon DEF RowsMade
<1>11. \A i \in DOMAIN taken' : Stray(taken'[i]) => mTest' = taken'[i].test /\ (now' = Nobody \/ now'.role # "test")
  BY <1>8, Zenon
<1>12. RowsMade'
  BY <1>6, <1>7, <1>9, <1>10, <1>11, Zenon DEF RowsMade, OwnStamp, Stray
<1> QED
  BY <1>3, <1>12

LEMMA TakeMoves ==
    ASSUME Typed, RunShape, RowsMade, Take
    PROVE  Typed' /\ RunShape' /\ RowsMade'
<1>1. /\ stage = "recording" /\ reading # <<>> /\ reading' = Tail(reading)
      /\ UNCHANGED <<stage, options, todo, now, mTest, file, mScripted, served, threw>>
  BY Zenon DEF Take
<1>2. PICK c \in Readings(Head(reading)) :
        /\ \/ c \notin Heavy /\ UNCHANGED sidecar
           \/ c \in Heavy /\ \E w \in Spill(c) : w.whole /\ sidecar' = [sidecar EXCEPT ![c] = w.blob]
        /\ taken' = Append(taken, RowOf(c, TRUE))
  BY Zenon DEF Take
<1>3. Head(reading) \in Slots /\ Tail(reading) \in Seq(Slots)
  BY <1>1, HeadTailProperties DEF Typed
<1>4. c \in Contents \cup {Empty}
  BY <1>2, <1>3, ReadingsAre
<1>5. /\ sidecar' \in [Heavy -> {"absent", "short", "whole"}]
      /\ \A d \in Heavy : sidecar[d] = "whole" => sidecar'[d] = "whole"
      /\ c \in Heavy => sidecar'[c] = "whole"
  <2>1. CASE c \notin Heavy /\ UNCHANGED sidecar
    BY <2>1, Zenon DEF Typed
  <2>2. CASE c \in Heavy /\ \E w \in Spill(c) : w.whole /\ sidecar' = [sidecar EXCEPT ![c] = w.blob]
    <3>1. PICK w \in Spill(c) : w.whole /\ sidecar' = [sidecar EXCEPT ![c] = w.blob]
      BY <2>2, Zenon
    <3>2. w.blob = "whole"
      BY <2>2, <3>1, SpilledWhole, Zenon
    <3>3. sidecar \in [Heavy -> {"absent", "short", "whole"}]
      BY Zenon DEF Typed
    <3> QED
      BY <2>2, <3>1, <3>2, <3>3
  <2> QED
    BY <1>2, <2>1, <2>2, Zenon
<1>6. taken' \in Seq(Row) /\ RowsMade'
  <2>1. threw' \in BOOLEAN /\ TRUE \in BOOLEAN
    BY <1>1, Zenon DEF Typed
  <2> QED
    BY <1>1, <1>2, <1>4, <1>5, <2>1, RowAdded, Zenon
<1>7. Typed'
  <2>1. now # Nobody
    BY <1>1, Zenon DEF Typed
  <2> QED
    BY <1>1, <1>3, <1>5, <1>6, <2>1, Zenon DEF Typed
<1>8. RunShape'
  BY <1>1, Zenon DEF RunShape
<1> QED
  BY <1>6, <1>7, <1>8

LEMMA TakeThrowsMoves ==
    ASSUME Typed, RunShape, RowsMade, TakeThrows
    PROVE  Typed' /\ RunShape' /\ RowsMade'
<1>1. /\ stage = "recording" /\ reading # <<>> /\ now' = Nobody /\ reading' = <<>> /\ mTest' = mTest
      /\ todo' = IF now.role = "teardown" THEN todo ELSE TeardownsAfter(now)
      /\ threw' = (threw \/ now.role = "test")
      /\ UNCHANGED <<stage, options, file, mScripted, served>>
  BY Zenon DEF TakeThrows
<1>2. PICK c \in Readings(Head(reading)) \cap Heavy :
        \E w \in Spill(c) : /\ ~w.whole /\ sidecar' = [sidecar EXCEPT ![c] = w.blob]
                            /\ taken' = Append(taken, RowOf(c, FALSE))
  BY Zenon DEF TakeThrows
<1>3. PICK w \in Spill(c) : ~w.whole /\ sidecar' = [sidecar EXCEPT ![c] = w.blob]
                              /\ taken' = Append(taken, RowOf(c, FALSE))
  BY <1>2, Zenon
<1>4. Head(reading) \in Slots /\ now \in Scopes /\ now # Nobody
  BY <1>1, HeadTailProperties DEF Typed
<1>5. c \in Contents \cup {Empty} /\ c \in Heavy
  BY <1>2, <1>4, ReadingsAre
<1>6. /\ sidecar' \in [Heavy -> {"absent", "short", "whole"}]
      /\ \A d \in Heavy : sidecar[d] = "whole" => sidecar'[d] = "whole"
  <2>1. w.blob \in {"absent", "short", "whole"} /\ (sidecar[c] = "whole" => w.blob = "whole")
    BY <1>5, SpilledWhole, Zenon
  <2>2. sidecar \in [Heavy -> {"absent", "short", "whole"}]
    BY Zenon DEF Typed
  <2> QED
    BY <1>3, <1>5, <2>1, <2>2
<1>7. threw' \in BOOLEAN /\ (threw' = FALSE => threw = FALSE /\ now.role # "test")
  BY <1>1, Zenon DEF Typed
<1>8. taken' \in Seq(Row) /\ RowsMade'
  <2>1. FALSE \in BOOLEAN /\ FALSE # TRUE
    OBVIOUS
  <2> QED
    BY <1>1, <1>3, <1>5, <1>6, <1>7, <2>1, RowAdded, Zenon
<1>9. /\ TeardownsAfter(now) \in Seq(Scopes) /\ Ends(TeardownsAfter(now))
      /\ AllTeardowns(TeardownsAfter(now))
  BY <1>4, TeardownsLeft, Zenon
<1>10. todo' \in Seq(Scopes) /\ Ends(todo')
  BY <1>1, <1>9, Zenon DEF Typed, RunShape, Ends
<1>11. mTest' # RunScope => AllTeardowns(todo')
  <2>1. now.role = "teardown" => now.role # "test"
    OBVIOUS
  <2> QED
    BY <1>1, <1>4, <1>9, <2>1, Zenon DEF RunShape
<1>12. Typed'
  <2>1. <<>> \in Seq(Slots)
    OBVIOUS
  <2> QED
    BY <1>1, <1>6, <1>7, <1>8, <1>10, <2>1, Zenon DEF Typed
<1>13. RunShape'
  BY <1>1, <1>10, <1>11, Zenon DEF RunShape, Ends
<1> QED
  BY <1>8, <1>12, <1>13

-----------------------------------------------------------------------------
(* The recording is left.                                                   *)

(* The first rows, and one more that lost its value.                        *)
LEMMA RowsAre ==
    ASSUME Typed, NEW n \in 0..Len(taken)
    PROVE  /\ Rows(n) \in Seq(Line) /\ Len(Rows(n)) = n
           /\ \A i \in 1..n : i \in DOMAIN taken
           /\ \A i \in 1..n : Rows(n)[i] \in Line /\ Rows(n)[i].row = i /\ Rows(n)[i].hollow = ~taken[i].whole
<1>1. Len(taken) \in Nat /\ DOMAIN taken = 1..Len(taken) /\ \A i \in DOMAIN taken : taken[i].whole \in BOOLEAN
  <2>1. Len(taken) \in Nat /\ DOMAIN taken = 1..Len(taken) /\ \A i \in DOMAIN taken : taken[i] \in Row
    BY LenProperties, ElementOfSeq DEF Typed
  <2>2. \A r \in Row : r.whole \in BOOLEAN
    BY DEF Row
  <2> QED
    BY <2>1, <2>2
<1>2. \A i \in 1..n : i \in DOMAIN taken /\ i \in Nat
  BY <1>1
<1>3. \A i \in 1..n : [row |-> i, hollow |-> ~taken[i].whole] \in Line
  BY <1>2, Zenon DEF Line
<1>4. Rows(n) \in [1..n -> Line]
  BY <1>3, Zenon DEF Rows
<1>5. Rows(n) \in Seq(Line) /\ Len(Rows(n)) = n
  <2> DEFINE t == Rows(n)
  <2> HIDE DEF t
  <2>1. t \in [1..n -> Line] /\ n \in Nat
    BY <1>1, <1>4 DEF t
  <2>2. t \in Seq(Line) /\ Len(t) = n
    BY <2>1
  <2> QED
    BY <2>2 DEF t
<1>6. ASSUME NEW i \in 1..n
      PROVE  Rows(n)[i] \in Line /\ Rows(n)[i].row = i /\ Rows(n)[i].hollow = ~taken[i].whole
  <2>1. Rows(n)[i] = [row |-> i, hollow |-> ~taken[i].whole]
    BY Zenon DEF Rows
  <2>2. Rows(n)[i].row = i /\ Rows(n)[i].hollow = ~taken[i].whole
    BY <2>1
  <2>3. Rows(n)[i] \in Line
    BY <1>3, <2>1, Zenon
  <2> QED
    BY <2>2, <2>3
<1> QED
  BY <1>2, <1>5, <1>6

LEMMA CutIs ==
    ASSUME NEW rows \in Seq(Line), NEW bad \in BOOLEAN, NEW closed \in BOOLEAN
    PROVE  /\ Cut(rows, bad, closed) \in Recording
           /\ Cut(rows, bad, closed).rows = (IF bad THEN <<>> ELSE rows)
           /\ Cut(rows, bad, closed).malformed = bad /\ Cut(rows, bad, closed).closed = closed
<1>1. <<>> \in Seq(Line)
  OBVIOUS
<1> QED
  BY <1>1, Zenon DEF Cut, Recording

LEMMA EmptyLeft ==
    ASSUME Typed
    PROVE  IsLeft(Cut(<<>>, TRUE, FALSE)) /\ IsLeft(NoFile)
<1> DEFINE f == Cut(<<>>, TRUE, FALSE)
<1>1. /\ f \in Recording /\ f.rows = <<>> /\ f.closed = FALSE
      /\ NoFile \in Recording /\ NoFile.rows = <<>> /\ NoFile.closed = FALSE
  <2>1. <<>> \in Seq(Line)
    OBVIOUS
  <2> QED
    BY <2>1, Zenon DEF Cut, Recording, NoFile
<1> HIDE DEF f
<1>2. DOMAIN <<>> = {} /\ FALSE # TRUE
  OBVIOUS
<1>3. IsLeft(f) /\ IsLeft(NoFile)
  BY <1>1, <1>2, Zenon DEF IsLeft
<1> QED
  BY <1>3 DEF f

LEMMA FileOfLeft ==
    ASSUME Typed, NEW n \in 0..Len(taken), NEW closed \in BOOLEAN, closed = TRUE => n = Len(taken)
    PROVE  IsLeft(FileOf(n, closed))
<1> DEFINE bad == ~AllWhole(n - 1)
<1> DEFINE f == Cut(Rows(n), bad, closed)
<1>1. /\ Rows(n) \in Seq(Line) /\ Len(Rows(n)) = n
      /\ \A i \in 1..n : Rows(n)[i].row = i /\ Rows(n)[i].hollow = ~taken[i].whole
  BY RowsAre
<1>2. Len(taken) \in Nat /\ DOMAIN taken = 1..Len(taken) /\ \A i \in DOMAIN taken : taken[i].whole \in BOOLEAN
  <2>1. Len(taken) \in Nat /\ DOMAIN taken = 1..Len(taken) /\ \A i \in DOMAIN taken : taken[i] \in Row
    BY LenProperties, ElementOfSeq DEF Typed
  <2>2. \A r \in Row : r.whole \in BOOLEAN
    BY DEF Row
  <2> QED
    BY <2>1, <2>2
<1>8. \A i \in 1..n : i \in DOMAIN taken
  BY RowsAre, Zenon
<1>3. bad \in BOOLEAN
  BY Zenon DEF AllWhole
<1> HIDE DEF bad
<1>4. /\ f \in Recording /\ f.rows = (IF bad THEN <<>> ELSE Rows(n))
      /\ f.malformed = bad /\ f.closed = closed
  <2>1. Rows(n) \in Seq(Line)
    BY <1>1, Zenon
  <2> QED
    BY <2>1, <1>3, CutIs, ZenonT(60)
<1> HIDE DEF f
<1>5. ASSUME NEW i \in DOMAIN f.rows PROVE InFile(f, i)
  <2>1. bad = FALSE /\ f.rows = Rows(n)
    <3>1. DOMAIN <<>> = {}
      OBVIOUS
    <3> QED
      BY <1>3, <1>4, <1>5, <3>1, Zenon
  <2>2. i \in 1..n
    BY <1>1, <1>5, <2>1, LenProperties
  <2>3. i \in DOMAIN taken /\ f.rows[i].row = i /\ f.rows[i].hollow = ~taken[i].whole
    <3>1. i \in DOMAIN taken
      BY <1>8, <2>2, Zenon
    <3> QED
      BY <1>1, <2>1, <2>2, <3>1, Zenon
  <2>4. taken[i].whole \in BOOLEAN
    BY <1>2, <2>3
  <2> QED
    BY <2>3, <2>4, Zenon DEF InFile
<1>6. ASSUME f.closed = TRUE, f.malformed = FALSE PROVE Len(f.rows) = Len(taken)
  <2>1. f.rows = Rows(n) /\ n = Len(taken)
    BY <1>4, <1>6, Zenon
  <2> QED
    BY <1>1, <2>1, Zenon
<1>7. IsLeft(f)
  BY <1>4, <1>5, <1>6, Zenon DEF IsLeft
<1> QED
  BY <1>7, Zenon DEF f, bad, FileOf

LEMMA HeadLeft ==
    ASSUME Typed, NEW n \in 0..Len(taken), n < Len(taken)
    PROVE  IsLeft(Cut(Append(Rows(n), [row |-> n + 1, hollow |-> TRUE]), FALSE, FALSE))
<1> DEFINE last == [row |-> n + 1, hollow |-> TRUE]
<1> DEFINE rows == Append(Rows(n), last)
<1> DEFINE f == Cut(rows, FALSE, FALSE)
<1>1. /\ Rows(n) \in Seq(Line) /\ Len(Rows(n)) = n
      /\ \A i \in 1..n : Rows(n)[i].row = i /\ Rows(n)[i].hollow = ~taken[i].whole
  BY RowsAre
<1>2. Len(taken) \in Nat /\ DOMAIN taken = 1..Len(taken) /\ \A i \in DOMAIN taken : taken[i].whole \in BOOLEAN
  <2>1. Len(taken) \in Nat /\ DOMAIN taken = 1..Len(taken) /\ \A i \in DOMAIN taken : taken[i] \in Row
    BY LenProperties, ElementOfSeq DEF Typed
  <2>2. \A r \in Row : r.whole \in BOOLEAN
    BY DEF Row
  <2> QED
    BY <2>1, <2>2
<1>3. last \in Line /\ last.row = n + 1 /\ last.hollow = TRUE
  BY DEF Line
<1> HIDE DEF last
<1>4. /\ rows \in Seq(Line) /\ DOMAIN rows = 1..(n + 1) /\ rows[n + 1] = last
      /\ \A i \in 1..n : rows[i] = Rows(n)[i]
  BY <1>1, <1>3, AppendProperties, LenProperties
<1> HIDE DEF rows
<1>5. f \in Recording /\ f.rows = rows /\ f.closed = FALSE
  BY <1>4, CutIs, Zenon
<1> HIDE DEF f
<1>6. ASSUME NEW i \in DOMAIN f.rows PROVE InFile(f, i)
  <2>1. i \in DOMAIN taken
    BY <1>2, <1>4, <1>5, <1>6
  <2>2. CASE i = n + 1
    <3>1. f.rows[i].row = i /\ f.rows[i].hollow = TRUE
      BY <1>3, <1>4, <1>5, <2>2
    <3> QED
      BY <1>5, <2>1, <3>1, Zenon DEF InFile
  <2>3. CASE i # n + 1
    <3>1. i \in 1..n
      BY <1>4, <1>5, <1>6, <2>3
    <3>2. f.rows[i].row = i /\ f.rows[i].hollow = ~taken[i].whole
      BY <1>1, <1>4, <1>5, <3>1
    <3>3. taken[i].whole \in BOOLEAN
      BY <1>2, <2>1
    <3> QED
      BY <2>1, <3>2, <3>3, Zenon DEF InFile
  <2> QED
    BY <2>2, <2>3
<1>7. IsLeft(f)
  <2>1. FALSE # TRUE
    OBVIOUS
  <2> QED
    BY <1>5, <1>6, <2>1, Zenon DEF IsLeft
<1> QED
  BY <1>7, Zenon DEF f, rows, last

(* The stream is closed, or its buffer is lost with the process.            *)
LEMMA RecordingEnds ==
    ASSUME Typed, RunShape, RowsMade, FileHolds, CloseStream \/ LoseBuffer
    PROVE  Typed' /\ RunShape' /\ RowsMade' /\ FileHolds'
<1>1. /\ stage = "recording" /\ stage' = "between"
      /\ UNCHANGED <<options, todo, now, reading, mTest, taken, sidecar, mScripted, served, threw>>
  BY Zenon DEF CloseStream, LoseBuffer, runVars
<1>2. IsLeft(file')
  <2>1. CASE CloseStream
    <3>1. file' = FileOf(Len(taken), TRUE)
      BY <2>1, Zenon DEF CloseStream
    <3>2. Len(taken) \in 0..Len(taken)
      BY LenProperties DEF Typed
    <3>3. TRUE \in BOOLEAN
      OBVIOUS
    <3> QED
      BY <3>1, <3>2, <3>3, FileOfLeft, Zenon
  <2>2. CASE LoseBuffer
    <3>1. PICK n \in 0..Len(taken) :
            \/ file' = FileOf(n, FALSE)
            \/ n < Len(taken) /\ file' = Cut(<<>>, TRUE, FALSE)
            \/ n < Len(taken) /\ file' = Cut(Append(Rows(n), [row |-> n + 1, hollow |-> TRUE]), FALSE, FALSE)
      BY <2>2, Zenon DEF LoseBuffer
    <3>2. FALSE \in BOOLEAN /\ FALSE # TRUE
      OBVIOUS
    <3> QED
      BY <3>1, <3>2, FileOfLeft, EmptyLeft, HeadLeft, Zenon
  <2> QED
    BY <2>1, <2>2
<1>3. IsLeft(file)'
  BY <1>1, <1>2, Zenon DEF IsLeft, InFile
<1>4. stage' # "recording" /\ stage' \in {"recording", "between", "replaying", "refused", "ended"}
  BY <1>1
<1>5. Typed'
  BY <1>1, <1>2, <1>4, Zenon DEF Typed, IsLeft
<1>6. RunShape' /\ RowsMade'
  BY <1>1, <1>4, Zenon DEF RunShape, RowsMade, OwnStamp, Stray, Spilled
<1> QED
  BY <1>3, <1>4, <1>5, <1>6, Zenon DEF FileHolds

(* While rows are made there is no file yet.                                *)
LEMMA RowsOnly ==
    ASSUME FileHolds, stage = "recording", stage' = stage, UNCHANGED file
    PROVE  FileHolds'
<1>1. file = NoFile /\ file' = NoFile /\ file \in Recording
  BY Zenon DEF FileHolds, IsLeft
<1>2. file'.rows = <<>> /\ file'.closed = FALSE /\ DOMAIN <<>> = {} /\ FALSE # TRUE
  BY <1>1 DEF NoFile
<1>3. IsLeft(file)'
  BY <1>1, <1>2, Zenon DEF IsLeft
<1> QED
  BY <1>1, <1>3, Zenon DEF FileHolds

LEMMA FileKept ==
    ASSUME FileHolds, UNCHANGED <<taken, file>>, stage' = "recording" => stage = "recording"
    PROVE  FileHolds'
BY Zenon DEF FileHolds, IsLeft, InFile

-----------------------------------------------------------------------------
(* The file is sorted into slots.                                           *)

LEMMA KeptPlaces ==
    ASSUME Typed, NEW sl, NEW sel
    PROVE  /\ KeptAt(sl, sel) \in SUBSET Nat /\ IsFiniteSet(KeptAt(sl, sel))
           /\ KeptAt(sl, sel) \in SUBSET (DOMAIN file.rows)
<1>1. file.rows \in Seq(Line)
  BY DEF Typed, Recording
<1>2. Len(file.rows) \in Nat /\ DOMAIN file.rows = 1..Len(file.rows)
  BY <1>1, LenProperties
<1>3. KeptAt(sl, sel) \in SUBSET (DOMAIN file.rows)
  BY Zenon DEF KeptAt, Kept
<1>4. IsFiniteSet(DOMAIN file.rows) /\ DOMAIN file.rows \in SUBSET Nat
  <2> DEFINE l == Len(file.rows)
  <2>1. l \in Nat /\ DOMAIN file.rows = 1..l
    BY <1>2
  <2> HIDE DEF l
  <2>2. IsFiniteSet(1..l) /\ 1..l \in SUBSET Nat
    BY <2>1, FS_Interval
  <2> QED
    BY <2>1, <2>2, Zenon
<1>5. IsFiniteSet(KeptAt(sl, sel))
  BY <1>3, <1>4, FS_Subset, Zenon
<1> QED
  BY <1>3, <1>4, <1>5, Zenon

(* A row of the file says where it was taken, and answers with what it holds. *)
LEMMA LineFacts ==
    ASSUME Typed, FileHolds, NEW i \in DOMAIN file.rows
    PROVE  /\ i \in DOMAIN taken /\ taken[i] \in Row /\ file.rows[i].row = i /\ i \in Nat \ {0}
           /\ file.rows[i].hollow \in BOOLEAN
           /\ SlotOf(file.rows[i]) = taken[i].slot /\ TestOf(file.rows[i]) = taken[i].test
           /\ taken[i].slot \in Slots
           /\ AnswerOf(file.rows[i]) \in Answer
           /\ AnswerOf(file.rows[i]).row = i /\ AnswerOf(file.rows[i]).hollow = file.rows[i].hollow
           /\ AnswerOf(file.rows[i]).content = ValueOf(file.rows[i])
<1> DEFINE a == file.rows[i]
<1>1. InFile(file, i)
  BY Zenon DEF FileHolds, IsLeft
<1>2. i \in DOMAIN taken /\ a.row = i
  BY <1>1, Zenon DEF InFile
<1>3. taken[i] \in Row /\ i \in Nat \ {0}
  BY <1>2, LenProperties, ElementOfSeq DEF Typed
<1>4. a \in Line
  <2>1. file.rows \in Seq(Line)
    BY DEF Typed, Recording
  <2> QED
    BY <2>1, ElementOfSeq
<1> HIDE DEF a
<1>5. a.hollow \in BOOLEAN /\ a.row \in Nat
  BY <1>4 DEF Line
<1>6. taken[i].content \in Contents \cup {Empty} /\ taken[i].slot \in Slots
  BY <1>3 DEF Row
<1>7. ValueOf(a) \in Contents \cup {Empty, Torn}
  BY <1>2, <1>6, Zenon DEF ValueOf, Refers, ReadBlob
<1>8. AnswerOf(a) = [row |-> a.row, hollow |-> a.hollow, content |-> ValueOf(a)]
  BY Zenon DEF AnswerOf
<1> DEFINE v == ValueOf(a)
<1> HIDE DEF v
<1>9. /\ AnswerOf(a) \in Answer /\ AnswerOf(a).row = a.row /\ AnswerOf(a).hollow = a.hollow
      /\ AnswerOf(a).content = v
  <2>1. v \in Contents \cup {Empty, Torn} /\ AnswerOf(a) = [row |-> a.row, hollow |-> a.hollow, content |-> v]
    BY <1>7, <1>8 DEF v
  <2>2. [row |-> a.row, hollow |-> a.hollow, content |-> v] \in Answer
    BY <1>5, <2>1, Zenon DEF Answer
  <2> QED
    BY <2>1, <2>2
<1>10. SlotOf(a) = taken[i].slot /\ TestOf(a) = taken[i].test
  BY <1>2, Zenon DEF SlotOf, TestOf
<1>11. /\ i \in DOMAIN taken /\ taken[i] \in Row /\ a.row = i /\ i \in Nat \ {0}
       /\ a.hollow \in BOOLEAN
       /\ SlotOf(a) = taken[i].slot /\ TestOf(a) = taken[i].test
       /\ taken[i].slot \in Slots
       /\ AnswerOf(a) \in Answer
       /\ AnswerOf(a).row = i /\ AnswerOf(a).hollow = a.hollow
       /\ AnswerOf(a).content = ValueOf(a)
  BY <1>2, <1>3, <1>5, <1>6, <1>9, <1>10 DEF v
<1> QED
  BY <1>11, Zenon DEF a

LEMMA AnswersAre ==
    ASSUME Typed, FileHolds, NEW sl, NEW sel
    PROVE  /\ AnswersAt(sl, sel) \in Seq(Answer)
           /\ Cardinality(KeptAt(sl, sel)) \in Nat
           /\ Len(AnswersAt(sl, sel)) = Cardinality(KeptAt(sl, sel))
           /\ \A i \in 1..Cardinality(KeptAt(sl, sel)) :
                /\ InOrder(KeptAt(sl, sel))[i] \in KeptAt(sl, sel)
                /\ Rank(KeptAt(sl, sel), InOrder(KeptAt(sl, sel))[i]) = i
                /\ AnswersAt(sl, sel)[i] = AnswerOf(file.rows[InOrder(KeptAt(sl, sel))[i]])
<1> DEFINE K == KeptAt(sl, sel)
<1> DEFINE p == InOrder(K)
<1> DEFINE C == Cardinality(K)
<1>1. K \in SUBSET Nat /\ IsFiniteSet(K) /\ K \in SUBSET (DOMAIN file.rows)
  BY KeptPlaces, Zenon
<1> HIDE DEF K
<1>2. /\ C \in Nat /\ p \in Seq(K) /\ Len(p) = C
      /\ \A i \in 1..C : p[i] \in K /\ Rank(K, p[i]) = i
  BY <1>1, InOrderPlaces, Zenon
<1> HIDE DEF p, C
<1>3. DOMAIN p = 1..C
  BY <1>2, LenProperties
<1>4. \A i \in 1..C : AnswerOf(file.rows[p[i]]) \in Answer
  BY <1>1, <1>2, LineFacts, Zenon
<1> DEFINE t == AnswersAt(sl, sel)
<1>5. t = [i \in DOMAIN p |-> AnswerOf(file.rows[p[i]])]
  BY Zenon DEF AnswersAt, p, K
<1> HIDE DEF t
<1>6. t \in [1..C -> Answer] /\ \A i \in 1..C : t[i] = AnswerOf(file.rows[p[i]])
  BY <1>3, <1>4, <1>5, Zenon
<1>7. t \in Seq(Answer) /\ Len(t) = C
  BY <1>2, <1>6
<1>8. /\ t \in Seq(Answer) /\ C \in Nat /\ Len(t) = C
      /\ \A i \in 1..C : p[i] \in K /\ Rank(K, p[i]) = i /\ t[i] = AnswerOf(file.rows[p[i]])
  BY <1>2, <1>6, <1>7, Zenon
<1> QED
  BY <1>8, Zenon DEF t, C, p, K

LEMMA AnswersStay ==
    ASSUME UNCHANGED <<taken, file, sidecar>>, NEW sl, NEW sel
    PROVE  AnswersAt(sl, sel)' = AnswersAt(sl, sel)
BY DEF AnswersAt, KeptAt, Kept, Keeps, SlotOf, TestOf, AnswerOf, ValueOf, Refers, ReadBlob

(* There are answers for a slot if a kept row was taken at it.              *)
LEMMA AnswersThere ==
    ASSUME Typed, FileHolds, NEW sl, NEW sel
    PROVE  AnswersAt(sl, sel) # <<>> <=> \E i \in Kept(sel) : SlotOf(file.rows[i]) = sl
<1> DEFINE K == KeptAt(sl, sel)
<1> DEFINE t == AnswersAt(sl, sel)
<1>1. IsFiniteSet(K) /\ t \in Seq(Answer) /\ Cardinality(K) \in Nat /\ Len(t) = Cardinality(K)
  BY KeptPlaces, AnswersAre, Zenon
<1>2. K # {} <=> \E i \in Kept(sel) : SlotOf(file.rows[i]) = sl
  BY Zenon DEF KeptAt
<1> HIDE DEF K, t
<1>3. Cardinality(K) = 0 <=> K = {}
  BY <1>1, FS_EmptySet, Zenon
<1>4. t = <<>> <=> Len(t) = 0
  BY <1>1, EmptySeq
<1> QED
  BY <1>1, <1>2, <1>3, <1>4, Zenon DEF t

LEMMA ServedPlaces ==
    ASSUME Typed, NEW sl
    PROVE  /\ ServedAt(sl) \in SUBSET Nat /\ IsFiniteSet(ServedAt(sl))
           /\ ServedAt(sl) \in SUBSET (DOMAIN served) /\ DOMAIN served = 1..Len(served)
           /\ Len(served) \in Nat /\ Cardinality(ServedAt(sl)) \in Nat
<1>1. Len(served) \in Nat /\ DOMAIN served = 1..Len(served)
  BY LenProperties DEF Typed
<1>2. ServedAt(sl) \in SUBSET (DOMAIN served)
  BY Zenon DEF ServedAt
<1>3. IsFiniteSet(DOMAIN served) /\ DOMAIN served \in SUBSET Nat
  BY <1>1, FS_Interval
<1>4. IsFiniteSet(ServedAt(sl))
  BY <1>2, <1>3, FS_Subset, Zenon
<1>5. Cardinality(ServedAt(sl)) \in Nat
  BY <1>4, FS_CardinalityType, Zenon
<1> QED
  BY <1>1, <1>2, <1>3, <1>4, <1>5, Zenon

-----------------------------------------------------------------------------
(* What the bank is programmed with.                                        *)

LEMMA InjectedIs == Injected \in Answer /\ Injected.row = 0 /\ Injected.hollow = FALSE
<1>1. 0 \in Nat
  OBVIOUS
<1>2. FALSE \in BOOLEAN
  OBVIOUS
<1>3. Empty \in Contents \cup {Empty, Torn}
  OBVIOUS
<1>4. Injected \in Answer
  BY <1>1, <1>2, <1>3, Zenon DEF Injected, Answer
<1> QED
  BY <1>4 DEF Injected

LEMMA StimulusIs ==
    ASSUME NEW inj \in Injections \cup {NoInjection}
    PROVE  /\ DOMAIN Stimulus(inj) = inj.one \cup inj.list /\ DOMAIN Stimulus(inj) \subseteq Slots
           /\ \A sl \in DOMAIN Stimulus(inj) :
                /\ Stimulus(inj)[sl] \in Programming /\ Stimulus(inj)[sl].queue # <<>>
                /\ \A j \in 1..Len(Stimulus(inj)[sl].queue) : Stimulus(inj)[sl].queue[j] = Injected
                /\ sl \in inj.one => Stimulus(inj)[sl].constant = TRUE
<1>1. DOMAIN Stimulus(inj) = inj.one \cup inj.list
  BY Zenon DEF Stimulus
<1>2. inj.one \cup inj.list \subseteq Slots
  <2>1. CASE inj \in Injections
    BY <2>1, SessionAssumption DEF SessionAssumption
  <2>2. CASE inj = NoInjection
    BY <2>2 DEF NoInjection
  <2> QED
    BY <2>1, <2>2
<1>3. ASSUME NEW sl \in DOMAIN Stimulus(inj)
      PROVE  /\ Stimulus(inj)[sl] \in Programming /\ Stimulus(inj)[sl].queue # <<>>
             /\ \A j \in 1..Len(Stimulus(inj)[sl].queue) : Stimulus(inj)[sl].queue[j] = Injected
             /\ sl \in inj.one => Stimulus(inj)[sl].constant = TRUE
  <2> DEFINE e == Stimulus(inj)[sl]
  <2> DEFINE q == IF sl \in inj.one THEN <<Injected>> ELSE <<Injected, Injected>>
  <2>1. e = [queue |-> q, constant |-> sl \in inj.one]
    BY <1>1, <1>3, Zenon DEF Stimulus
  <2>2. q \in Seq(Answer) /\ q # <<>> /\ \A j \in 1..Len(q) : q[j] = Injected
    <3> DEFINE x == Injected
    <3>1. x \in Answer
      BY InjectedIs, Zenon
    <3>2. q = <<x>> \/ q = <<x, x>>
      BY Zenon
    <3> HIDE DEF x, q
    <3>3. q \in Seq(Answer) /\ Len(q) # 0 /\ \A j \in 1..Len(q) : q[j] = x
      <4>1. CASE q = <<x>>
        <5>1. q \in Seq(Answer) /\ Len(q) = 1 /\ q[1] = x
          BY <3>1, <4>1
        <5> QED
          BY <5>1
      <4>2. CASE q = <<x, x>>
        <5>1. q \in Seq(Answer) /\ Len(q) = 2 /\ q[1] = x /\ q[2] = x
          BY <3>1, <4>2
        <5> QED
          BY <5>1
      <4> QED
        BY <3>2, <4>1, <4>2
    <3>4. q # <<>>
      BY <3>3
    <3> QED
      BY <3>3, <3>4, Zenon DEF x
  <2> DEFINE c == sl \in inj.one
  <2>3. c \in BOOLEAN
    OBVIOUS
  <2>4. e = [queue |-> q, constant |-> c]
    BY <2>1, Zenon
  <2> HIDE DEF e, q, c
  <2>5. [queue |-> q, constant |-> c] \in Programming
    BY <2>2, <2>3, Zenon DEF Programming
  <2>6. e \in Programming /\ e.queue = q /\ e.constant = c
    BY <2>4, <2>5
  <2>7. c => c = TRUE
    BY <2>3
  <2> QED
    BY <2>2, <2>6, <2>7, Zenon DEF e, c
<1> QED
  BY <1>1, <1>2, <1>3, Zenon

LEMMA ProgrammedIs ==
    ASSUME Typed, FileHolds, NEW sel, NEW inj \in Injections \cup {NoInjection}
    PROVE  /\ DOMAIN Programmed(sel, inj) \subseteq Slots
           /\ \A sl \in DOMAIN Programmed(sel, inj) : Programmed(sel, inj)[sl] \in Programming
           /\ \A sl \in inj.one \cup inj.list :
                sl \in DOMAIN Programmed(sel, inj) /\ Programmed(sel, inj)[sl] = Stimulus(inj)[sl]
           /\ \A sl : sl \notin inj.one \cup inj.list =>
                /\ sl \in DOMAIN Programmed(sel, inj) <=> AnswersAt(sl, sel) # <<>>
                /\ sl \in DOMAIN Programmed(sel, inj) =>
                     Programmed(sel, inj)[sl] = [queue |-> AnswersAt(sl, sel), constant |-> FALSE]
<1> DEFINE L == Loaded(sel)
<1> DEFINE S == Stimulus(inj)
<1> DEFINE P == Programmed(sel, inj)
<1>1. /\ DOMAIN L = {SlotOf(file.rows[i]) : i \in Kept(sel)}
      /\ \A sl \in DOMAIN L : L[sl] = [queue |-> AnswersAt(sl, sel), constant |-> FALSE]
  BY Zenon DEF Loaded
<1>2. /\ DOMAIN P = DOMAIN L \cup DOMAIN S
      /\ \A sl \in DOMAIN P : P[sl] = IF sl \in DOMAIN S THEN S[sl] ELSE L[sl]
  BY Zenon DEF Programmed
<1>3. /\ DOMAIN S = inj.one \cup inj.list /\ DOMAIN S \subseteq Slots
      /\ \A sl \in DOMAIN S : S[sl] \in Programming
  BY StimulusIs, Zenon
<1> HIDE DEF L, S, P
<1>4. \A sl : sl \in DOMAIN L <=> AnswersAt(sl, sel) # <<>>
  BY <1>1, AnswersThere, Zenon
<1>5. DOMAIN L \subseteq Slots
  <2>1. \A i \in Kept(sel) : i \in DOMAIN file.rows
    BY Zenon DEF Kept
  <2>2. \A i \in DOMAIN file.rows : SlotOf(file.rows[i]) \in Slots
    BY LineFacts, Zenon
  <2> QED
    BY <1>1, <2>1, <2>2, Zenon
<1>6. \A sl \in DOMAIN L : L[sl] \in Programming
  <2>1. \A sl \in DOMAIN L : AnswersAt(sl, sel) \in Seq(Answer)
    BY AnswersAre, Zenon
  <2>2. FALSE \in BOOLEAN
    OBVIOUS
  <2>3. \A t \in Seq(Answer) : [queue |-> t, constant |-> FALSE] \in Programming
    BY <2>2, Zenon DEF Programming
  <2> QED
    BY <1>1, <2>1, <2>3, Zenon
<1>7. /\ DOMAIN P \subseteq Slots /\ \A sl \in DOMAIN P : P[sl] \in Programming
      /\ \A sl \in inj.one \cup inj.list : sl \in DOMAIN P /\ P[sl] = S[sl]
      /\ \A sl : sl \notin inj.one \cup inj.list =>
           /\ sl \in DOMAIN P <=> AnswersAt(sl, sel) # <<>>
           /\ sl \in DOMAIN P => P[sl] = [queue |-> AnswersAt(sl, sel), constant |-> FALSE]
  <2>1. DOMAIN P \subseteq Slots
    BY <1>2, <1>3, <1>5, Zenon
  <2>2. \A sl \in DOMAIN P : P[sl] \in Programming
    BY <1>2, <1>3, <1>6, Zenon
  <2>3. \A sl \in inj.one \cup inj.list : sl \in DOMAIN P /\ P[sl] = S[sl]
    BY <1>2, <1>3, Zenon
  <2>4. ASSUME NEW sl, sl \notin inj.one \cup inj.list
        PROVE  /\ sl \in DOMAIN P <=> AnswersAt(sl, sel) # <<>>
               /\ sl \in DOMAIN P => P[sl] = [queue |-> AnswersAt(sl, sel), constant |-> FALSE]
    <3>1. sl \in DOMAIN P <=> sl \in DOMAIN L
      BY <1>2, <1>3, <2>4, Zenon
    <3>2. sl \in DOMAIN P => P[sl] = L[sl]
      BY <1>2, <1>3, <2>4, Zenon
    <3> QED
      BY <1>1, <1>4, <3>1, <3>2, Zenon
  <2> QED
    BY <2>1, <2>2, <2>3, <2>4, Zenon
<1> QED
  BY <1>7, Zenon DEF P, S

LEMMA RequestIs ==
    ASSUME NEW q \in Requests
    PROVE  /\ q.select \in SUBSET Tests /\ q.repeat \in Nat
           /\ Itinerary(q.select, q.repeat) \in Seq(Scopes) /\ Itinerary(q.select, q.repeat) # <<>>
           /\ Ends(Itinerary(q.select, q.repeat))
<1>1. q.select \in SUBSET Tests /\ q.repeat \in Nat
  BY SessionAssumption DEF SessionAssumption
<1> QED
  BY <1>1, ItineraryEnds, Zenon

(* What is programmed and not yet handed out is as Replays says.             *)
LEMMA FreshRows ==
    ASSUME served' = <<>>, NEW sl, NEW answers \in Seq(Answer),
           sl \in DOMAIN mScripted' <=> answers # <<>>,
           sl \in DOMAIN mScripted' => mScripted'[sl] = [queue |-> answers, constant |-> FALSE]
    PROVE  Answered(sl, answers)'
<1> DEFINE S == ServedAt(sl)'
<1>1. S = {} /\ Cardinality(S) = 0
  <2>1. DOMAIN served' = {}
    OBVIOUS
  <2>2. S = {}
    BY <2>1, Zenon DEF ServedAt
  <2> QED
    BY <2>2, FS_EmptySet, Zenon
<1> HIDE DEF S
<1>2. Len(answers) \in Nat
  BY LenProperties
<1>3. ASSUME sl \in DOMAIN mScripted'
      PROVE  /\ mScripted'[sl].constant = FALSE
             /\ Len(mScripted'[sl].queue) = Len(answers) - Cardinality(S)
             /\ \A j \in 1..Len(mScripted'[sl].queue) :
                  mScripted'[sl].queue[j] = answers[Cardinality(S) + j]
  <2> DEFINE e == mScripted'[sl]
  <2> HIDE DEF e
  <2>1. e = [queue |-> answers, constant |-> FALSE]
    BY <1>3 DEF e
  <2>2. e.queue = answers /\ e.constant = FALSE
    BY <2>1
  <2>3. Len(answers) = Len(answers) - Cardinality(S)
    BY <1>1, <1>2
  <2>4. \A j \in 1..Len(answers) : j = Cardinality(S) + j
    BY <1>1, <1>2
  <2>5. \A j \in 1..Len(answers) : answers[j] = answers[Cardinality(S) + j]
    BY <2>4, Zenon
  <2> QED
    BY <2>2, <2>3, <2>5, Zenon DEF e
<1>4. Cardinality(S) <= Len(answers)
  BY <1>1, <1>2
<1>5. \A i \in S : served'[i].answer = answers[Rank(S, i)]
  BY <1>1, Zenon
<1> QED
  BY <1>3, <1>4, <1>5, Zenon DEF Answered, S

LEMMA ArmMoves ==
    ASSUME Typed, RunShape, RowsMade, FileHolds, Replays, ArmReplay
    PROVE  Typed' /\ RunShape' /\ RowsMade' /\ FileHolds' /\ Replays'
<1>1. /\ stage = "between" /\ file.malformed = FALSE /\ stage' = "replaying"
      /\ now' = Nobody /\ reading' = <<>> /\ mTest' = RunScope
      /\ UNCHANGED <<taken, file, sidecar, served, threw>>
  <2>1. file.malformed \in BOOLEAN
    BY DEF Typed, Recording
  <2> QED
    BY <2>1, Zenon DEF ArmReplay, fileVars
<1>2. PICK q \in Requests :
        \E inj \in Injections :
          /\ options' = [selection |-> q.select, skeleton |-> FALSE, replay |-> TRUE, injected |-> inj]
          /\ mScripted' = Programmed(q.select, inj)
          /\ todo' = Itinerary(q.select, q.repeat)
  BY Zenon DEF ArmReplay
<1>3. PICK inj \in Injections :
          /\ options' = [selection |-> q.select, skeleton |-> FALSE, replay |-> TRUE, injected |-> inj]
          /\ mScripted' = Programmed(q.select, inj)
          /\ todo' = Itinerary(q.select, q.repeat)
  BY <1>2, Zenon
<1> DEFINE sel == q.select
<1>4. sel \in SUBSET Tests /\ todo' \in Seq(Scopes) /\ todo' # <<>> /\ Ends(todo')
  BY <1>3, RequestIs, Zenon
<1> HIDE DEF sel
<1>5. /\ options' \in RunOptions
      /\ options'.selection = sel /\ options'.replay = TRUE /\ options'.injected = inj
  <2>1. options' = [selection |-> sel, skeleton |-> FALSE, replay |-> TRUE, injected |-> inj]
    BY <1>3 DEF sel
  <2>2. TRUE \in BOOLEAN /\ FALSE \in BOOLEAN
    OBVIOUS
  <2>3. options' \in RunOptions
    BY <1>4, <2>1, <2>2, Zenon DEF RunOptions
  <2> QED
    BY <2>1, <2>3
<1>6. stage' # "recording" /\ stage' \in {"recording", "between", "replaying", "refused", "ended"}
      /\ stage \notin {"replaying", "ended"} /\ stage' \in {"replaying", "ended"}
  BY <1>1
<1>7. inj \in Injections \cup {NoInjection} /\ mScripted' = Programmed(sel, inj)
  BY <1>3 DEF sel
<1>8. Typed'
  <2>1. DOMAIN mScripted' \subseteq Slots /\ \A sl \in DOMAIN mScripted' : mScripted'[sl] \in Programming
    BY <1>7, ProgrammedIs, Zenon
  <2>2. <<>> \in Seq(Slots) /\ mTest' \in Tests \cup {RunScope}
    BY <1>1
  <2> QED
    BY <1>1, <1>4, <1>5, <1>6, <2>1, <2>2, Zenon DEF Typed
<1>9. RunShape'
  BY <1>1, <1>4, Zenon DEF RunShape, Ends
<1>10. RowsMade'
  BY <1>1, <1>6, Zenon DEF RowsMade, OwnStamp, Stray, Spilled
<1>11. FileHolds'
  BY <1>1, <1>6, FileKept, Zenon
<1>12. served = <<>> /\ served' = <<>>
  BY <1>1, <1>6, Zenon DEF Replays
<1>13. ASSUME NEW sl \in Slots PROVE (IF FromFile(sl) THEN FromRows(sl) ELSE FromStimulus(sl))'
  <2>1. FromFile(sl)' <=> sl \notin inj.one \cup inj.list
    BY <1>5, Zenon DEF FromFile
  <2>2. CASE sl \notin inj.one \cup inj.list
    <3>1. PICK answers : answers = AnswersAt(sl, sel)
      OBVIOUS
    <3>2. answers \in Seq(Answer)
      BY <3>1, AnswersAre, Zenon
    <3>3. AnswersAt(sl, options.selection)' = answers
      <4>1. AnswersAt(sl, sel)' = AnswersAt(sl, sel)
        BY <1>1, AnswersStay, Zenon
      <4>2. AnswersAt(sl, options.selection)' = AnswersAt(sl, sel)'
        BY <1>5 DEF AnswersAt, KeptAt, Kept, Keeps
      <4> QED
        BY <3>1, <4>1, <4>2, Zenon
    <3>4. /\ sl \in DOMAIN mScripted' <=> answers # <<>>
          /\ sl \in DOMAIN mScripted' => mScripted'[sl] = [queue |-> answers, constant |-> FALSE]
      BY <1>7, <2>2, <3>1, ProgrammedIs, Zenon
    <3>5. Answered(sl, answers)'
      BY <1>12, <3>2, <3>4, FreshRows, Zenon
    <3>6. FromRows(sl)'
      BY <3>3, <3>5, Zenon DEF FromRows
    <3> QED
      BY <2>1, <2>2, <3>6, Zenon
  <2>3. CASE sl \in inj.one \cup inj.list
    <3>1. sl \in DOMAIN mScripted' /\ mScripted'[sl] = Stimulus(inj)[sl] /\ sl \in DOMAIN Stimulus(inj)
      <4>1. sl \in DOMAIN Programmed(sel, inj) /\ Programmed(sel, inj)[sl] = Stimulus(inj)[sl]
        BY <1>7, <2>3, ProgrammedIs, Zenon
      <4>2. sl \in DOMAIN Stimulus(inj)
        BY <1>7, <2>3, StimulusIs, Zenon
      <4> QED
        BY <1>7, <4>1, <4>2, Zenon
    <3>2. ServedAt(sl)' = {}
      <4>1. DOMAIN served' = {}
        BY <1>12
      <4> QED
        BY <4>1, Zenon DEF ServedAt
    <3>4. /\ mScripted'[sl].queue # <<>>
          /\ \A j \in 1..Len(mScripted'[sl].queue) : mScripted'[sl].queue[j] = Injected
          /\ sl \in inj.one => mScripted'[sl].constant = TRUE
      <4>1. /\ Stimulus(inj)[sl].queue # <<>>
            /\ \A j \in 1..Len(Stimulus(inj)[sl].queue) : Stimulus(inj)[sl].queue[j] = Injected
            /\ sl \in inj.one => Stimulus(inj)[sl].constant = TRUE
        BY <1>7, <3>1, StimulusIs, Zenon
      <4> QED
        BY <3>1, <4>1, Zenon
    <3>3. FromStimulus(sl)'
      BY <1>5, <3>1, <3>2, <3>4, Zenon DEF FromStimulus
    <3> QED
      BY <2>1, <2>3, <3>3, Zenon
  <2> QED
    BY <2>2, <2>3, Zenon
<1>14. Replays'
  BY <1>1, <1>6, <1>13, Zenon DEF Replays
<1> QED
  BY <1>8, <1>9, <1>10, <1>11, <1>14

-----------------------------------------------------------------------------
(* A reading is handed out.                                                 *)

(* What the step does to the slot that is read, and to the others.          *)
LEMMA FetchIs ==
    ASSUME Typed, Fetch, NEW sl, sl = Head(reading)
    PROVE  LET n == Len(served) + 1
               q == mScripted[sl].queue IN
           /\ sl \in Slots /\ sl \in DOMAIN mScripted /\ q \in Seq(Answer) /\ q # <<>>
           /\ DOMAIN mScripted' = DOMAIN mScripted /\ mScripted'[sl] \in Programming
           /\ mScripted'[sl].constant = mScripted[sl].constant
           /\ mScripted'[sl].queue = (IF mScripted[sl].constant = TRUE THEN q ELSE Tail(q))
           /\ \A other \in DOMAIN mScripted : other # sl => mScripted'[other] = mScripted[other]
           /\ served' \in Seq(Handed) /\ DOMAIN served' = 1..n /\ n \in Nat /\ DOMAIN served = 1..(n - 1)
           /\ served'[n].answer = Head(q) /\ served'[n].by = now
           /\ \A i \in DOMAIN served : served'[i] = served[i]
           /\ ServedAt(sl)' = ServedAt(sl) \cup {n}
           /\ \A other : other # sl => ServedAt(other)' = ServedAt(other)
<1> DEFINE n == Len(served) + 1
<1> DEFINE e == mScripted[sl]
<1> DEFINE q == e.queue
<1> DEFINE r == [by |-> now, slot |-> sl, answer |-> Head(q)]
<1>1. /\ reading # <<>> /\ sl \in DOMAIN mScripted /\ q # <<>>
      /\ served' = Append(served, r) /\ mScripted' = [mScripted EXCEPT ![sl] = Spent(@)]
  BY Zenon DEF Fetch, HasAnswer
<1>2. sl \in Slots /\ now \in Scopes
  BY <1>1, HeadTailProperties DEF Typed
<1>3. e \in Programming
  BY <1>1, Zenon DEF Typed
<1> HIDE DEF e
<1>4. q \in Seq(Answer) /\ e.constant \in BOOLEAN
  BY <1>3 DEF Programming
<1>5. Head(q) \in Answer /\ Tail(q) \in Seq(Answer)
  BY <1>1, <1>4, HeadTailProperties
<1>6. Spent(e) \in Programming /\ Spent(e).constant = e.constant
      /\ Spent(e).queue = (IF e.constant = TRUE THEN q ELSE Tail(q))
  <2>1. CASE e.constant = TRUE
    <3>1. Spent(e) = e
      BY <2>1, Zenon DEF Spent
    <3> QED
      BY <1>3, <2>1, <3>1, Zenon
  <2>2. CASE e.constant = FALSE
    <3>1. Spent(e) = [e EXCEPT !.queue = Tail(q)]
      BY <2>2, Zenon DEF Spent
    <3> DEFINE t == Tail(q)
    <3> HIDE DEF t, q
    <3>2. t \in Seq(Answer) /\ Spent(e) = [e EXCEPT !.queue = t]
      BY <1>5, <3>1 DEF t
    <3>3. Spent(e) \in Programming
      BY <1>3, <3>2, Zenon DEF Programming
    <3>4. Spent(e).constant = e.constant /\ Spent(e).queue = t
      BY <1>3, <3>2 DEF Programming
    <3>5. FALSE # TRUE
      OBVIOUS
    <3> QED
      BY <2>2, <3>3, <3>4, <3>5, Zenon DEF t
  <2> QED
    BY <1>4, <2>1, <2>2
<1>7. /\ DOMAIN mScripted' = DOMAIN mScripted /\ mScripted'[sl] = Spent(e)
      /\ \A other \in DOMAIN mScripted : other # sl => mScripted'[other] = mScripted[other]
  BY <1>1, Zenon DEF e
<1> HIDE DEF q
<1>8. r \in Handed /\ r.answer = Head(q) /\ r.by = now /\ r.slot = sl
  <2>1. r \in Handed
    BY <1>2, <1>5, Zenon DEF Handed
  <2> QED
    BY <2>1
<1> HIDE DEF r
<1>9. Len(served) \in Nat /\ served \in Seq(Handed) /\ DOMAIN served = 1..Len(served)
  BY LenProperties DEF Typed
<1>10. /\ served' \in Seq(Handed) /\ Len(served') = n /\ served'[n] = r
       /\ \A i \in 1..Len(served) : served'[i] = served[i]
  BY <1>1, <1>8, <1>9, AppendProperties
<1>11. n \in Nat /\ DOMAIN served' = 1..n /\ DOMAIN served = 1..(n - 1)
  BY <1>9, <1>10, LenProperties
<1>12. \A i \in DOMAIN served : served'[i] = served[i] /\ i # n
  BY <1>9, <1>10
<1>13. \A i : i \in DOMAIN served' <=> i \in DOMAIN served \/ i = n
  BY <1>11
<1> HIDE DEF n
<1>14. ServedAt(sl)' = ServedAt(sl) \cup {n}
  <2>1. \A i : i \in {j \in DOMAIN served' : served'[j].slot = sl} <=> i \in {j \in DOMAIN served : served[j].slot = sl} \cup {n}
    BY <1>8, <1>10, <1>12, <1>13, Zenon
  <2>2. {j \in DOMAIN served' : served'[j].slot = sl} = {j \in DOMAIN served : served[j].slot = sl} \cup {n}
    BY <2>1, Zenon
  <2> QED
    BY <2>2, Zenon DEF ServedAt
<1>15. ASSUME NEW other, other # sl PROVE ServedAt(other)' = ServedAt(other)
  <2>1. \A i : i \in {j \in DOMAIN served' : served'[j].slot = other} <=> i \in {j \in DOMAIN served : served[j].slot = other}
    BY <1>8, <1>10, <1>12, <1>13, <1>15, Zenon
  <2>2. {j \in DOMAIN served' : served'[j].slot = other} = {j \in DOMAIN served : served[j].slot = other}
    BY <2>1, Zenon
  <2> QED
    BY <2>2, Zenon DEF ServedAt
<1> QED
  BY <1>1, <1>2, <1>4, <1>6, <1>7, <1>8, <1>10, <1>11, <1>12, <1>14, <1>15, Zenon DEF q, e, n

(* The next answer of the slot is handed out, and the rest stay queued.     *)
LEMMA FetchAnswer ==
    ASSUME Typed, Fetch, NEW sl, sl = Head(reading), NEW answers \in Seq(Answer), Answered(sl, answers)
    PROVE  Answered(sl, answers)'
<1> DEFINE n == Len(served) + 1
<1> DEFINE S == ServedAt(sl)
<1> DEFINE T == S \cup {n}
<1> DEFINE count == Cardinality(S)
<1> DEFINE e == mScripted[sl]
<1> DEFINE f == mScripted'[sl]
<1> DEFINE q == e.queue
<1>1. /\ sl \in DOMAIN mScripted /\ q \in Seq(Answer) /\ q # <<>>
      /\ DOMAIN mScripted' = DOMAIN mScripted
      /\ f.constant = e.constant /\ f.queue = (IF e.constant = TRUE THEN q ELSE Tail(q))
      /\ n \in Nat /\ DOMAIN served = 1..(n - 1)
      /\ served'[n].answer = Head(q)
      /\ \A i \in DOMAIN served : served'[i] = served[i]
      /\ ServedAt(sl)' = T
  BY FetchIs, Zenon
<1>2. /\ count <= Len(answers) /\ (sl \in DOMAIN mScripted <=> answers # <<>>)
      /\ e.constant = FALSE /\ Len(q) = Len(answers) - count
      /\ \A j \in 1..Len(q) : q[j] = answers[count + j]
      /\ \A i \in S : served[i].answer = answers[Rank(S, i)]
  BY <1>1, Zenon DEF Answered
<1>3. S \in SUBSET Nat /\ IsFiniteSet(S) /\ S \in SUBSET (DOMAIN served) /\ count \in Nat
  BY ServedPlaces, Zenon
<1> HIDE DEF e, f, S
<1>4. \A i \in S : i < n
  <2> HIDE DEF n
  <2> SUFFICES ASSUME NEW i \in S PROVE i < n
    OBVIOUS
  <2>1. i \in 1..(n - 1)
    BY <1>1, <1>3, Zenon
  <2> QED
    BY <1>1, <2>1
<1> HIDE DEF n
<1>5. Cardinality(T) = count + 1 /\ Rank(T, n) = count + 1 /\ \A i \in S : Rank(T, i) = Rank(S, i)
  BY <1>1, <1>3, <1>4, RankNext, Zenon
<1> HIDE DEF q, count
<1>6. /\ Len(q) \in Nat \ {0} /\ Head(q) = q[1] /\ Len(Tail(q)) = Len(q) - 1
      /\ \A j \in 1..(Len(q) - 1) : Tail(q)[j] = q[j + 1]
  BY <1>1, EmptySeq, HeadTailProperties
<1>7. Len(answers) \in Nat
  BY LenProperties
<1>8. count + 1 <= Len(answers) /\ Len(Tail(q)) = Len(answers) - (count + 1)
  BY <1>2, <1>3, <1>6, <1>7
<1>9. f.queue = Tail(q) /\ f.constant = FALSE
  <2>1. FALSE # TRUE
    OBVIOUS
  <2> QED
    BY <1>1, <1>2, <2>1, Zenon
<1>10. ASSUME NEW j \in 1..Len(Tail(q)) PROVE Tail(q)[j] = answers[count + 1 + j]
  <2>1. Tail(q)[j] = q[j + 1] /\ j + 1 \in 1..Len(q)
    BY <1>6
  <2>2. q[j + 1] = answers[count + (j + 1)]
    BY <1>2, <2>1, Zenon
  <2>3. count + (j + 1) = count + 1 + j
    BY <1>3, <1>6
  <2> QED
    BY <2>1, <2>2, <2>3
<1>11. ASSUME NEW i \in T PROVE served'[i].answer = answers[Rank(T, i)]
  <2>1. CASE i = n
    <3>1. served'[n].answer = q[1] /\ q[1] = answers[count + 1]
      <4>1. 1 \in 1..Len(q)
        BY <1>6
      <4> QED
        BY <1>1, <1>2, <1>6, <4>1, Zenon
    <3> QED
      BY <1>5, <2>1, <3>1, Zenon
  <2>2. CASE i \in S
    <3>1. served'[i] = served[i]
      BY <1>1, <1>3, <2>2, Zenon
    <3> QED
      BY <1>2, <1>5, <2>2, <3>1, Zenon
  <2> QED
    BY <2>1, <2>2
<1>12. sl \in DOMAIN mScripted' <=> answers # <<>>
  BY <1>1, <1>2, Zenon
<1> HIDE DEF T
<1> QED
  BY <1>1, <1>5, <1>8, <1>9, <1>10, <1>11, <1>12, Zenon DEF Answered, f

LEMMA FetchInjected ==
    ASSUME Typed, Fetch, NEW sl, sl = Head(reading), FromStimulus(sl)
    PROVE  FromStimulus(sl)'
<1> DEFINE n == Len(served) + 1
<1> DEFINE S == ServedAt(sl)
<1> DEFINE e == mScripted[sl]
<1> DEFINE f == mScripted'[sl]
<1> DEFINE q == e.queue
<1>1. /\ sl \in DOMAIN mScripted /\ q \in Seq(Answer) /\ q # <<>>
      /\ DOMAIN mScripted' = DOMAIN mScripted
      /\ f.constant = e.constant /\ f.queue = (IF e.constant = TRUE THEN q ELSE Tail(q))
      /\ served'[n].answer = Head(q)
      /\ \A i \in DOMAIN served : served'[i] = served[i]
      /\ ServedAt(sl)' = S \cup {n}
  BY FetchIs, Zenon
<1>2. /\ \A j \in 1..Len(q) : q[j] = Injected
      /\ sl \in options.injected.one => e.constant = TRUE
      /\ \A i \in S : served[i].answer = Injected
  BY <1>1, Zenon DEF FromStimulus
<1>3. S \in SUBSET (DOMAIN served) /\ options' = options
  BY ServedPlaces, Zenon DEF Fetch
<1> HIDE DEF e, f, S, n, q
<1>4. /\ Len(q) \in Nat \ {0} /\ Head(q) = q[1] /\ Len(Tail(q)) = Len(q) - 1
      /\ \A j \in 1..(Len(q) - 1) : Tail(q)[j] = q[j + 1]
  BY <1>1, EmptySeq, HeadTailProperties
<1>5. Head(q) = Injected
  <2>1. 1 \in 1..Len(q)
    BY <1>4
  <2> QED
    BY <1>2, <1>4, <2>1, Zenon
<1>6. \A j \in 1..Len(Tail(q)) : Tail(q)[j] = Injected
  <2> SUFFICES ASSUME NEW j \in 1..Len(Tail(q)) PROVE Tail(q)[j] = Injected
    OBVIOUS
  <2>1. Tail(q)[j] = q[j + 1] /\ j + 1 \in 1..Len(q)
    BY <1>4
  <2> QED
    BY <1>2, <2>1, Zenon
<1>7. \A j \in 1..Len(f.queue) : f.queue[j] = Injected
  BY <1>1, <1>2, <1>6, Zenon
<1>8. sl \in options.injected.one => f.constant = TRUE /\ f.queue # <<>>
  BY <1>1, <1>2, Zenon
<1>9. \A i \in S \cup {n} : served'[i].answer = Injected
  BY <1>1, <1>2, <1>3, <1>5, Zenon
<1> QED
  BY <1>1, <1>3, <1>7, <1>8, <1>9, Zenon DEF FromStimulus, f

LEMMA FetchMoves ==
    ASSUME Typed, RunShape, RowsMade, FileHolds, Replays, Fetch
    PROVE  Typed' /\ RunShape' /\ RowsMade' /\ FileHolds' /\ Replays'
<1>1. /\ stage = "replaying" /\ reading # <<>> /\ reading' = Tail(reading)
      /\ UNCHANGED <<stage, options, todo, now, mTest, taken, file, sidecar, threw>>
  BY Zenon DEF Fetch, fileVars
<1>2. PICK read : read = Head(reading)
  OBVIOUS
<1>3. /\ read \in Slots /\ read \in DOMAIN mScripted
      /\ DOMAIN mScripted' = DOMAIN mScripted /\ mScripted'[read] \in Programming
      /\ \A other \in DOMAIN mScripted : other # read => mScripted'[other] = mScripted[other]
      /\ served' \in Seq(Handed)
      /\ \A i \in DOMAIN served : served'[i] = served[i]
      /\ \A other : other # read => ServedAt(other)' = ServedAt(other)
  BY <1>2, FetchIs, Zenon
<1>4. Typed'
  <2>1. Tail(reading) \in Seq(Slots)
    BY <1>1, HeadTailProperties DEF Typed
  <2>2. DOMAIN mScripted' \subseteq Slots /\ \A sl \in DOMAIN mScripted' : mScripted'[sl] \in Programming
    BY <1>3, Zenon DEF Typed
  <2>3. now # Nobody
    BY <1>1, Zenon DEF Typed
  <2> QED
    BY <1>1, <1>3, <2>1, <2>2, <2>3, Zenon DEF Typed
<1>5. RunShape'
  BY <1>1, Zenon DEF RunShape
<1>6. RowsMade'
  BY <1>1, Zenon DEF RowsMade, OwnStamp, Stray, Spilled
<1>7. FileHolds'
  BY <1>1, FileKept, Zenon
<1>8. stage \in {"replaying", "ended"}
  BY <1>1
<1>9. ASSUME NEW sl \in Slots PROVE (IF FromFile(sl) THEN FromRows(sl) ELSE FromStimulus(sl))'
  <2>1. FromFile(sl)' <=> FromFile(sl)
    BY <1>1, Zenon DEF FromFile
  <2>2. IF FromFile(sl) THEN FromRows(sl) ELSE FromStimulus(sl)
    BY <1>8, Zenon DEF Replays
  <2>3. CASE FromFile(sl)
    <3>1. PICK answers : answers = AnswersAt(sl, options.selection)
      OBVIOUS
    <3>2. answers \in Seq(Answer) /\ Answered(sl, answers)
      BY <2>2, <2>3, <3>1, AnswersAre, Zenon DEF FromRows
    <3>3. AnswersAt(sl, options.selection)' = answers
      <4>1. PICK sel : sel = options.selection
        OBVIOUS
      <4>2. AnswersAt(sl, sel)' = AnswersAt(sl, sel)
        BY <1>1, AnswersStay, Zenon
      <4>3. AnswersAt(sl, options.selection)' = AnswersAt(sl, sel)'
        BY <1>1, <4>1 DEF AnswersAt, KeptAt, Kept, Keeps
      <4> QED
        BY <3>1, <4>1, <4>2, <4>3, Zenon
    <3>4. Answered(sl, answers)'
      <4>1. CASE sl = read
        BY <1>2, <3>2, <4>1, FetchAnswer, Zenon
      <4>2. CASE sl # read
        <5>1. ServedAt(sl)' = ServedAt(sl) /\ \A i \in ServedAt(sl) : served'[i] = served[i]
          BY <1>3, <4>2, ServedPlaces, Zenon
        <5>2. sl \in DOMAIN mScripted => mScripted'[sl] = mScripted[sl]
          BY <1>3, <4>2, Zenon
        <5> QED
          BY <1>3, <3>2, <5>1, <5>2, Zenon DEF Answered
      <4> QED
        BY <4>1, <4>2
    <3> QED
      BY <2>1, <2>3, <3>3, <3>4, Zenon DEF FromRows
  <2>4. CASE ~FromFile(sl)
    <3>1. FromStimulus(sl)'
      <4>1. CASE sl = read
        BY <1>2, <2>2, <2>4, <4>1, FetchInjected, Zenon
      <4>2. CASE sl # read
        <5>1. ServedAt(sl)' = ServedAt(sl) /\ \A i \in ServedAt(sl) : served'[i] = served[i]
          BY <1>3, <4>2, ServedPlaces, Zenon
        <5>2. sl \in DOMAIN mScripted => mScripted'[sl] = mScripted[sl]
          BY <1>3, <4>2, Zenon
        <5> QED
          BY <1>1, <1>3, <2>2, <2>4, <5>1, <5>2, Zenon DEF FromStimulus
      <4> QED
        BY <4>1, <4>2
    <3> QED
      BY <2>1, <2>4, <3>1, Zenon
  <2> QED
    BY <2>3, <2>4
<1>10. Replays'
  BY <1>1, <1>8, <1>9, Zenon DEF Replays
<1> QED
  BY <1>4, <1>5, <1>6, <1>7, <1>10

(* What the run does between its readings leaves the bank as it is.         *)
LEMMA BankKept ==
    ASSUME Replays, UNCHANGED <<options, taken, file, sidecar, mScripted, served>>,
           stage' \in {"replaying", "ended"} <=> stage \in {"replaying", "ended"}
    PROVE  Replays'
<1>1. ASSUME NEW sl PROVE (IF FromFile(sl) THEN FromRows(sl) ELSE FromStimulus(sl))'
                          <=> (IF FromFile(sl) THEN FromRows(sl) ELSE FromStimulus(sl))
  <2>1. ServedAt(sl)' = ServedAt(sl)
    BY Zenon DEF ServedAt
  <2>2. FromFile(sl)' <=> FromFile(sl)
    BY Zenon DEF FromFile
  <2>3. FromStimulus(sl)' <=> FromStimulus(sl)
    BY <2>1, Zenon DEF FromStimulus
  <2>4. AnswersAt(sl, options.selection)' = AnswersAt(sl, options.selection)
    BY DEF AnswersAt, KeptAt, Kept, Keeps, SlotOf, TestOf, AnswerOf, ValueOf, Refers, ReadBlob
  <2>5. FromRows(sl)' <=> FromRows(sl)
    BY <2>1, <2>4, Zenon DEF FromRows, Answered
  <2> QED
    BY <2>2, <2>3, <2>5, Zenon
<1> QED
  BY <1>1, Zenon DEF Replays

LEMMA NoReplayYet ==
    ASSUME Replays, served' = served,
           stage \notin {"replaying", "ended"}, stage' \notin {"replaying", "ended"}
    PROVE  Replays'
BY Zenon DEF Replays

-----------------------------------------------------------------------------
(* The invariant, of every run.                                             *)

LEMMA InitHolds == Init => IInv
<1> SUFFICES ASSUME Init PROVE IInv
  OBVIOUS
<1>1. PICK q \in Requests : /\ StartRecording(q) \/ StartInjected(q)
                            /\ todo = Itinerary(q.select, q.repeat)
  BY Zenon DEF Init
<1>2. /\ now = Nobody /\ reading = <<>> /\ mTest = RunScope /\ taken = <<>> /\ file = NoFile
      /\ served = <<>> /\ threw = FALSE
  BY Zenon DEF Init
<1>3. /\ q.select \in SUBSET Tests
      /\ todo \in Seq(Scopes) /\ todo # <<>> /\ Ends(todo)
  BY <1>1, RequestIs, Zenon
<1>4. /\ stage \in {"recording", "replaying"} /\ options \in RunOptions
      /\ sidecar \in [Heavy -> {"absent", "short", "whole"}]
      /\ DOMAIN mScripted \subseteq Slots /\ \A sl \in DOMAIN mScripted : mScripted[sl] \in Programming
      /\ stage = "replaying" =>
           options.replay = FALSE /\ options.injected \in Injections /\ mScripted = Stimulus(options.injected)
  <2> DEFINE sel == q.select
  <2>0. sel \in SUBSET Tests /\ TRUE \in BOOLEAN /\ FALSE \in BOOLEAN /\ NoInjection \in Injections \cup {NoInjection}
    BY <1>3
  <2> HIDE DEF sel
  <2>1. CASE StartRecording(q)
    <3>1. PICK skeleton \in BOOLEAN :
            options = [selection |-> sel, skeleton |-> skeleton, replay |-> FALSE, injected |-> NoInjection]
      BY <2>1, Zenon DEF StartRecording, sel
    <3>2. options \in RunOptions
      BY <2>0, <3>1, Zenon DEF RunOptions
    <3>3. stage = "recording" /\ mScripted = <<>> /\ sidecar \in [Heavy -> {"absent", "short", "whole"}]
      BY <2>1, Zenon DEF StartRecording
    <3>4. DOMAIN mScripted = {} /\ stage # "replaying" /\ stage \in {"recording", "replaying"}
      BY <3>3
    <3> QED
      BY <3>2, <3>3, <3>4, Zenon
  <2>2. CASE StartInjected(q)
    <3>1. PICK inj \in Injections :
            /\ options = [selection |-> sel, skeleton |-> FALSE, replay |-> FALSE, injected |-> inj]
            /\ mScripted = Stimulus(inj)
      BY <2>2, Zenon DEF StartInjected, sel
    <3>2. options \in RunOptions
      BY <2>0, <3>1, Zenon DEF RunOptions
    <3>3. options.replay = FALSE /\ options.injected = inj
      BY <3>1
    <3>4. stage = "replaying" /\ sidecar = NoBlobs
      BY <2>2, Zenon DEF StartInjected
    <3>5. sidecar \in [Heavy -> {"absent", "short", "whole"}] /\ stage \in {"recording", "replaying"}
      BY <3>4 DEF NoBlobs
    <3>6. DOMAIN mScripted \subseteq Slots /\ \A sl \in DOMAIN mScripted : mScripted[sl] \in Programming
      BY <3>1, StimulusIs, Zenon
    <3> QED
      BY <3>1, <3>2, <3>3, <3>5, <3>6, Zenon
  <2> QED
    BY <1>1, <2>1, <2>2, Zenon
<1>5. NoFile \in Recording /\ NoFile.malformed = FALSE /\ NoFile.closed = FALSE /\ NoFile.rows = <<>>
  <2>1. <<>> \in Seq(Line)
    OBVIOUS
  <2> QED
    BY <2>1, Zenon DEF NoFile, Recording
<1>6. /\ <<>> \in Seq(Slots) /\ <<>> \in Seq(Row) /\ <<>> \in Seq(Handed) /\ DOMAIN <<>> = {}
      /\ FALSE \in BOOLEAN /\ FALSE # TRUE
  OBVIOUS
<1>7. stage \in {"recording", "between", "replaying", "refused", "ended"}
  BY <1>4
<1>8. Typed
  BY <1>2, <1>3, <1>4, <1>5, <1>6, <1>7, Zenon DEF Typed
<1>9. RunShape
  BY <1>2, <1>3, Zenon DEF RunShape, Ends
<1>10. RowsMade
  BY <1>2, <1>6, Zenon DEF RowsMade
<1>11. FileHolds
  BY <1>2, <1>5, <1>6, Zenon DEF FileHolds, IsLeft
<1>12. ASSUME stage = "replaying", NEW sl \in Slots PROVE ~FromFile(sl) /\ FromStimulus(sl)
  <2>1. /\ options.replay = FALSE /\ mScripted = Stimulus(options.injected)
        /\ options.injected \in Injections \cup {NoInjection}
    BY <1>4, <1>12, Zenon
  <2>2. ~FromFile(sl)
    BY <1>6, <2>1, Zenon DEF FromFile
  <2>3. ServedAt(sl) = {}
    BY <1>2, <1>6, Zenon DEF ServedAt
  <2> DEFINE inj == options.injected
  <2> HIDE DEF inj
  <2>4. /\ DOMAIN mScripted = inj.one \cup inj.list
        /\ \A x \in DOMAIN mScripted :
             /\ mScripted[x].queue # <<>>
             /\ \A j \in 1..Len(mScripted[x].queue) : mScripted[x].queue[j] = Injected
             /\ x \in inj.one => mScripted[x].constant = TRUE
    BY <2>1, StimulusIs, Zenon DEF inj
  <2> QED
    BY <2>2, <2>3, <2>4, Zenon DEF FromStimulus, inj
<1>13. Replays
  <2>1. stage \in {"replaying", "ended"} => stage = "replaying"
    BY <1>4
  <2> QED
    BY <1>2, <1>5, <1>12, <2>1, Zenon DEF Replays
<1> QED
  BY <1>8, <1>9, <1>10, <1>11, <1>13 DEF IInv

LEMMA NextHolds == IInv /\ [Next]_vars => IInv'
<1> SUFFICES ASSUME Typed, RunShape, RowsMade, FileHolds, Replays, [Next]_vars
             PROVE  Typed' /\ RunShape' /\ RowsMade' /\ FileHolds' /\ Replays'
  BY Zenon DEF IInv
<1>1. ASSUME Frame PROVE FileHolds' /\ Replays'
  BY <1>1, FileKept, BankKept, Zenon DEF Frame
<1>2. CASE Enter
  BY <1>1, <1>2, EnterMoves, Zenon
<1>3. CASE Leave
  BY <1>1, <1>3, LeaveMoves, Zenon
<1>4. CASE SetupFails
  BY <1>1, <1>4, SetupFailsMoves, Zenon
<1>5. CASE ScopeThrows
  BY <1>1, <1>5, UnwindMoves, Zenon DEF ScopeThrows
<1>6. CASE StopInTest
  BY <1>1, <1>6, StopInTestMoves, Zenon
<1>7. CASE StopBetween
  BY <1>1, <1>7, StopBetweenMoves, Zenon
<1>8. CASE Starve
  <2>1. now # Nobody /\ Unwind
    BY <1>8, Zenon DEF Starve, Typed
  <2> QED
    BY <1>1, <2>1, UnwindMoves, Zenon
<1>9. "recording" \notin {"replaying", "ended"} /\ "between" \notin {"replaying", "ended"}
      /\ "refused" \notin {"replaying", "ended"} /\ "between" # "recording" /\ "refused" # "recording"
      /\ "ended" # "recording" /\ "ended" \in {"replaying", "ended"} /\ "replaying" \in {"replaying", "ended"}
  OBVIOUS
<1>10. CASE Take
  <2>1. Typed' /\ RunShape' /\ RowsMade'
    BY <1>10, TakeMoves, Zenon
  <2>2. stage = "recording" /\ stage' = stage /\ UNCHANGED file /\ served' = served
    BY <1>10, Zenon DEF Take
  <2> QED
    BY <1>9, <2>1, <2>2, RowsOnly, NoReplayYet, Zenon
<1>11. CASE TakeThrows
  <2>1. Typed' /\ RunShape' /\ RowsMade'
    BY <1>11, TakeThrowsMoves, Zenon
  <2>2. stage = "recording" /\ stage' = stage /\ UNCHANGED file /\ served' = served
    BY <1>11, Zenon DEF TakeThrows
  <2> QED
    BY <1>9, <2>1, <2>2, RowsOnly, NoReplayYet, Zenon
<1>12. CASE CloseStream \/ LoseBuffer
  <2>1. Typed' /\ RunShape' /\ RowsMade' /\ FileHolds'
    BY <1>12, RecordingEnds, Zenon
  <2>2. stage = "recording" /\ stage' = "between" /\ served' = served
    BY <1>12, Zenon DEF CloseStream, LoseBuffer
  <2> QED
    BY <1>9, <2>1, <2>2, NoReplayYet, Zenon
<1>13. CASE ArmReplay
  BY <1>13, ArmMoves, Zenon
<1>14. CASE Fetch
  BY <1>14, FetchMoves, Zenon
<1>15. ASSUME UNCHANGED <<options, todo, now, reading, mTest, taken, file, sidecar, mScripted, served, threw>>,
              stage' \in {"recording", "between", "replaying", "refused", "ended"},
              stage' = "recording" => stage = "recording",
              stage' \in {"replaying", "ended"} <=> stage \in {"replaying", "ended"}
       PROVE  Typed' /\ RunShape' /\ RowsMade' /\ FileHolds' /\ Replays'
  <2>1. Typed'
    BY <1>15, Zenon DEF Typed
  <2>2. RunShape'
    BY <1>15, Zenon DEF RunShape
  <2>3. RowsMade'
    BY <1>15, Zenon DEF RowsMade, OwnStamp, Stray, Spilled
  <2>4. FileHolds'
    BY <1>15, FileKept, Zenon
  <2>5. Replays'
    BY <1>15, BankKept, Zenon
  <2> QED
    BY <2>1, <2>2, <2>3, <2>4, <2>5
<1>16. CASE RefuseReplay
  <2>1. /\ stage = "between" /\ stage' = "refused"
        /\ UNCHANGED <<options, todo, now, reading, mTest, taken, file, sidecar, mScripted, served, threw>>
    BY <1>16, Zenon DEF RefuseReplay, runVars, fileVars
  <2>2. stage' \in {"recording", "between", "replaying", "refused", "ended"}
    BY <2>1
  <2> QED
    BY <1>9, <1>15, <2>1, <2>2, Zenon
<1>17. CASE EndReplay
  <2>1. /\ stage = "replaying" /\ stage' = "ended"
        /\ UNCHANGED <<options, todo, now, reading, mTest, taken, file, sidecar, mScripted, served, threw>>
    BY <1>17, Zenon DEF EndReplay, runVars, fileVars
  <2>2. stage' \in {"recording", "between", "replaying", "refused", "ended"}
    BY <2>1
  <2> QED
    BY <1>9, <1>15, <2>1, <2>2, Zenon
<1>18. CASE UNCHANGED vars
  <2>1. /\ stage' = stage
        /\ UNCHANGED <<options, todo, now, reading, mTest, taken, file, sidecar, mScripted, served, threw>>
    BY <1>18, Zenon DEF vars, runVars, fileVars
  <2>2. stage' \in {"recording", "between", "replaying", "refused", "ended"}
    BY <2>1, Zenon DEF Typed
  <2> QED
    BY <1>15, <2>1, <2>2, Zenon
<1>19. CASE Over
  BY <1>18, <1>19, Zenon DEF Over
<1> QED
  BY <1>2, <1>3, <1>4, <1>5, <1>6, <1>7, <1>8, <1>10, <1>11, <1>12, <1>13, <1>14, <1>16, <1>17, <1>18,
     <1>19, Zenon DEF Next

(* Of every run: the invariant holds.                                       *)
LEMMA InvariantHolds == Spec => []IInv
BY InitHolds, NextHolds, PTL DEF Spec

(* The state is well typed: a run has scopes to run, a recording rows that   *)
(* are numbered, the bank answers for slots only.                           *)
THEOREM SessionTyped == Spec => []TypeOK
<1>1. IInv => TypeOK
  <2> SUFFICES ASSUME Typed PROVE TypeOK
    BY Zenon DEF IInv
  <2>1. /\ options.selection \subseteq Tests /\ options.skeleton \in BOOLEAN
        /\ options.injected \in Injections \cup {NoInjection} /\ options.replay \in BOOLEAN
    BY DEF Typed, RunOptions
  <2>2. file.rows \in Seq(Line) /\ file.malformed \in BOOLEAN /\ file.closed \in BOOLEAN
    BY DEF Typed, Recording
  <2>3. \A e \in Programming : e.queue \in Seq(Answer) /\ e.constant \in BOOLEAN
    BY DEF Programming
  <2> QED
    BY <2>1, <2>2, <2>3, Zenon DEF Typed, TypeOK, Handed
<1> QED
  BY <1>1, InvariantHolds, PTL

-----------------------------------------------------------------------------
(* What is handed out.                                                      *)

KeptFor(sl) == KeptAt(sl, options.selection)

LEMMA KeptIs ==
    ASSUME Typed, FileHolds, NEW sl
    PROVE  /\ KeptFor(sl) \in SUBSET Nat /\ IsFiniteSet(KeptFor(sl))
           /\ \A n : n \in KeptFor(sl) <=> n \in DOMAIN file.rows /\ AskedFor(n, sl)
<1>1. KeptFor(sl) \in SUBSET Nat /\ IsFiniteSet(KeptFor(sl)) /\ KeptFor(sl) \in SUBSET (DOMAIN file.rows)
  BY KeptPlaces, Zenon DEF KeptFor
<1>2. ASSUME NEW n \in DOMAIN file.rows PROVE n \in KeptFor(sl) <=> AskedFor(n, sl)
  <2>1. SlotOf(file.rows[n]) = taken[n].slot /\ TestOf(file.rows[n]) = taken[n].test
    BY LineFacts, Zenon
  <2> QED
    BY <2>1, Zenon DEF KeptFor, KeptAt, Kept, Keeps, AskedFor
<1> QED
  BY <1>1, <1>2, Zenon

(* An answer is injected, or that of the row whose place among those kept for *)
(* the slot is the answer's place among those handed out for it.            *)
LEMMA HandedOut ==
    ASSUME IInv, NEW i \in DOMAIN served
    PROVE  LET sl == served[i].slot
               a == served[i].answer IN
           /\ stage \in {"replaying", "ended"} /\ sl \in Slots /\ i \in ServedAt(sl)
           /\ ~FromFile(sl) => a = Injected
           /\ FromFile(sl) =>
                /\ a.row \in KeptFor(sl) /\ Rank(KeptFor(sl), a.row) = Rank(ServedAt(sl), i)
                /\ a = AnswerOf(file.rows[a.row])
<1> USE DEF IInv
<1> DEFINE sl == served[i].slot
<1> DEFINE a == served[i].answer
<1> DEFINE K == KeptFor(sl)
<1> DEFINE r == Rank(ServedAt(sl), i)
<1>1. stage \in {"replaying", "ended"}
  <2>1. DOMAIN <<>> = {}
    OBVIOUS
  <2> QED
    BY <2>1, Zenon DEF Replays
<1>2. sl \in Slots /\ i \in ServedAt(sl)
  <2>1. served[i] \in Handed
    BY ElementOfSeq DEF Typed
  <2>2. \A h \in Handed : h.slot \in Slots
    BY DEF Handed
  <2> QED
    BY <2>1, <2>2, Zenon DEF ServedAt
<1>3. IF FromFile(sl) THEN FromRows(sl) ELSE FromStimulus(sl)
  BY <1>1, <1>2, Zenon DEF Replays
<1>4. ASSUME ~FromFile(sl) PROVE a = Injected
  BY <1>2, <1>3, <1>4, Zenon DEF FromStimulus
<1>5. ASSUME FromFile(sl)
      PROVE  a.row \in K /\ Rank(K, a.row) = r /\ a = AnswerOf(file.rows[a.row])
  <2> DEFINE answers == AnswersAt(sl, options.selection)
  <2> DEFINE C == Cardinality(K)
  <2> DEFINE n == InOrder(K)[r]
  <2>1. Cardinality(ServedAt(sl)) <= Len(answers) /\ a = answers[r]
    BY <1>2, <1>3, <1>5, Zenon DEF FromRows, Answered
  <2>2. ServedAt(sl) \in SUBSET Nat /\ IsFiniteSet(ServedAt(sl)) /\ Cardinality(ServedAt(sl)) \in Nat
    BY ServedPlaces, Zenon
  <2>3. r \in 1..Cardinality(ServedAt(sl))
    BY <1>2, <2>2, RankInRange
  <2>4. /\ C \in Nat /\ Len(answers) = C
        /\ \A j \in 1..C : /\ InOrder(K)[j] \in K /\ Rank(K, InOrder(K)[j]) = j
                           /\ answers[j] = AnswerOf(file.rows[InOrder(K)[j]])
    <3> DEFINE J == KeptAt(sl, options.selection)
    <3>1. /\ Cardinality(J) \in Nat /\ Len(answers) = Cardinality(J)
          /\ \A j \in 1..Cardinality(J) :
               /\ InOrder(J)[j] \in J /\ Rank(J, InOrder(J)[j]) = j
               /\ answers[j] = AnswerOf(file.rows[InOrder(J)[j]])
      BY AnswersAre
    <3>2. K = J
      BY Zenon DEF KeptFor
    <3> HIDE DEF J, K, answers
    <3> QED
      BY <3>1, <3>2
  <2> HIDE DEF answers, C, r, K, a, sl
  <2>5. r \in 1..C
    BY <2>1, <2>2, <2>3, <2>4
  <2>6. n \in K /\ Rank(K, n) = r /\ a = AnswerOf(file.rows[n])
    BY <2>1, <2>4, <2>5, Zenon
  <2> HIDE DEF n
  <2>7. n \in DOMAIN file.rows
    BY <2>6, KeptIs, Zenon DEF K
  <2>8. a.row = n
    BY <2>6, <2>7, LineFacts, Zenon
  <2> QED
    BY <2>6, <2>8, Zenon
<1> QED
  BY <1>1, <1>2, <1>4, <1>5, Zenon

(* A payload is given back as it was given: for every replay of every        *)
(* recording, whatever an earlier run left beside it.                       *)
LEMMA PayloadsFollow == IInv => PayloadsAsGiven
<1> SUFFICES ASSUME IInv, NEW i \in DOMAIN served, served[i].answer.row > 0, ~served[i].answer.hollow
             PROVE  /\ taken[served[i].answer.row].whole
                    /\ served[i].answer.content = taken[served[i].answer.row].content
  BY Zenon DEF PayloadsAsGiven, Range
<1> DEFINE a == served[i].answer
<1> DEFINE n == a.row
<1> DEFINE sl == served[i].slot
<1>1. FromFile(sl)
  <2>1. ~(Injected.row > 0)
    BY InjectedIs
  <2> QED
    BY <2>1, HandedOut, Zenon
<1>2. n \in KeptFor(sl) /\ a = AnswerOf(file.rows[n])
  BY <1>1, HandedOut, Zenon
<1> HIDE DEF a, n, sl
<1>3. n \in DOMAIN file.rows /\ Typed /\ FileHolds /\ RowsMade
  BY <1>2, KeptIs, Zenon DEF IInv
<1>4. /\ n \in DOMAIN taken /\ file.rows[n].row = n /\ file.rows[n].hollow \in BOOLEAN
      /\ a.hollow = file.rows[n].hollow /\ a.content = ValueOf(file.rows[n])
  BY <1>2, <1>3, LineFacts, Zenon
<1>5. ~file.rows[n].hollow
  BY <1>4, Zenon DEF a
<1>6. taken[n].whole = TRUE
  <2>1. file.rows[n].hollow = FALSE
    BY <1>4, <1>5, Zenon
  <2> QED
    BY <1>3, <2>1, Zenon DEF FileHolds, IsLeft, InFile
<1>7. a.content = taken[n].content
  <2>1. CASE taken[n].content \in Heavy
    <3>1. sidecar[taken[n].content] = "whole"
      BY <1>3, <1>4, <1>6, <2>1, Zenon DEF RowsMade, Spilled
    <3> QED
      BY <1>4, <1>5, <2>1, <3>1, Zenon DEF ValueOf, Refers, ReadBlob
  <2>2. CASE taken[n].content \notin Heavy
    BY <1>4, <1>5, <2>2, Zenon DEF ValueOf, Refers
  <2> QED
    BY <2>1, <2>2
<1> QED
  BY <1>6, <1>7, Zenon DEF a, n

(* A payload that a replay hands out with its value is what the recorded     *)
(* script was given, whatever an earlier run to the same path has left in    *)
(* the directory (RecordingWriter::spill, readRecording): RecordingWriter    *)
(* knows how much of a file it wrote itself, and the name is the content's.  *)
THEOREM PayloadsComeBack == Spec => []PayloadsAsGiven
BY InvariantHolds, PayloadsFollow, PTL

(* A slot gives its rows in the order of recording and leaves none out.      *)
LEMMA OrderFollows == IInv => ReplaysInOrder
<1> SUFFICES ASSUME IInv, NEW i \in DOMAIN served
             PROVE  LET sl == served[i].slot
                        n == served[i].answer.row IN
                      /\ ~FromFile(sl) => served[i].answer = Injected
                      /\ FromFile(sl) =>
                           /\ n \in 1..Len(taken) /\ AskedFor(n, sl)
                           /\ served[i].answer.hollow => ~file.closed \/ ~taken[n].whole
                           /\ \A m \in 1..n : AskedFor(m, sl) =>
                                \E j \in ServedAt(sl) : j <= i /\ served[j].answer.row = m
                           /\ \A j \in ServedAt(sl) : j < i => served[j].answer.row < n
  BY Zenon DEF ReplaysInOrder
<1> DEFINE sl == served[i].slot
<1> DEFINE a == served[i].answer
<1> DEFINE n == a.row
<1> DEFINE K == KeptFor(sl)
<1> DEFINE S == ServedAt(sl)
<1>1. /\ sl \in Slots /\ i \in S
      /\ ~FromFile(sl) => a = Injected
      /\ FromFile(sl) => n \in K /\ Rank(K, n) = Rank(S, i) /\ a = AnswerOf(file.rows[n])
  BY HandedOut, Zenon
<1> SUFFICES ASSUME FromFile(sl)
             PROVE  /\ n \in 1..Len(taken) /\ AskedFor(n, sl)
                    /\ a.hollow => ~file.closed \/ ~taken[n].whole
                    /\ \A m \in 1..n : AskedFor(m, sl) => \E j \in S : j <= i /\ served[j].answer.row = m
                    /\ \A j \in S : j < i => served[j].answer.row < n
  BY <1>1, Zenon
<1>2. Typed /\ FileHolds
  BY Zenon DEF IInv
<1>3. /\ S \in SUBSET Nat /\ IsFiniteSet(S) /\ S \in SUBSET (DOMAIN served)
      /\ \A j \in S : served[j].slot = sl
  BY <1>2, ServedPlaces, Zenon DEF ServedAt
<1>4. /\ K \in SUBSET Nat /\ IsFiniteSet(K)
      /\ \A m : m \in K <=> m \in DOMAIN file.rows /\ AskedFor(m, sl)
  BY <1>2, KeptIs, Zenon
<1>5. \A j \in S : served[j].answer.row \in K /\ Rank(K, served[j].answer.row) = Rank(S, j)
  <2> SUFFICES ASSUME NEW j \in S
               PROVE  served[j].answer.row \in K /\ Rank(K, served[j].answer.row) = Rank(S, j)
    OBVIOUS
  <2>1. j \in DOMAIN served /\ served[j].slot = sl
    BY <1>3, Zenon
  <2>2. FromFile(served[j].slot) =>
          served[j].answer.row \in KeptFor(served[j].slot)
            /\ Rank(KeptFor(served[j].slot), served[j].answer.row) = Rank(ServedAt(served[j].slot), j)
    BY <2>1, HandedOut, Zenon
  <2> HIDE DEF sl
  <2> QED
    BY <2>1, <2>2, Zenon
<1>6. n \in DOMAIN file.rows /\ AskedFor(n, sl)
  BY <1>1, <1>4, Zenon
<1>7. /\ n \in DOMAIN taken /\ taken[n] \in Row /\ file.rows[n].row = n /\ file.rows[n].hollow \in BOOLEAN
      /\ AnswerOf(file.rows[n]).hollow = file.rows[n].hollow
  BY <1>2, <1>6, LineFacts, Zenon
<1>8. n \in 1..Len(taken) /\ n \in Nat
  BY <1>2, <1>7, LenProperties DEF Typed
<1>9. ASSUME a.hollow PROVE ~file.closed \/ ~taken[n].whole
  <2>1. file.rows[n].hollow = TRUE
    BY <1>1, <1>7, <1>9, Zenon
  <2>2. file.closed = FALSE \/ taken[n].whole = FALSE
    BY <1>2, <1>6, <2>1, Zenon DEF FileHolds, IsLeft, InFile
  <2> QED
    BY <2>2, Zenon
<1>10. \A m \in 1..n : m \in DOMAIN file.rows
  <2>1. file.rows \in Seq(Line)
    BY <1>2 DEF Typed, Recording
  <2>2. DOMAIN file.rows = 1..Len(file.rows) /\ Len(file.rows) \in Nat
    BY <2>1, LenProperties
  <2>3. n \in 1..Len(file.rows)
    BY <1>6, <2>2, Zenon
  <2> DEFINE l == Len(file.rows)
  <2> HIDE DEF l, n
  <2>4. \A m \in 1..n : m \in 1..l
    BY <1>8, <2>2, <2>3 DEF l
  <2> QED
    BY <2>2, <2>4, Zenon DEF l
<1> HIDE DEF n, a, K, S
<1>11. ASSUME NEW m \in 1..n, AskedFor(m, sl)
       PROVE  \E j \in S : j <= i /\ served[j].answer.row = m
  <2>1. m \in K
    BY <1>4, <1>10, <1>11, Zenon
  <2>2. Rank(K, m) <= Rank(K, n) /\ Rank(K, m) \in Nat /\ 1 <= Rank(K, m)
    <3>1. m \in Nat /\ m <= n /\ n \in Nat
      BY <1>8, <1>11
    <3>2. /\ Rank(K, m) \in 1..Cardinality(K) /\ Cardinality(K) \in Nat
          /\ m <= n <=> Rank(K, m) <= Rank(K, n)
      BY <1>1, <1>4, <2>1, RankOrder, Zenon
    <3> QED
      BY <3>1, <3>2
  <2>3. Rank(S, i) \in 1..Cardinality(S) /\ Cardinality(S) \in Nat /\ i \in Nat
    BY <1>1, <1>3, RankInRange
  <2>4. Rank(K, m) \in 1..Cardinality(S)
    BY <1>1, <2>2, <2>3
  <2>5. PICK j \in S : Rank(S, j) = Rank(K, m)
    BY <1>3, <2>4, RankOnto
  <2>6. served[j].answer.row = m
    <3> DEFINE r == served[j].answer.row
    <3>1. r \in K /\ Rank(K, r) = Rank(K, m)
      BY <1>5, <2>5, Zenon
    <3> HIDE DEF r
    <3>2. r = m
      BY <1>4, <2>1, <3>1, RankInjective
    <3> QED
      BY <3>2 DEF r
  <2>7. j <= i
    <3>1. j \in Nat
      BY <1>3
    <3>2. CASE i < j
      <4>1. Rank(S, i) < Rank(S, j)
        BY <1>3, <2>3, <3>2, RankGrows
      <4> QED
        BY <1>1, <2>2, <2>3, <2>5, <4>1
    <3> QED
      BY <2>3, <3>1, <3>2
  <2> QED
    BY <2>6, <2>7
<1>12. ASSUME NEW j \in S, j < i PROVE served[j].answer.row < n
  <2>1. Rank(S, j) < Rank(S, i) /\ j \in Nat
    BY <1>1, <1>3, <1>12, RankGrows
  <2> DEFINE m == served[j].answer.row
  <2>2. m \in K /\ Rank(K, m) = Rank(S, j)
    BY <1>5, Zenon
  <2> HIDE DEF m
  <2>3. Rank(K, m) < Rank(K, n)
    BY <1>1, <2>1, <2>2
  <2>4. m < n <=> Rank(K, m) < Rank(K, n)
    BY <1>1, <1>4, <2>2, RankOrder, Zenon
  <2>8. m < n
    BY <2>3, <2>4, Zenon
  <2> QED
    BY <2>8, Zenon DEF m
<1> QED
  BY <1>6, <1>8, <1>9, <1>11, <1>12, Zenon DEF n, a, K, S

(* Every slot hands out its own rows, those of the selected tests and of     *)
(* hooks, one after the other in the order in which they were recorded, none *)
(* twice and none left out (ScriptedSession::loadFromFile and its fetches).  *)
THEOREM ReplaysKeepOrder == Spec => []ReplaysInOrder
BY InvariantHolds, OrderFollows, PTL

-----------------------------------------------------------------------------
(* A replay that asks as the recorded run did.                              *)

LEMMA ReplayedPlaces ==
    ASSUME Typed, NEW sl
    PROVE  /\ Replayed(sl) \in SUBSET Nat /\ IsFiniteSet(Replayed(sl))
           /\ Replayed(sl) \in SUBSET (DOMAIN taken)
<1>1. Len(taken) \in Nat /\ DOMAIN taken = 1..Len(taken)
  BY LenProperties DEF Typed
<1>2. Replayed(sl) \in SUBSET (DOMAIN taken)
  BY Zenon DEF Replayed
<1>3. IsFiniteSet(DOMAIN taken) /\ DOMAIN taken \in SUBSET Nat
  BY <1>1, FS_Interval
<1>4. IsFiniteSet(Replayed(sl))
  BY <1>2, <1>3, FS_Subset, Zenon
<1> QED
  BY <1>2, <1>3, <1>4, Zenon

LEMMA RowIs ==
    ASSUME Typed, NEW n \in DOMAIN taken
    PROVE  /\ taken[n] \in Row /\ taken[n].by \in Scopes
           /\ taken[n].by.role = "test" => taken[n].by.test \in Tests
<1>1. taken[n] \in Row
  BY ElementOfSeq DEF Typed
<1>2. taken[n].by \in Scopes
  BY <1>1 DEF Row
<1> QED
  BY <1>1, <1>2, ScopeFacts, Zenon

(* A row that is handed out was made by a scope that is replayed.            *)
LEMMA KeptIsReplayed ==
    ASSUME Typed, RowsMade, FileHolds, NEW sl, ~LentToOthers(sl), NEW n \in KeptFor(sl)
    PROVE  n \in Replayed(sl)
<1>1. n \in DOMAIN file.rows /\ AskedFor(n, sl)
  BY KeptIs, Zenon
<1>2. n \in DOMAIN taken
  BY <1>1, LineFacts, Zenon
<1>3. Included(taken[n].by, options.selection)
  <2>1. CASE taken[n].by.role = "test"
    <3>1. taken[n].test = taken[n].by.test /\ taken[n].by.test \in Tests
      BY <1>2, <2>1, RowIs, Zenon DEF RowsMade, OwnStamp
    <3>2. taken[n].test # RunScope
      BY <3>1, SessionAssumption, Zenon DEF SessionAssumption
    <3>3. taken[n].test \in Wanted(options.selection)
      BY <1>1, <3>2, Zenon DEF AskedFor
    <3> QED
      BY <2>1, <3>1, <3>3, Zenon DEF Included
  <2>2. CASE taken[n].by.role # "test"
    BY <1>1, <1>2, <2>2, Zenon DEF LentToOthers, AskedFor
  <2> QED
    BY <2>1, <2>2
<1> QED
  BY <1>1, <1>2, <1>3, Zenon DEF Replayed, AskedFor

(* A row that a replayed scope made is asked for, unless it was made in the   *)
(* teardowns after a test that threw.                                       *)
LEMMA ReplayedIsAsked ==
    ASSUME Typed, RowsMade, NEW sl, NEW n \in Replayed(sl), ~Stray(taken[n])
    PROVE  AskedFor(n, sl)
<1>1. n \in DOMAIN taken /\ taken[n].slot = sl /\ Included(taken[n].by, options.selection)
  BY Zenon DEF Replayed
<1>2. CASE taken[n].by.role = "test"
  <2>1. taken[n].test = taken[n].by.test
    BY <1>1, <1>2, Zenon DEF RowsMade, OwnStamp
  <2> QED
    BY <1>1, <1>2, <2>1, Zenon DEF AskedFor, Included
<1>3. CASE taken[n].by.role # "test"
  BY <1>1, <1>3, Zenon DEF AskedFor, Stray
<1> QED
  BY <1>2, <1>3

(* Up to a row that is handed out, those made and those handed out agree.    *)
LEMMA SameRank ==
    ASSUME Typed, RowsMade, FileHolds, NEW sl, ~LentToOthers(sl), NEW n \in KeptFor(sl)
    PROVE  n \in Replayed(sl) /\ Rank(Replayed(sl), n) = Rank(KeptFor(sl), n)
<1> DEFINE K == KeptFor(sl)
<1> DEFINE R == Replayed(sl)
<1>1. n \in DOMAIN file.rows /\ AskedFor(n, sl) /\ n \in DOMAIN taken
  BY KeptIs, LineFacts, Zenon
<1>2. K \subseteq R
  BY KeptIsReplayed, Zenon
<1>3. ASSUME NEW m \in R, m <= n PROVE m \in K
  <2>1. m \in DOMAIN taken
    BY ReplayedPlaces, Zenon
  <2>2. m \in DOMAIN file.rows
    <3> DEFINE l == Len(file.rows)
    <3>1. file.rows \in Seq(Line)
      BY DEF Typed, Recording
    <3>2. DOMAIN file.rows = 1..l /\ l \in Nat
      BY <3>1, LenProperties
    <3>3. m \in Nat \ {0}
      BY <2>1, LenProperties DEF Typed
    <3> HIDE DEF l, R, K
    <3>4. n \in 1..l
      BY <1>1, <3>2, Zenon
    <3>5. m \in 1..l
      BY <1>3, <3>2, <3>3, <3>4
    <3> QED
      BY <3>2, <3>5, Zenon
  <2>3. AskedFor(m, sl)
    <3>1. CASE ~Stray(taken[m])
      BY <3>1, ReplayedIsAsked, Zenon
    <3>2. CASE Stray(taken[m])
      <4>1. taken[n].test = taken[m].test /\ taken[m].test # RunScope
        BY <1>1, <1>3, <2>1, <3>2, Zenon DEF RowsMade, Stray
      <4>2. taken[m].slot = sl
        BY Zenon DEF Replayed
      <4> QED
        BY <1>1, <4>1, <4>2, Zenon DEF AskedFor
    <3> QED
      BY <3>1, <3>2
  <2> QED
    BY <2>2, <2>3, KeptIs, Zenon
<1>4. {m \in R : m <= n} = {m \in K : m <= n}
  BY <1>2, <1>3, Zenon
<1> HIDE DEF K, R
<1>5. Rank(R, n) = Rank(K, n)
  BY <1>4, Zenon DEF Rank
<1> QED
  BY <1>2, <1>5, Zenon DEF K, R

(* Who asks for a slot in the recorded order is given the readings that it    *)
(* took itself.                                                             *)
LEMMA OwnFollows == IInv => OwnReadings
<1> SUFFICES ASSUME IInv, NEW sl \in Slots, Aligned(sl), FromFile(sl), ~LentToOthers(sl),
                    NEW i \in ServedAt(sl)
             PROVE  taken[served[i].answer.row].by = served[i].by
  BY Zenon DEF OwnReadings
<1> DEFINE n == served[i].answer.row
<1> DEFINE R == Replayed(sl)
<1>1. Typed /\ RowsMade /\ FileHolds
  BY Zenon DEF IInv
<1>2. i \in DOMAIN served /\ served[i].slot = sl
  BY Zenon DEF ServedAt
<1>3. n \in KeptFor(sl) /\ Rank(KeptFor(sl), n) = Rank(ServedAt(sl), i)
  BY <1>2, HandedOut, Zenon
<1> HIDE DEF n, R
<1>4. n \in R /\ Rank(R, n) = Rank(ServedAt(sl), i)
  BY <1>1, <1>3, SameRank, Zenon DEF R
<1>5. PICK m \in R : Rank(R, m) = Rank(ServedAt(sl), i) /\ taken[m].by = served[i].by
  BY Zenon DEF Aligned, MadeBy, R
<1>6. R \in SUBSET Nat /\ IsFiniteSet(R)
  BY <1>1, ReplayedPlaces, Zenon DEF R
<1>7. m = n
  BY <1>4, <1>5, <1>6, RankInjective
<1> QED
  BY <1>5, <1>7, Zenon DEF n

(* A replay that asks for a slot in the recorded order is given at that slot *)
(* what each of its tests and hooks read themselves, whatever tests were     *)
(* left out (loadFromFile keeps a hook's rows and drops an unselected        *)
(* test's), unless a hook of a group that is left out read the slot too.     *)
THEOREM ReadingsAreOwn == Spec => []OwnReadings
BY InvariantHolds, OwnFollows, PTL

(* Nor does it run out, if the recording was closed and no test threw.       *)
LEMMA EnoughFollows == IInv => NoFalseStarvation
<1> SUFFICES ASSUME IInv, stage = "replaying", reading # <<>>, ~HasAnswer(Head(reading)),
                    Head(reading) \notin options.injected.list
             PROVE  /\ Head(reading) \notin options.injected.one
                    /\ ~(options.replay /\ file.closed /\ ~threw
                           /\ Aligned(Head(reading))
                           /\ MadeBy(Head(reading), Cardinality(ServedAt(Head(reading))) + 1, now))
  BY Zenon DEF NoFalseStarvation
<1> DEFINE sl == Head(reading)
<1>1. Typed /\ RowsMade /\ FileHolds /\ Replays
  BY Zenon DEF IInv
<1>2. sl \in Slots
  BY <1>1, HeadTailProperties DEF Typed
<1>3. stage \in {"replaying", "ended"}
  OBVIOUS
<1>4. /\ IF FromFile(sl) THEN FromRows(sl) ELSE FromStimulus(sl)
      /\ options.replay = TRUE => file.malformed = FALSE
  BY <1>1, <1>2, <1>3, Zenon DEF Replays
<1>5. sl \notin options.injected.one
  <2> SUFFICES ASSUME sl \in options.injected.one PROVE FALSE
    OBVIOUS
  <2>1. FromStimulus(sl)
    BY <1>4, Zenon DEF FromFile
  <2>2. HasAnswer(sl)
    BY <2>1, Zenon DEF FromStimulus, HasAnswer
  <2> QED
    BY <2>2, Zenon
<1>6. ASSUME options.replay, file.closed, ~threw, MadeBy(sl, Cardinality(ServedAt(sl)) + 1, now)
      PROVE  FALSE
  <2> DEFINE R == Replayed(sl)
  <2> DEFINE K == KeptFor(sl)
  <2> DEFINE count == Cardinality(ServedAt(sl))
  <2> DEFINE answers == AnswersAt(sl, options.selection)
  <2>1. options.replay = TRUE /\ file.closed = TRUE /\ threw = FALSE
    <3>1. options.replay \in BOOLEAN /\ file.closed \in BOOLEAN /\ threw \in BOOLEAN
      BY <1>1 DEF Typed, RunOptions, Recording
    <3> QED
      BY <1>6, <3>1, Zenon
  <2>2. FromFile(sl) /\ FromRows(sl)
    BY <1>4, <1>5, <1>6, Zenon DEF FromFile
  <2>3. DOMAIN file.rows = DOMAIN taken
    <3>1. Len(file.rows) = Len(taken)
      BY <1>1, <1>4, <2>1, Zenon DEF FileHolds, IsLeft
    <3>2. file.rows \in Seq(Line) /\ taken \in Seq(Row)
      BY <1>1 DEF Typed, Recording
    <3>3. DOMAIN file.rows = 1..Len(file.rows) /\ DOMAIN taken = 1..Len(taken)
      BY <3>2, LenProperties
    <3> QED
      BY <3>1, <3>3, Zenon
  <2>4. R \subseteq K
    <3> SUFFICES ASSUME NEW m \in R PROVE m \in K
      BY Zenon
    <3>1. m \in DOMAIN taken
      BY <1>1, ReplayedPlaces, Zenon
    <3>2. ~Stray(taken[m])
      BY <1>1, <2>1, <3>1, Zenon DEF RowsMade
    <3>3. AskedFor(m, sl)
      BY <1>1, <3>2, ReplayedIsAsked, Zenon
    <3> QED
      BY <1>1, <2>3, <3>1, <3>3, KeptIs, Zenon
  <2>5. R \in SUBSET Nat /\ IsFiniteSet(R) /\ IsFiniteSet(K)
    BY <1>1, ReplayedPlaces, KeptIs, Zenon
  <2>6. Cardinality(R) <= Cardinality(K)
    BY <2>4, <2>5, FS_Subset, Zenon
  <2>7. PICK n \in R : Rank(R, n) = count + 1
    BY <1>6, Zenon DEF MadeBy
  <2>8. Cardinality(R) \in Nat /\ Rank(R, n) \in 1..Cardinality(R)
    BY <2>5, RankInRange
  <2>9. Cardinality(K) \in Nat /\ Len(answers) = Cardinality(K) /\ answers \in Seq(Answer)
    BY <1>1, AnswersAre DEF KeptFor
  <2>10. count \in Nat
    BY <1>1, ServedPlaces, Zenon
  <2>11. /\ sl \in DOMAIN mScripted <=> answers # <<>>
         /\ sl \in DOMAIN mScripted => Len(mScripted[sl].queue) = Len(answers) - count
    BY <2>2, Zenon DEF FromRows, Answered
  <2> HIDE DEF answers, count, R, K
  <2>12. count + 1 <= Len(answers)
    BY <2>6, <2>7, <2>8, <2>9, <2>10
  <2>13. answers # <<>>
    BY <2>9, <2>10, <2>12, EmptySeq
  <2> DEFINE l == Len(mScripted[sl].queue)
  <2>14. sl \in DOMAIN mScripted /\ l = Len(answers) - count
    BY <2>11, <2>13, Zenon
  <2> HIDE DEF l
  <2>15. l # 0
    BY <2>9, <2>10, <2>12, <2>14
  <2>16. mScripted[sl].queue # <<>>
    BY <2>15, EmptySeq DEF l
  <2> QED
    BY <2>14, <2>16, Zenon DEF HasAnswer
<1> QED
  BY <1>5, <1>6, Zenon

(* Such a replay of a recording that was closed, and in which no test threw, *)
(* does not find a slot empty (ScriptedSession's sources throw once they     *)
(* are), and a slot injected with one value is never empty.                  *)
THEOREM NeverFalselyStarved == Spec => []NoFalseStarvation
BY InvariantHolds, EnoughFollows, PTL

=============================================================================
