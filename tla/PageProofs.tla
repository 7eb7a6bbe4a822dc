------------------------------ MODULE PageProofs ------------------------------
(***************************************************************************)
(* Proofs about the page: what it is told of the runs it starts (RunPage), *)
(* and what the events of one run come to, on the page and in the logs     *)
(* (RunLogs), as MCRunPage has them.                                       *)
(***************************************************************************)
EXTENDS PageInvariants, SequenceTheorems, FiniteSetTheorems, TLAPS

-----------------------------------------------------------------------------
(* The places of a finite set of numbers.                                   *)

LEMMA RankInRange ==
    ASSUME NEW S \in SUBSET Nat, IsFiniteSet(S), NEW n \in Nat
    PROVE  /\ IsFiniteSet(UpTo(S, n)) /\ Rank(S, n) = Cardinality(UpTo(S, n))
           /\ Cardinality(S) \in Nat /\ Rank(S, n) \in 0..Cardinality(S)
           /\ n \in S => Rank(S, n) \in 1..Cardinality(S)
<1>1. UpTo(S, n) \in SUBSET S
  BY DEF UpTo
<1>2. IsFiniteSet(UpTo(S, n)) /\ Cardinality(UpTo(S, n)) <= Cardinality(S)
  BY <1>1, FS_Subset, Zenon
<1>3. Cardinality(S) \in Nat /\ Cardinality(UpTo(S, n)) \in Nat
  BY <1>2, FS_CardinalityType, Zenon
<1>4. Rank(S, n) = Cardinality(UpTo(S, n))
  BY Zenon DEF Rank, UpTo
<1>5. ASSUME n \in S PROVE Cardinality(UpTo(S, n)) # 0
  <2>1. n \in UpTo(S, n)
    BY <1>5 DEF UpTo
  <2> QED
    BY <2>1, <1>2, FS_EmptySet, Zenon
<1> QED
  BY <1>2, <1>3, <1>4, <1>5

(* A greater number has a greater place.                                    *)
LEMMA RankGrows ==
    ASSUME NEW S \in SUBSET Nat, IsFiniteSet(S), NEW m \in Nat, NEW n \in S, m < n
    PROVE  Rank(S, m) < Rank(S, n)
<1>1. UpTo(S, m) \in SUBSET UpTo(S, n)
  <2>1. ASSUME NEW k \in UpTo(S, m) PROVE k \in UpTo(S, n)
    <3>1. k \in S /\ k <= m
      BY <2>1 DEF UpTo
    <3>2. k \in Nat /\ n \in Nat /\ k <= n
      BY <3>1
    <3> QED
      BY <3>1, <3>2 DEF UpTo
  <2> QED
    BY <2>1
<1>2. n \in UpTo(S, n) /\ n \notin UpTo(S, m)
  BY DEF UpTo
<1>3. IsFiniteSet(UpTo(S, n)) /\ Rank(S, n) = Cardinality(UpTo(S, n)) /\ Rank(S, n) \in Nat
  BY RankInRange
<1>4. Rank(S, m) = Cardinality(UpTo(S, m)) /\ Rank(S, m) \in Nat
  BY RankInRange
<1>5. Cardinality(UpTo(S, m)) <= Cardinality(UpTo(S, n)) /\ Cardinality(UpTo(S, m)) # Cardinality(UpTo(S, n))
  BY <1>1, <1>2, <1>3, FS_Subset, Zenon
<1> QED
  BY <1>3, <1>4, <1>5

LEMMA RankInjective ==
    ASSUME NEW S \in SUBSET Nat, IsFiniteSet(S), NEW m \in S, NEW n \in S, Rank(S, m) = Rank(S, n)
    PROVE  m = n
<1>1. m \in Nat /\ n \in Nat /\ Rank(S, m) \in Nat
  BY RankInRange
<1>2. ~(m < n) /\ ~(n < m)
  BY <1>1, RankGrows
<1> QED
  BY <1>1, <1>2

LEMMA RankOrder ==
    ASSUME NEW S \in SUBSET Nat, IsFiniteSet(S), NEW m \in S, NEW n \in S
    PROVE  /\ m \in Nat /\ n \in Nat /\ Cardinality(S) \in Nat
           /\ Rank(S, m) \in 1..Cardinality(S) /\ Rank(S, n) \in 1..Cardinality(S)
           /\ m < n <=> Rank(S, m) < Rank(S, n)
           /\ m <= n <=> Rank(S, m) <= Rank(S, n)
<1>1. m \in Nat /\ n \in Nat
  OBVIOUS
<1>2. Cardinality(S) \in Nat /\ Rank(S, m) \in 1..Cardinality(S) /\ Rank(S, n) \in 1..Cardinality(S)
  BY <1>1, RankInRange
<1>3. m < n => Rank(S, m) < Rank(S, n)
  BY <1>1, RankGrows
<1>4. n < m => Rank(S, n) < Rank(S, m)
  BY <1>1, RankGrows
<1>5. Rank(S, m) \in Nat /\ Rank(S, n) \in Nat
  BY <1>2
<1>6. m = n => Rank(S, m) = Rank(S, n)
  OBVIOUS
<1> QED
  BY <1>1, <1>2, <1>3, <1>4, <1>5, <1>6

(* Every place up to the number of them is taken.                           *)
LEMMA RankOnto ==
    ASSUME NEW S \in SUBSET Nat, IsFiniteSet(S), NEW r \in 1..Cardinality(S)
    PROVE  \E n \in S : Rank(S, n) = r
<1> DEFINE f == [n \in S |-> Rank(S, n)]
<1> DEFINE I == {Rank(S, n) : n \in S}
<1> DEFINE C == Cardinality(S)
<1>1. C \in Nat
  BY FS_CardinalityType, Zenon
<1>2. I \in SUBSET (1..C)
  BY RankInRange
<1>3. f \in [S -> I]
  OBVIOUS
<1>4. \A m, n \in S : f[m] = f[n] => m = n
  BY RankInjective
<1>5. \A t \in I : \E n \in S : f[n] = t
  OBVIOUS
<1>6. f \in Bijection(S, I)
  BY <1>3, <1>4, <1>5, Zenon DEF Bijection, Injection, Surjection, IsInjective
<1>7. Cardinality(I) = C
  BY <1>6, FS_Bijection, Zenon DEF ExistsBijection
<1>8. IsFiniteSet(1..C) /\ Cardinality(1..C) = C
  BY <1>1, FS_Interval
<1>9. I = 1..C
  BY <1>2, <1>7, <1>8, FS_Subset, Zenon
<1> QED
  BY <1>9

(* In order: every member at its place.                                     *)
LEMMA InOrderPlaces ==
    ASSUME NEW S \in SUBSET Nat, IsFiniteSet(S)
    PROVE  /\ Cardinality(S) \in Nat
           /\ InOrder(S) \in Seq(S) /\ Len(InOrder(S)) = Cardinality(S)
           /\ \A i \in 1..Cardinality(S) : InOrder(S)[i] \in S /\ Rank(S, InOrder(S)[i]) = i
           /\ \A n \in S : InOrder(S)[Rank(S, n)] = n
<1>1. Cardinality(S) \in Nat
  BY FS_CardinalityType, Zenon
<1>2. \A i \in 1..Cardinality(S) : InOrder(S)[i] \in S /\ Rank(S, InOrder(S)[i]) = i
  <2> SUFFICES ASSUME NEW i \in 1..Cardinality(S)
               PROVE  InOrder(S)[i] \in S /\ Rank(S, InOrder(S)[i]) = i
    OBVIOUS
  <2>1. InOrder(S)[i] = CHOOSE n \in S : Rank(S, n) = i
    BY DEF InOrder
  <2>2. \E n \in S : Rank(S, n) = i
    BY RankOnto
  <2> QED
    BY <2>1, <2>2, Zenon
<1>3. InOrder(S) \in [1..Cardinality(S) -> S]
  <2> DEFINE g == [i \in 1..Cardinality(S) |-> CHOOSE n \in S : Rank(S, n) = i]
  <2>1. \A i \in 1..Cardinality(S) : g[i] \in S
    BY <1>2, Zenon DEF InOrder
  <2>2. g \in [1..Cardinality(S) -> S]
    BY <2>1, Zenon
  <2> QED
    BY <2>2, Zenon DEF InOrder
<1>4. InOrder(S) \in Seq(S) /\ Len(InOrder(S)) = Cardinality(S)
  <2> DEFINE s == InOrder(S)
  <2> HIDE DEF s
  <2>1. s \in [1..Cardinality(S) -> S]
    BY <1>3, Zenon DEF s
  <2>2. s \in Seq(S) /\ Len(s) = Cardinality(S)
    BY <1>1, <2>1
  <2> QED
    BY <2>2, Zenon DEF s
<1>5. ASSUME NEW n \in S PROVE InOrder(S)[Rank(S, n)] = n
  <2> DEFINE m == InOrder(S)[Rank(S, n)]
  <2>1. Rank(S, n) \in 1..Cardinality(S)
    BY RankInRange
  <2>2. m \in S /\ Rank(S, m) = Rank(S, n)
    BY <1>2, <2>1, Zenon
  <2> HIDE DEF m
  <2>3. m = n
    BY <2>2, RankInjective, Zenon
  <2> QED
    BY <2>3 DEF m
<1> QED
  BY <1>1, <1>2, <1>4, <1>5

(* A set of places of a sequence, in order, is the elements there.          *)
LEMMA AtPlaces ==
    ASSUME NEW X, NEW seq \in Seq(X), NEW S \in SUBSET (DOMAIN seq)
    PROVE  /\ At(seq, S) \in Seq(X) /\ Cardinality(S) \in Nat /\ Len(At(seq, S)) = Cardinality(S)
           /\ \A i \in DOMAIN At(seq, S) : InOrder(S)[i] \in S /\ At(seq, S)[i] = seq[InOrder(S)[i]]
           /\ \A n \in S : Rank(S, n) \in DOMAIN At(seq, S) /\ At(seq, S)[Rank(S, n)] = seq[n]
<1>1. Len(seq) \in Nat /\ DOMAIN seq = 1..Len(seq) /\ \A n \in DOMAIN seq : seq[n] \in X
  BY LenProperties, ElementOfSeq
<1>2. S \in SUBSET Nat /\ IsFiniteSet(S)
  <2>1. IsFiniteSet(1..Len(seq)) /\ S \in SUBSET (1..Len(seq))
    BY <1>1, FS_Interval
  <2> QED
    BY <2>1, FS_Subset
<1> DEFINE order == InOrder(S)
<1>3. /\ Cardinality(S) \in Nat /\ Len(order) = Cardinality(S) /\ DOMAIN order = 1..Cardinality(S)
      /\ \A i \in 1..Cardinality(S) : order[i] \in S
      /\ \A n \in S : order[Rank(S, n)] = n
  <2>1. order \in Seq(S) /\ Len(order) = Cardinality(S)
    BY <1>2, InOrderPlaces, Zenon
  <2>2. DOMAIN order = 1..Cardinality(S)
    BY <2>1, LenProperties, Zenon
  <2> QED
    BY <1>2, <2>1, <2>2, InOrderPlaces, Zenon
<1>4. At(seq, S) = [i \in 1..Cardinality(S) |-> seq[order[i]]]
  BY <1>3, Zenon DEF At
<1>5. \A n \in S : Rank(S, n) \in 1..Cardinality(S)
  BY <1>2, RankInRange
<1> HIDE DEF order
<1>6. \A i \in 1..Cardinality(S) : seq[order[i]] \in X
  BY <1>1, <1>3, Zenon
<1>7. At(seq, S) \in [1..Cardinality(S) -> X]
  BY <1>4, <1>6, Zenon
<1>8. At(seq, S) \in Seq(X) /\ DOMAIN At(seq, S) = 1..Cardinality(S) /\ Len(At(seq, S)) = Cardinality(S)
  <2> DEFINE s == At(seq, S)
  <2> HIDE DEF s
  <2>1. s \in [1..Cardinality(S) -> X]
    BY <1>7, Zenon DEF s
  <2>2. s \in Seq(X) /\ DOMAIN s = 1..Cardinality(S) /\ Len(s) = Cardinality(S)
    BY <1>3, <2>1
  <2> QED
    BY <2>2, Zenon DEF s
<1> QED
  BY <1>3, <1>4, <1>5, <1>8, Zenon DEF order

LEMMA PickedSet ==
    ASSUME NEW X, NEW seq \in Seq(X), NEW set
    PROVE  /\ Picked(seq, set) \in Seq(X)
           /\ ToSet(Picked(seq, set)) = ToSet(seq) \cap set
<1> DEFINE S == {i \in DOMAIN seq : seq[i] \in set}
<1>1. Picked(seq, set) = At(seq, S)
  BY Zenon DEF Picked
<1>2. S \in SUBSET (DOMAIN seq) /\ \A i \in S : i \in DOMAIN seq /\ seq[i] \in set
  OBVIOUS
<1>3. \A i \in DOMAIN seq : seq[i] \in set => i \in S
  OBVIOUS
<1> HIDE DEF S
<1>4. At(seq, S) \in Seq(X)
  BY <1>2, AtPlaces
<1>5. \A i \in DOMAIN At(seq, S) : InOrder(S)[i] \in S /\ At(seq, S)[i] = seq[InOrder(S)[i]]
  BY <1>2, AtPlaces
<1>6. \A n \in S : Rank(S, n) \in DOMAIN At(seq, S) /\ At(seq, S)[Rank(S, n)] = seq[n]
  BY <1>2, AtPlaces
<1>7. ASSUME NEW x \in ToSet(At(seq, S)) PROVE x \in ToSet(seq) \cap set
  <2>1. PICK i \in DOMAIN At(seq, S) : x = At(seq, S)[i]
    BY <1>7, Zenon DEF ToSet
  <2> QED
    BY <2>1, <1>2, <1>5, Zenon DEF ToSet
<1>8. ASSUME NEW x \in ToSet(seq), x \in set PROVE x \in ToSet(At(seq, S))
  <2>1. PICK i \in DOMAIN seq : x = seq[i]
    BY <1>8, Zenon DEF ToSet
  <2>2. i \in S
    BY <2>1, <1>3, <1>8, Zenon
  <2> QED
    BY <2>1, <2>2, <1>6, Zenon DEF ToSet
<1> QED
  BY <1>1, <1>4, <1>7, <1>8

(* All of a sequence is the sequence.                                       *)
LEMMA PickedAll ==
    ASSUME NEW X, NEW seq \in Seq(X), NEW set, ToSet(seq) \subseteq set
    PROVE  Picked(seq, set) = seq
<1> DEFINE S == 1..Len(seq)
<1>1. Len(seq) \in Nat /\ DOMAIN seq = S /\ \A i \in S : seq[i] \in set
  <2>1. Len(seq) \in Nat /\ DOMAIN seq = S
    BY LenProperties
  <2>2. \A i \in DOMAIN seq : seq[i] \in ToSet(seq)
    BY Zenon DEF ToSet
  <2> QED
    BY <2>1, <2>2
<1>2. Picked(seq, set) = At(seq, S)
  <2>1. {i \in DOMAIN seq : seq[i] \in set} = S
    BY <1>1
  <2> QED
    BY <2>1, Zenon DEF Picked
<1>3. Cardinality(S) = Len(seq) /\ IsFiniteSet(S) /\ S \in SUBSET Nat
  <2>1. IsFiniteSet(S) /\ Cardinality(S) = IF 1 > Len(seq) THEN 0 ELSE Len(seq) - 1 + 1
    BY <1>1, FS_Interval
  <2> QED
    BY <2>1, <1>1
<1>4. ASSUME NEW i \in S PROVE Rank(S, i) = i
  <2>1. {m \in S : m <= i} = 1..i
    BY <1>1
  <2>2. Cardinality(1..i) = i
    BY <1>1, FS_Interval
  <2> QED
    BY <2>1, <2>2, Zenon DEF Rank
<1> HIDE DEF S
<1>5. /\ At(seq, S) \in Seq(X) /\ Len(At(seq, S)) = Len(seq)
      /\ \A n \in S : At(seq, S)[Rank(S, n)] = seq[n]
  <2>1. S \in SUBSET (DOMAIN seq)
    BY <1>1, Zenon
  <2> QED
    BY <2>1, <1>3, AtPlaces, Zenon
<1>6. \A n \in 1..Len(seq) : At(seq, S)[n] = seq[n]
  BY <1>4, <1>5, <1>1, Zenon DEF S
<1>7. At(seq, S) = seq
  BY <1>5, <1>6, SeqEqual
<1> QED
  BY <1>2, <1>7, Zenon

(* A sequence without repetition has as many as it is asked for.            *)
LEMMA PickedCount ==
    ASSUME NEW X, NEW seq \in Seq(X), \A i, j \in DOMAIN seq : seq[i] = seq[j] => i = j,
           NEW set \in SUBSET ToSet(seq)
    PROVE  Len(Picked(seq, set)) = Cardinality(set) /\ Cardinality(set) \in Nat
<1> DEFINE S == {i \in DOMAIN seq : seq[i] \in set}
           f == [i \in S |-> seq[i]]
<1>1. f \in [S -> set] /\ \A i, j \in S : f[i] = f[j] => i = j
  OBVIOUS
<1>2. \A x \in set : \E i \in S : f[i] = x
  BY Zenon DEF ToSet
<1>3. f \in Bijection(S, set)
  BY <1>1, <1>2, Zenon DEF Bijection, Injection, Surjection, IsInjective
<1>4. IsFiniteSet(S)
  <2>1. Len(seq) \in Nat /\ DOMAIN seq = 1..Len(seq)
    BY LenProperties
  <2>2. IsFiniteSet(1..Len(seq)) /\ S \in SUBSET (1..Len(seq))
    BY <2>1, FS_Interval
  <2> QED
    BY <2>2, FS_Subset
<1>5. Cardinality(set) = Cardinality(S)
  BY <1>3, <1>4, FS_Bijection, Zenon DEF ExistsBijection
<1>6. Len(At(seq, S)) = Cardinality(S) /\ Cardinality(S) \in Nat
  BY AtPlaces
<1> QED
  BY <1>5, <1>6, Zenon DEF Picked

-----------------------------------------------------------------------------
(* The command line.                                                        *)

LEMMA FlagsAreTheirs ==
    /\ \A m \in DOMAIN FlagOf : m \in Members /\ FlagOf[m] \in Vocabulary[m].spellings
    /\ \A m \in DOMAIN FlagOf, n \in Members : FlagOf[m] \in Vocabulary[n].spellings => n = m
<1>1. ASSUME NEW m \in DOMAIN FlagOf PROVE m \in Members /\ FlagOf[m] \in Vocabulary[m].spellings
  BY DEF FlagOf, Members, Vocabulary, Member, Switch, Field
<1>2. ASSUME NEW m \in DOMAIN FlagOf, NEW n \in Members, FlagOf[m] \in Vocabulary[n].spellings
      PROVE  n = m
  BY <1>1, <1>2, VocabularyHolds, Zenon DEF VocabularyHolds, SpellingsAreUnique
<1> QED
  BY <1>1, <1>2

LEMMA TraitsOf ==
    /\ \A m \in {"Quiet", "StopOnStdin", "UntilFailure", "Colour", "WriteLogs"} : IsSwitch(m)
    /\ \A m \in {"Selection", "Addresses", "EventsPath", "OperatorName", "CriteriaVariant", "RecordPath", "ReplayPath", "SkeletonPath",
                 "InjectPath", "LogDir", "Repeat"} : ~IsSwitch(m)
    /\ \A m \in DOMAIN FlagOf : ~Has(m, "repeatable")
    /\ \A m \in {"Quiet", "UntilFailure"} : ~Has(m, "clears")
    /\ Has("WriteLogs", "clears")
    /\ \A m \in {"Selection", "Addresses"} : Vocabulary[m].kind = "list"
    /\ \A m \in {"EventsPath", "OperatorName", "CriteriaVariant", "RecordPath", "ReplayPath", "SkeletonPath",
                 "InjectPath", "LogDir"} : Vocabulary[m].kind = "text"
    /\ Vocabulary["Repeat"].kind = "number" /\ \A m \in DOMAIN FlagOf : Vocabulary[m].kind = "number" => m = "Repeat"
BY DEF FlagOf, Has, IsSwitch, Vocabulary, Member, Switch, Field

LEMMA GivenNothing ==
    ASSUME NEW X, NEW argv \in Seq(X), NEW m, \A a \in ToSet(argv) : ~Matches(m, a)
    PROVE  GivenTo(m, argv) = <<>>
<1> DEFINE values == [i \in DOMAIN argv |-> argv[i].value]
           S == {i \in DOMAIN argv : Matches(m, argv[i])}
           V == {argv[i].value : i \in DOMAIN argv}
<1>1. S = {}
  BY Zenon DEF ToSet
<1>2. values \in Seq(V)
  <2>1. Len(argv) \in Nat /\ DOMAIN argv = 1..Len(argv)
    BY LenProperties
  <2>2. values \in [1..Len(argv) -> V]
    BY <2>1
  <2> QED
    BY <2>1, <2>2, SeqDef
<1>3. S \in SUBSET (DOMAIN values)
  BY <1>1
<1> HIDE DEF values, S, V
<1>4. At(values, S) \in Seq(V) /\ Len(At(values, S)) = Cardinality(S)
  BY <1>2, <1>3, AtPlaces, Zenon
<1>5. Len(At(values, S)) = 0
  BY <1>1, <1>4, FS_EmptySet, Zenon
<1>6. At(values, S) = <<>>
  BY <1>4, <1>5, EmptySeq
<1> QED
  BY <1>6, Zenon DEF GivenTo, values, S

\* Where only one argument matches, its value is the last.
LEMMA GivenOne ==
    ASSUME NEW X, NEW argv \in Seq(X), NEW m, NEW a \in ToSet(argv), Matches(m, a),
           \A b \in ToSet(argv) : Matches(m, b) => b = a
    PROVE  GivenTo(m, argv) # <<>> /\ Last(GivenTo(m, argv)) = a.value
<1> DEFINE values == [i \in DOMAIN argv |-> argv[i].value]
           S == {i \in DOMAIN argv : Matches(m, argv[i])}
           V == {argv[i].value : i \in DOMAIN argv}
<1>1. \A i \in S : i \in DOMAIN values /\ values[i] = a.value
  BY Zenon DEF ToSet
<1>2. values \in Seq(V)
  <2>1. Len(argv) \in Nat /\ DOMAIN argv = 1..Len(argv)
    BY LenProperties
  <2>2. values \in [1..Len(argv) -> V]
    BY <2>1
  <2> QED
    BY <2>1, <2>2, SeqDef
<1>3. S \in SUBSET (DOMAIN values)
  BY <1>1
<1>4. PICK n \in S : TRUE
  BY Zenon DEF ToSet
<1> HIDE DEF values, S, V
<1>5. /\ At(values, S) \in Seq(V)
      /\ \A i \in DOMAIN At(values, S) : InOrder(S)[i] \in S /\ At(values, S)[i] = values[InOrder(S)[i]]
      /\ Rank(S, n) \in DOMAIN At(values, S)
  BY <1>2, <1>3, <1>4, AtPlaces, Zenon
<1> DEFINE s == At(values, S)
<1> HIDE DEF s
<1>6. s \in Seq(V) /\ DOMAIN s # {} /\ \A i \in DOMAIN s : s[i] = a.value
  BY <1>1, <1>5, Zenon DEF s
<1>7. Len(s) \in Nat /\ DOMAIN s = 1..Len(s)
  BY <1>6, LenProperties
<1>8. Len(s) \in DOMAIN s
  BY <1>6, <1>7
<1>9. s # <<>> /\ Last(s) = a.value
  BY <1>6, <1>8 DEF Last
<1> QED
  BY <1>9, Zenon DEF GivenTo, s, values, S

LEMMA ParsedValues ==
    ASSUME NEW X, NEW argv \in Seq(X), \A a \in ToSet(argv) : Understood(a)
    PROVE  /\ Parse(argv) = [m \in Members |-> Parse(argv)[m]]
           /\ \A m \in Members : (\A a \in ToSet(argv) : ~Matches(m, a)) => Parse(argv)[m] = DefaultOf(m)
           /\ \A m \in Members, a \in ToSet(argv) :
                Matches(m, a) /\ (\A b \in ToSet(argv) : Matches(m, b) => b = a) =>
                  \E values : Last(values) = a.value /\ Parse(argv)[m] = Read(m, values)
<1>1. ~\E i \in DOMAIN argv : ~Understood(argv[i])
  BY Zenon DEF ToSet
<1>2. Parse(argv) = [m \in Members |-> LET values == GivenTo(m, argv) IN IF values = <<>> THEN DefaultOf(m) ELSE Read(m, values)]
  BY <1>1, Zenon DEF Parse
<1>3. ASSUME NEW m \in Members, \A a \in ToSet(argv) : ~Matches(m, a)
      PROVE  Parse(argv)[m] = DefaultOf(m)
  BY <1>2, <1>3, GivenNothing, Zenon
<1>4. ASSUME NEW m \in Members, NEW a \in ToSet(argv), Matches(m, a), \A b \in ToSet(argv) : Matches(m, b) => b = a
      PROVE  \E values : Last(values) = a.value /\ Parse(argv)[m] = Read(m, values)
  <2>1. GivenTo(m, argv) # <<>> /\ Last(GivenTo(m, argv)) = a.value
    BY <1>4, GivenOne, Zenon
  <2> QED
    BY <1>2, <2>1, Zenon
<1>5. Parse(argv) = [m \in Members |-> Parse(argv)[m]]
  BY <1>2, Zenon
<1> QED
  BY <1>3, <1>4, <1>5, Zenon

\* What an argument makes of its member.
LEMMA ReadValues ==
    ASSUME NEW m \in DOMAIN FlagOf, NEW values
    PROVE  /\ m \in {"Quiet", "UntilFailure"} => Read(m, values) = TRUE
           /\ m = "Selection" => Read(m, values) = SplitCommaList(Last(values))
           /\ m \in {"EventsPath", "OperatorName", "CriteriaVariant", "RecordPath", "ReplayPath", "Repeat"} =>
                Read(m, values) = Last(values)
<1>1. ASSUME m \in {"Quiet", "UntilFailure"} PROVE Read(m, values) = TRUE
  <2>1. IsSwitch(m) /\ ~Has(m, "clears") /\ ~Has(m, "repeatable") /\ Vocabulary[m].kind = "switch"
    BY <1>1, TraitsOf DEF IsSwitch
  <2> QED
    BY <2>1 DEF Read
<1>2. ASSUME m = "Selection" PROVE Read(m, values) = SplitCommaList(Last(values))
  <2>1. ~IsSwitch(m) /\ ~Has(m, "repeatable") /\ Vocabulary[m].kind = "list"
    BY <1>2, TraitsOf
  <2> QED
    BY <2>1 DEF Read
<1>3. ASSUME m \in {"EventsPath", "OperatorName", "CriteriaVariant", "RecordPath", "ReplayPath", "Repeat"}
      PROVE  Read(m, values) = Last(values)
  <2>1. ~IsSwitch(m) /\ ~Has(m, "repeatable") /\ Vocabulary[m].kind \in {"text", "number"}
    BY <1>3, TraitsOf
  <2> QED
    BY <2>1 DEF Read
<1> QED
  BY <1>1, <1>2, <1>3

LEMMA DefaultValues ==
    /\ \A m \in {"Quiet", "UntilFailure"} : DefaultOf(m) = FALSE
    /\ DefaultOf("WriteLogs") = TRUE
    /\ \A m \in {"Selection", "Addresses"} : DefaultOf(m) = <<>>
    /\ \A m \in {"EventsPath", "OperatorName", "CriteriaVariant", "RecordPath", "ReplayPath", "Repeat", "SkeletonPath",
                 "InjectPath", "LogDir"} : DefaultOf(m) = None
<1>1. ASSUME NEW m \in {"Quiet", "UntilFailure", "WriteLogs"} PROVE DefaultOf(m) = Has(m, "clears")
  <2>1. IsSwitch(m) /\ Vocabulary[m].kind = "switch"
    BY TraitsOf DEF IsSwitch
  <2> QED
    BY <2>1 DEF DefaultOf
<1>2. ASSUME NEW m \in {"Selection", "Addresses"} PROVE DefaultOf(m) = <<>>
  <2>1. ~IsSwitch(m) /\ Vocabulary[m].kind = "list"
    BY TraitsOf
  <2> QED
    BY <2>1 DEF DefaultOf
<1>3. ASSUME NEW m \in {"EventsPath", "OperatorName", "CriteriaVariant", "RecordPath", "ReplayPath", "Repeat", "SkeletonPath",
                        "InjectPath", "LogDir"}
      PROVE  DefaultOf(m) = None
  <2>1. ~IsSwitch(m) /\ Vocabulary[m].kind # "list"
    BY TraitsOf
  <2> QED
    BY <2>1 DEF DefaultOf
<1>4. Has("Quiet", "clears") = FALSE /\ Has("UntilFailure", "clears") = FALSE /\ Has("WriteLogs", "clears") = TRUE
  BY TraitsOf DEF Has
<1> QED
  BY <1>1, <1>2, <1>3, <1>4

LEMMA BlankFields ==
    /\ DOMAIN Blank = {"ticked", "mode", "count", "source", "record", "path", "operator", "criteria"}
    /\ Blank.ticked = Ids /\ Blank.mode = "once" /\ Blank.count = None /\ Blank.source = "live" /\ Blank.record = FALSE
    /\ Blank.path = None /\ Blank.operator = None /\ Blank.criteria = Default
    /\ Ids # {}
<1>1. Ids # {}
  <2>1. Len(Tests) \in Nat /\ Len(Tests) # 0 /\ DOMAIN Tests = 1..Len(Tests)
    BY PageAssumption, LenProperties, EmptySeq DEF PageAssumption
  <2>2. Tests[1] \in Ids
    BY <2>1 DEF Ids, ToSet
  <2> QED
    BY <2>2
<1> QED
  BY <1>1 DEF Blank

LEMMA FormFacts ==
    ASSUME NEW f \in Forms
    PROVE  /\ f.ticked \in SUBSET Ids /\ f.ticked # {} /\ f.mode \in {"once", "times", "until"}
           /\ f.count \in {None, 2, Text, Huge} /\ (f.mode = "once" => f.count = None)
           /\ f.source \in {"live", "replay"} /\ f.record \in BOOLEAN /\ f.path \in {None, Spare}
           /\ f.operator \in {None, Spare} /\ f.criteria \in Variants \cup {None, "unknown"}
<1>1. PICK panel \in Panel : f = Filled(panel)
  BY Zenon DEF Forms
<1>2. Default \in Variants
  BY PageAssumption DEF PageAssumption
<1> DEFINE is(field) == f[field] = IF field \in DOMAIN panel THEN panel[field] ELSE Blank[field]
<1>3. /\ is("ticked") /\ is("mode") /\ is("count") /\ is("source") /\ is("record") /\ is("path")
      /\ is("operator") /\ is("criteria")
  <2>1. \A field \in DOMAIN Blank : is(field)
    BY <1>1, Zenon DEF Filled
  <2> HIDE DEF is
  <2> QED
    BY <2>1, BlankFields
<1>4. CASE panel \in [ticked : (SUBSET Ids) \ {{}}, mode : {"times", "until"}, count : {None, 2, Text, Huge}]
  <2>1. /\ DOMAIN panel = {"ticked", "mode", "count"}
        /\ panel.ticked \in (SUBSET Ids) \ {{}} /\ panel.mode \in {"times", "until"} /\ panel.count \in {None, 2, Text, Huge}
    BY <1>4
  <2> QED
    BY <1>2, <1>3, <2>1, BlankFields
<1>5. CASE panel \in [ticked : (SUBSET Ids) \ {{}}]
  <2>1. DOMAIN panel = {"ticked"} /\ panel.ticked \in (SUBSET Ids) \ {{}}
    BY <1>5
  <2> QED
    BY <1>2, <1>3, <2>1, BlankFields
<1>6. CASE panel \in [source : {"live", "replay"}, record : BOOLEAN, path : {None, Spare}]
  <2>1. /\ DOMAIN panel = {"source", "record", "path"}
        /\ panel.source \in {"live", "replay"} /\ panel.record \in BOOLEAN /\ panel.path \in {None, Spare}
    BY <1>6
  <2> QED
    BY <1>2, <1>3, <2>1, BlankFields
<1>7. CASE panel \in [operator : {None, Spare}, criteria : Variants \cup {None, "unknown"}]
  <2>1. /\ DOMAIN panel = {"operator", "criteria"}
        /\ panel.operator \in {None, Spare} /\ panel.criteria \in Variants \cup {None, "unknown"}
    BY <1>7
  <2> QED
    BY <1>2, <1>3, <2>1, BlankFields
<1> QED
  BY <1>1, <1>4, <1>5, <1>6, <1>7, Zenon DEF Panel

LEMMA BlankIsForm ==
    Blank \in Forms /\ Blank.ticked = Ids /\ Ids # {} /\ ~FormRefused(Blank)
<1> DEFINE panel == [ticked |-> Ids]
<1>1. DOMAIN panel = {"ticked"} /\ panel.ticked = Ids /\ panel \in Panel
  BY BlankFields DEF Panel
<1> HIDE DEF panel
<1>2. Filled(panel) = [field \in DOMAIN Blank |-> IF field \in DOMAIN panel THEN panel[field] ELSE Blank[field]]
  BY Zenon DEF Filled
<1>3. \A field \in DOMAIN Blank : (IF field \in DOMAIN panel THEN panel[field] ELSE Blank[field]) = Blank[field]
  BY <1>1, BlankFields
<1>4. Blank = [field \in DOMAIN Blank |-> Blank[field]]
  BY DEF Blank
<1>5. Filled(panel) = Blank
  BY <1>2, <1>3, <1>4, Zenon
<1>6. ~FormRefused(Blank)
  BY BlankFields DEF FormRefused, ReadingsFlag
<1> QED
  BY <1>1, <1>5, <1>6, BlankFields, Zenon DEF Forms

LEMMA SetOfConcat ==
    ASSUME NEW X, NEW s \in Seq(X), NEW t \in Seq(X)
    PROVE  s \o t \in Seq(X) /\ ToSet(s \o t) = ToSet(s) \cup ToSet(t)
<1>1. /\ s \o t \in Seq(X) /\ Len(s) \in Nat /\ Len(t) \in Nat /\ Len(s \o t) = Len(s) + Len(t)
      /\ DOMAIN s = 1..Len(s) /\ DOMAIN t = 1..Len(t) /\ DOMAIN (s \o t) = 1..(Len(s) + Len(t))
      /\ \A i \in 1..Len(s) : (s \o t)[i] = s[i]
      /\ \A i \in 1..Len(t) : (s \o t)[i + Len(s)] = t[i]
  <2>1. s \o t \in Seq(X) /\ Len(s) \in Nat /\ Len(t) \in Nat /\ Len(s \o t) = Len(s) + Len(t)
    BY ConcatProperties, LenProperties
  <2>2. \A i \in 1..(Len(s) + Len(t)) : (s \o t)[i] = IF i <= Len(s) THEN s[i] ELSE t[i - Len(s)]
    BY ConcatProperties
  <2>3. ASSUME NEW i \in 1..Len(t) PROVE (s \o t)[i + Len(s)] = t[i]
    <3>1. i + Len(s) \in 1..(Len(s) + Len(t)) /\ ~(i + Len(s) <= Len(s)) /\ (i + Len(s)) - Len(s) = i
      BY <2>1
    <3> QED
      BY <2>2, <3>1
  <2> QED
    BY <2>1, <2>2, <2>3, LenProperties
<1> DEFINE u == s \o t
<1> HIDE DEF u
<1>2. ASSUME NEW x \in ToSet(u) PROVE x \in ToSet(s) \cup ToSet(t)
  <2>1. PICK i \in 1..(Len(s) + Len(t)) : x = u[i]
    BY <1>1, <1>2, Zenon DEF ToSet, u
  <2>2. CASE i <= Len(s)
    BY <1>1, <2>1, <2>2 DEF ToSet, u
  <2>3. CASE ~(i <= Len(s))
    <3>1. i - Len(s) \in 1..Len(t) /\ (i - Len(s)) + Len(s) = i
      BY <1>1, <2>3
    <3>2. x = t[i - Len(s)]
      BY <1>1, <2>1, <3>1, Zenon DEF u
    <3> QED
      BY <1>1, <3>1, <3>2, Zenon DEF ToSet
  <2> QED
    BY <2>2, <2>3
<1>3. ASSUME NEW x \in ToSet(s) PROVE x \in ToSet(u)
  <2>1. PICK i \in 1..Len(s) : x = s[i]
    BY <1>1, <1>3, Zenon DEF ToSet
  <2>2. i \in 1..(Len(s) + Len(t)) /\ x = u[i]
    BY <1>1, <2>1 DEF u
  <2> QED
    BY <1>1, <2>2, Zenon DEF ToSet, u
<1>4. ASSUME NEW x \in ToSet(t) PROVE x \in ToSet(u)
  <2>1. PICK i \in 1..Len(t) : x = t[i]
    BY <1>1, <1>4, Zenon DEF ToSet
  <2>2. i + Len(s) \in 1..(Len(s) + Len(t)) /\ x = u[i + Len(s)]
    BY <1>1, <2>1 DEF u
  <2> QED
    BY <1>1, <2>2, Zenon DEF ToSet, u
<1>5. ToSet(u) = ToSet(s) \cup ToSet(t)
  BY <1>2, <1>3, <1>4
<1> QED
  BY <1>1, <1>5, Zenon DEF u

LEMMA SetOfSmall ==
    /\ ToSet(<<>>) = {}
    /\ \A x : ToSet(<<x>>) = {x}
    /\ \A X : <<>> \in Seq(X)
    /\ \A X : \A x \in X : <<x>> \in Seq(X)
<1>1. DOMAIN <<>> = {}
  OBVIOUS
<1>2. \A x : DOMAIN <<x>> = {1} /\ <<x>>[1] = x
  OBVIOUS
<1>3. ToSet(<<>>) = {}
  BY <1>1, Zenon DEF ToSet
<1>4. \A x : ToSet(<<x>>) = {x}
  BY <1>2 DEF ToSet
<1> QED
  BY <1>3, <1>4

LEMMA SettingsAre ==
    ASSUME NEW f
    PROVE  Settings(f) \in Seq(SettingsOf(f)) /\ ToSet(Settings(f)) = SettingsOf(f)
<1> DEFINE X == SettingsOf(f)
           one(c, x) == IF c THEN <<x>> ELSE <<>>
<1>1. ASSUME NEW c \in BOOLEAN, NEW x, If(c, x) \subseteq X
      PROVE  one(c, x) \in Seq(X) /\ ToSet(one(c, x)) = If(c, x)
  BY <1>1, SetOfSmall DEF If
<1> DEFINE a == one(f.operator # None, Setting("--operator", f.operator))
           b == one(f.criteria \notin {None, Default}, Setting("--criteria", f.criteria))
           c == one(ReadingsFlag(f) # None, Setting(ReadingsFlag(f), f.path))
           d == one(f.mode # "once" /\ f.count # None, Setting("--repeat", f.count))
           e == one(f.mode = "until", Setting("--until-failure", None))
<1>2. /\ a \in Seq(X) /\ ToSet(a) = If(f.operator # None, Setting("--operator", f.operator))
      /\ b \in Seq(X) /\ ToSet(b) = If(f.criteria \notin {None, Default}, Setting("--criteria", f.criteria))
      /\ c \in Seq(X) /\ ToSet(c) = If(ReadingsFlag(f) # None, Setting(ReadingsFlag(f), f.path))
      /\ d \in Seq(X) /\ ToSet(d) = If(f.mode # "once" /\ f.count # None, Setting("--repeat", f.count))
      /\ e \in Seq(X) /\ ToSet(e) = If(f.mode = "until", Setting("--until-failure", None))
  <2> HIDE DEF one
  <2> QED
    BY <1>1 DEF SettingsOf
<1>3. Settings(f) = (a \o b) \o c \o (d \o e)
  <2>1. a = (IF f.operator = None THEN <<>> ELSE <<Setting("--operator", f.operator)>>)
    OBVIOUS
  <2>2. b = (IF f.criteria \in {None, Default} THEN <<>> ELSE <<Setting("--criteria", f.criteria)>>)
    OBVIOUS
  <2>3. c = ReadingsSettings(f)
    BY DEF ReadingsSettings
  <2> HIDE DEF a, b, c
  <2> QED
    BY <2>1, <2>2, <2>3, Zenon DEF Settings, HeaderSettings, RepeatSettings, d, e
<1> HIDE DEF a, b, c, d, e, one
<1>4. a \o b \in Seq(X) /\ ToSet(a \o b) = ToSet(a) \cup ToSet(b)
  BY <1>2, SetOfConcat
<1> DEFINE ab == a \o b
           de == d \o e
<1>6. de \in Seq(X) /\ ToSet(de) = ToSet(d) \cup ToSet(e)
  BY <1>2, SetOfConcat
<1> HIDE DEF de
<1>5. ab \o c \in Seq(X) /\ ToSet(ab \o c) = (ToSet(a) \cup ToSet(b)) \cup ToSet(c)
  <2>1. ab \in Seq(X) /\ ToSet(ab) = ToSet(a) \cup ToSet(b)
    BY <1>4
  <2> HIDE DEF ab
  <2> QED
    BY <2>1, <1>2, SetOfConcat
<1> DEFINE abc == ab \o c
<1> HIDE DEF ab
<1>7. abc \o de \in Seq(X) /\ ToSet(abc \o de) = ((ToSet(a) \cup ToSet(b)) \cup ToSet(c)) \cup (ToSet(d) \cup ToSet(e))
  <2>1. abc \in Seq(X) /\ ToSet(abc) = (ToSet(a) \cup ToSet(b)) \cup ToSet(c)
    BY <1>5
  <2> HIDE DEF abc
  <2> QED
    BY <2>1, <1>6, SetOfConcat
<1>8. Settings(f) = abc \o de
  BY <1>3 DEF abc, ab, de
<1> HIDE DEF abc
<1>9. Settings(f) \in Seq(X) /\ ToSet(Settings(f)) = ((ToSet(a) \cup ToSet(b)) \cup ToSet(c)) \cup (ToSet(d) \cup ToSet(e))
  BY <1>7, <1>8
<1>10. ToSet(Settings(f)) = X
  BY <1>2, <1>9 DEF SettingsOf
<1> QED
  BY <1>9, <1>10

\* All of a selection is read as it was written, and none of it is empty.
LEMMA SelectionFacts ==
    ASSUME NEW f \in Forms
    PROVE  /\ SelectedIds(f.ticked) \in Seq(Ids) /\ ToSet(SelectedIds(f.ticked)) = f.ticked
           /\ SelectedIds(f.ticked) # <<>>
           /\ SplitCommaList(SelectedIds(f.ticked)) = SelectedIds(f.ticked)
           /\ SelectedIds(Ids) = Tests
<1>1. Tests \in Seq(Ids) /\ ToSet(Tests) = Ids /\ None \notin Ids
  BY PageAssumption DEF PageAssumption, Ids
<1>2. f.ticked \in SUBSET Ids /\ f.ticked # {}
  BY FormFacts
<1> DEFINE s == SelectedIds(f.ticked)
<1>3. s \in Seq(Ids) /\ ToSet(s) = ToSet(Tests) \cap f.ticked
  BY <1>1, PickedSet, Zenon DEF SelectedIds
<1> HIDE DEF s
<1>4. ToSet(s) = f.ticked
  BY <1>1, <1>2, <1>3
<1>5. s # <<>>
  BY <1>2, <1>4, SetOfSmall
<1>6. ToSet(s) \subseteq ToSet(s) \ {None}
  BY <1>1, <1>2, <1>4
<1>7. Picked(s, ToSet(s) \ {None}) = s
  BY <1>3, <1>6, PickedAll, Zenon
<1>8. Picked(Tests, Ids) = Tests
  BY <1>1, PickedAll
<1> QED
  BY <1>3, <1>4, <1>5, <1>7, <1>8, Zenon DEF s, SplitCommaList, SelectedIds

LEMMA MapSet ==
    ASSUME NEW s, NEW S, s \in Seq(S), ToSet(s) = S
    PROVE  LET t == [i \in DOMAIN s |-> Argument(s[i])] IN
           t \in Seq({Argument(x) : x \in S}) /\ ToSet(t) = {Argument(x) : x \in S}
<1> DEFINE t == [i \in DOMAIN s |-> Argument(s[i])]
           T == {Argument(x) : x \in S}
<1>1. Len(s) \in Nat /\ DOMAIN s = 1..Len(s) /\ \A i \in DOMAIN s : s[i] \in S
  BY LenProperties, ElementOfSeq
<1>2. t \in [1..Len(s) -> T]
  BY <1>1, Zenon
<1>3. t \in Seq(T)
  <2> HIDE DEF t
  <2> QED
    BY <1>1, <1>2, SeqDef
<1>4. \A x \in S : \E i \in DOMAIN s : s[i] = x
  BY Zenon DEF ToSet
<1>5. DOMAIN t = DOMAIN s /\ \A i \in DOMAIN s : t[i] = Argument(s[i])
  OBVIOUS
<1>6. ToSet(t) = {t[i] : i \in DOMAIN t}
  BY Zenon DEF ToSet
<1> HIDE DEF t
<1>7. ToSet(t) = T
  BY <1>1, <1>4, <1>5, <1>6
<1> QED
  BY <1>3, <1>7, Zenon DEF t

LEMMA StreamSet ==
    /\ StreamFlags \in Seq({Bare("--quiet"), Bare("--no-color"), With("--events", "-"), Bare("--stop-on-stdin")})
    /\ ToSet(StreamFlags) = {Bare("--quiet"), Bare("--no-color"), With("--events", "-"), Bare("--stop-on-stdin")}
<1> DEFINE a == Bare("--quiet")
           b == Bare("--no-color")
           c == With("--events", "-")
           d == Bare("--stop-on-stdin")
<1>1. StreamFlags = <<a, b, c, d>>
  BY DEF StreamFlags
<1> HIDE DEF a, b, c, d
<1>2. StreamFlags \in Seq({a, b, c, d}) /\ DOMAIN StreamFlags = 1..4
  BY <1>1
<1>3. StreamFlags[1] = a /\ StreamFlags[2] = b /\ StreamFlags[3] = c /\ StreamFlags[4] = d
  BY <1>1
<1>4. 1..4 = {1, 2, 3, 4}
  OBVIOUS
<1>5. ToSet(StreamFlags) = {StreamFlags[i] : i \in DOMAIN StreamFlags}
  BY Zenon DEF ToSet
<1>6. ToSet(StreamFlags) = {a, b, c, d}
  BY <1>2, <1>3, <1>4, <1>5
<1> QED
  BY <1>2, <1>6 DEF a, b, c, d

LEMMA ArgumentOf ==
    /\ \A flag, value : value # None => Argument(Setting(flag, value)) = With(flag, value)
    /\ \A flag : Argument(Setting(flag, None)) = Bare(flag)
BY DEF Argument, Setting, With, Bare

\* The command line of a form that the page lets through.
LEMMA CommandIs ==
    ASSUME NEW f \in Forms, ~FormRefused(f)
    PROVE  CommandOf(f) \in Seq(Arguments(f)) /\ ToSet(CommandOf(f)) = Arguments(f)
<1> DEFINE streams == {Bare("--quiet"), Bare("--no-color"), With("--events", "-"), Bare("--stop-on-stdin")}
           named == If(f.ticked # Ids, With("--select", SelectedIds(f.ticked)))
           set == {Argument(x) : x \in SettingsOf(f)}
           X == Arguments(f)
<1>1. set = GivesTo(f, "OperatorName") \cup GivesTo(f, "CriteriaVariant") \cup GivesTo(f, "RecordPath")
              \cup GivesTo(f, "ReplayPath") \cup GivesTo(f, "Repeat") \cup GivesTo(f, "UntilFailure")
  <2>1. ASSUME NEW c \in BOOLEAN, NEW x PROVE {Argument(y) : y \in If(c, x)} = If(c, Argument(x))
    BY DEF If
  <2>2. \A A, B : {Argument(y) : y \in A \cup B} = {Argument(y) : y \in A} \cup {Argument(y) : y \in B}
    OBVIOUS
  <2> DEFINE c1 == f.operator # None
             c2 == f.criteria \notin {None, Default}
             c3 == ReadingsFlag(f) # None
             c4 == f.mode # "once" /\ f.count # None
             c5 == f.mode = "until"
  <2>3. set = If(c1, Argument(Setting("--operator", f.operator)))
                \cup If(c2, Argument(Setting("--criteria", f.criteria)))
                \cup If(c3, Argument(Setting(ReadingsFlag(f), f.path)))
                \cup If(c4, Argument(Setting("--repeat", f.count)))
                \cup If(c5, Argument(Setting("--until-failure", None)))
    <3> DEFINE a == Setting("--operator", f.operator)
               b == Setting("--criteria", f.criteria)
               c == Setting(ReadingsFlag(f), f.path)
               d == Setting("--repeat", f.count)
               e == Setting("--until-failure", None)
    <3>1. SettingsOf(f) = (((If(c1, a) \cup If(c2, b)) \cup If(c3, c)) \cup If(c4, d)) \cup If(c5, e)
      BY DEF SettingsOf
    <3>2. c1 \in BOOLEAN /\ c2 \in BOOLEAN /\ c3 \in BOOLEAN /\ c4 \in BOOLEAN /\ c5 \in BOOLEAN
      OBVIOUS
    <3> HIDE DEF a, b, c, d, e, c1, c2, c3, c4, c5
    <3>3. /\ {Argument(y) : y \in If(c1, a)} = If(c1, Argument(a)) /\ {Argument(y) : y \in If(c2, b)} = If(c2, Argument(b))
          /\ {Argument(y) : y \in If(c3, c)} = If(c3, Argument(c)) /\ {Argument(y) : y \in If(c4, d)} = If(c4, Argument(d))
          /\ {Argument(y) : y \in If(c5, e)} = If(c5, Argument(e))
      BY <2>1, <3>2
    <3>4. set = (((If(c1, Argument(a)) \cup If(c2, Argument(b))) \cup If(c3, Argument(c))) \cup If(c4, Argument(d))) \cup If(c5, Argument(e))
      BY <2>2, <3>1, <3>3, ZenonT(40)
    <3> QED
      BY <3>4, Zenon DEF a, b, c, d, e
  <2>4. If(c1, Argument(Setting("--operator", f.operator))) = GivesTo(f, "OperatorName")
    BY ArgumentOf DEF If, GivesTo
  <2>5. If(c2, Argument(Setting("--criteria", f.criteria))) = GivesTo(f, "CriteriaVariant")
    BY ArgumentOf DEF If, GivesTo
  <2>6. If(c3, Argument(Setting(ReadingsFlag(f), f.path))) = GivesTo(f, "RecordPath") \cup GivesTo(f, "ReplayPath")
    <3>1. c3 => f.path # None
      BY DEF FormRefused
    <3>2. ReadingsFlag(f) \in {None, "--record", "--replay"}
      BY DEF ReadingsFlag
    <3>5. None # "--record" /\ None # "--replay"
      BY PageAssumption DEF PageAssumption
    <3>3. GivesTo(f, "RecordPath") = If(ReadingsFlag(f) = "--record", With("--record", f.path))
      BY DEF GivesTo
    <3>4. GivesTo(f, "ReplayPath") = If(ReadingsFlag(f) = "--replay", With("--replay", f.path))
      BY DEF GivesTo
    <3>6. CASE ReadingsFlag(f) = None
      BY <3>3, <3>4, <3>5, <3>6 DEF If
    <3>7. CASE ReadingsFlag(f) # None
      <4>1. Argument(Setting(ReadingsFlag(f), f.path)) = With(ReadingsFlag(f), f.path)
        BY <3>1, <3>7, ArgumentOf
      <4> QED
        BY <3>2, <3>3, <3>4, <3>7, <4>1 DEF If
    <3> QED
      BY <3>6, <3>7
  <2>7. If(c4, Argument(Setting("--repeat", f.count))) = GivesTo(f, "Repeat")
    BY ArgumentOf DEF If, GivesTo
  <2>8. If(c5, Argument(Setting("--until-failure", None))) = GivesTo(f, "UntilFailure")
    BY ArgumentOf DEF If, GivesTo
  <2> HIDE DEF c1, c2, c3, c4, c5, set
  <2> QED
    BY <2>3, <2>4, <2>5, <2>6, <2>7, <2>8
<1>2. streams = GivesTo(f, "Quiet") \cup GivesTo(f, "Colour") \cup GivesTo(f, "EventsPath") \cup GivesTo(f, "StopOnStdin")
  <2>1. /\ GivesTo(f, "Quiet") = {Bare("--quiet")} /\ GivesTo(f, "Colour") = {Bare("--no-color")}
        /\ GivesTo(f, "EventsPath") = {With("--events", "-")} /\ GivesTo(f, "StopOnStdin") = {Bare("--stop-on-stdin")}
    BY DEF GivesTo
  <2> QED
    BY <2>1
<1>3. named = GivesTo(f, "Selection")
  BY DEF GivesTo
<1> HIDE DEF streams, named, set
<1>4. X = (streams \cup named) \cup set
  <2>1. DOMAIN FlagOf = {"Quiet", "Colour", "EventsPath", "StopOnStdin", "Selection", "OperatorName", "CriteriaVariant",
                         "RecordPath", "ReplayPath", "Repeat", "UntilFailure"}
    BY DEF FlagOf
  <2> QED
    BY <1>1, <1>2, <1>3, <2>1 DEF Arguments
<1> DEFINE given == IF Selection(f) = <<>> THEN <<>> ELSE <<With("--select", Selection(f))>>
           settings == [i \in DOMAIN Settings(f) |-> Argument(Settings(f)[i])]
<1>5. StreamFlags \in Seq(streams) /\ ToSet(StreamFlags) = streams
  BY StreamSet DEF streams
<1>6. given \in Seq(named) /\ ToSet(given) = named
  <2>1. CASE f.ticked = Ids
    <3>1. given = <<>> /\ named = {}
      BY <2>1 DEF Selection, If, named
    <3> HIDE DEF given
    <3> QED
      BY <3>1, SetOfSmall
  <2>2. CASE f.ticked # Ids
    <3>1. given = <<With("--select", SelectedIds(f.ticked))>> /\ named = {With("--select", SelectedIds(f.ticked))}
      BY <2>2, SelectionFacts DEF Selection, If, named
    <3> HIDE DEF given
    <3> QED
      BY <3>1, SetOfSmall
  <2> QED
    BY <2>1, <2>2
<1>7. settings \in Seq(set) /\ ToSet(settings) = set
  <2>1. Settings(f) \in Seq(SettingsOf(f)) /\ ToSet(Settings(f)) = SettingsOf(f)
    BY SettingsAre
  <2> QED
    BY <2>1, MapSet, Zenon DEF set
<1>8. CommandOf(f) = (StreamFlags \o given) \o settings
  BY Zenon DEF CommandOf, BuildRunCommand
<1> HIDE DEF given, settings, X
<1>9. StreamFlags \in Seq(X) /\ given \in Seq(X) /\ settings \in Seq(X)
  <2>1. \A S, T, s : S \subseteq T /\ s \in Seq(S) => s \in Seq(T)
    <3> TAKE S, T, s
    <3> HAVE S \subseteq T /\ s \in Seq(S)
    <3>1. s \in [1..Len(s) -> S] /\ Len(s) \in Nat
      BY LenProperties
    <3>2. s \in [1..Len(s) -> T]
      BY <3>1
    <3> QED
      BY <3>1, <3>2, SeqDef
  <2>2. streams \subseteq X /\ named \subseteq X /\ set \subseteq X
    BY <1>4
  <2> QED
    BY <1>5, <1>6, <1>7, <2>1, <2>2, Zenon
<1> DEFINE front == StreamFlags \o given
<1>10. front \in Seq(X) /\ ToSet(front) = streams \cup named
  BY <1>5, <1>6, <1>9, SetOfConcat
<1> HIDE DEF front
<1>11. front \o settings \in Seq(X) /\ ToSet(front \o settings) = (streams \cup named) \cup set
  BY <1>7, <1>9, <1>10, SetOfConcat
<1> QED
  BY <1>4, <1>8, <1>11 DEF front, X

LEMMA ArgumentFields ==
    /\ \A flag : Bare(flag).flag = flag /\ Bare(flag).bare = TRUE
    /\ \A flag, value : With(flag, value).flag = flag /\ With(flag, value).bare = FALSE /\ With(flag, value).value = value
BY DEF Bare, With

\* An argument is of its member's flag, and of no other member's.
LEMMA ArgumentsMatch ==
    ASSUME NEW f, NEW m \in DOMAIN FlagOf, NEW a \in GivesTo(f, m)
    PROVE  /\ Matches(m, a)
           /\ \A n \in Members : Matches(n, a) => n = m
           /\ GivesTo(f, m) = {a}
<1>1. /\ a.flag = FlagOf[m] /\ (m \in {"Quiet", "Colour", "StopOnStdin", "UntilFailure"} => a.bare = TRUE)
      /\ (m \notin {"Quiet", "Colour", "StopOnStdin", "UntilFailure"} => a.bare = FALSE)
      /\ GivesTo(f, m) = {a}
  <2>1. CASE m = "Quiet"
    <3>1. a = Bare("--quiet") /\ GivesTo(f, m) = {Bare("--quiet")}
      BY <2>1 DEF GivesTo
    <3> QED
      BY <2>1, <3>1, ArgumentFields DEF FlagOf
  <2>2. CASE m = "Colour"
    <3>1. a = Bare("--no-color") /\ GivesTo(f, m) = {Bare("--no-color")}
      BY <2>2 DEF GivesTo
    <3> QED
      BY <2>2, <3>1, ArgumentFields DEF FlagOf
  <2>3. CASE m = "EventsPath"
    <3>1. a = With("--events", "-") /\ GivesTo(f, m) = {With("--events", "-")}
      BY <2>3 DEF GivesTo
    <3> QED
      BY <2>3, <3>1, ArgumentFields DEF FlagOf
  <2>4. CASE m = "StopOnStdin"
    <3>1. a = Bare("--stop-on-stdin") /\ GivesTo(f, m) = {Bare("--stop-on-stdin")}
      BY <2>4 DEF GivesTo
    <3> QED
      BY <2>4, <3>1, ArgumentFields DEF FlagOf
  <2>5. CASE m = "Selection"
    <3>1. a = With("--select", SelectedIds(f.ticked)) /\ GivesTo(f, m) = {With("--select", SelectedIds(f.ticked))}
      BY <2>5 DEF GivesTo, If
    <3> QED
      BY <2>5, <3>1, ArgumentFields DEF FlagOf
  <2>6. CASE m = "OperatorName"
    <3>1. a = With("--operator", f.operator) /\ GivesTo(f, m) = {With("--operator", f.operator)}
      BY <2>6 DEF GivesTo, If
    <3> QED
      BY <2>6, <3>1, ArgumentFields DEF FlagOf
  <2>7. CASE m = "CriteriaVariant"
    <3>1. a = With("--criteria", f.criteria) /\ GivesTo(f, m) = {With("--criteria", f.criteria)}
      BY <2>7 DEF GivesTo, If
    <3> QED
      BY <2>7, <3>1, ArgumentFields DEF FlagOf
  <2>8. CASE m = "RecordPath"
    <3>1. a = With("--record", f.path) /\ GivesTo(f, m) = {With("--record", f.path)}
      BY <2>8 DEF GivesTo, If
    <3> QED
      BY <2>8, <3>1, ArgumentFields DEF FlagOf
  <2>9. CASE m = "ReplayPath"
    <3>1. a = With("--replay", f.path) /\ GivesTo(f, m) = {With("--replay", f.path)}
      BY <2>9 DEF GivesTo, If
    <3> QED
      BY <2>9, <3>1, ArgumentFields DEF FlagOf
  <2>10. CASE m = "Repeat"
    <3>1. a = With("--repeat", f.count) /\ GivesTo(f, m) = {With("--repeat", f.count)}
      BY <2>10 DEF GivesTo, If
    <3> QED
      BY <2>10, <3>1, ArgumentFields DEF FlagOf
  <2>11. CASE m = "UntilFailure"
    <3>1. a = Bare("--until-failure") /\ GivesTo(f, m) = {Bare("--until-failure")}
      BY <2>11 DEF GivesTo, If
    <3> QED
      BY <2>11, <3>1, ArgumentFields DEF FlagOf
  <2> QED
    BY <2>1, <2>2, <2>3, <2>4, <2>5, <2>6, <2>7, <2>8, <2>9, <2>10, <2>11 DEF FlagOf
<1>2. IsSwitch(m) = (m \in {"Quiet", "Colour", "StopOnStdin", "UntilFailure"})
  <2>1. m \in {"Quiet", "Colour", "StopOnStdin", "UntilFailure"}
          \/ m \in {"Selection", "EventsPath", "OperatorName", "CriteriaVariant", "RecordPath", "ReplayPath", "Repeat"}
    BY DEF FlagOf
  <2> QED
    BY <2>1, TraitsOf DEF IsSwitch
<1> QED
  BY <1>1, <1>2, FlagsAreTheirs DEF Matches

\* What a run that is not refused reads of its command line.
LEMMA CommandRead ==
    ASSUME NEW f \in Forms, ~FormRefused(f), ~(f.mode # "once" /\ f.count = Huge)
    PROVE  LET o == Parse(CommandOf(f)) IN
           /\ o = [m \in Members |-> o[m]]
           /\ \A m \in Members : (m \notin DOMAIN FlagOf \/ GivesTo(f, m) = {}) => o[m] = DefaultOf(m)
           /\ \A m \in DOMAIN FlagOf : \A a : GivesTo(f, m) = {a} => \E values : Last(values) = a.value /\ o[m] = Read(m, values)
<1> DEFINE argv == CommandOf(f)
<1>1. argv \in Seq(Arguments(f)) /\ ToSet(argv) = Arguments(f)
  BY CommandIs
<1> HIDE DEF argv
<1>2. ASSUME NEW a \in ToSet(argv) PROVE \E m \in DOMAIN FlagOf : a \in GivesTo(f, m)
  BY <1>1, <1>2 DEF Arguments
<1>3. \A m \in DOMAIN FlagOf : m \in Members
  BY FlagsAreTheirs
<1>4. ASSUME NEW a \in ToSet(argv) PROVE Understood(a)
  <2>1. PICK m \in DOMAIN FlagOf : a \in GivesTo(f, m)
    BY <1>2
  <2>2. Matches(m, a)
    BY <2>1, ArgumentsMatch
  <2>3. ASSUME Vocabulary[m].kind = "number" PROVE NumberIsGood(m, a.value)
    <3>1. m = "Repeat"
      BY <2>3, TraitsOf
    <3>2. a = With("--repeat", f.count) /\ f.mode # "once" /\ f.count # None
      BY <2>1, <3>1 DEF GivesTo, If
    <3>3. a.value = 2
      BY <3>2, FormFacts DEF With, FormRefused
    <3> QED
      BY <3>3 DEF NumberIsGood
  <2> QED
    BY <1>3, <2>2, <2>3 DEF Understood
<1>5. ASSUME NEW m \in Members, m \notin DOMAIN FlagOf \/ GivesTo(f, m) = {}
      PROVE  Parse(argv)[m] = DefaultOf(m)
  <2>1. ASSUME NEW a \in ToSet(argv), Matches(m, a) PROVE FALSE
    <3>1. PICK n \in DOMAIN FlagOf : a \in GivesTo(f, n)
      BY <1>2
    <3>2. m = n
      BY <2>1, <3>1, ArgumentsMatch
    <3> QED
      BY <1>5, <3>1, <3>2
  <2> QED
    BY <1>1, <1>4, <2>1, ParsedValues, Zenon
<1>6. ASSUME NEW m \in DOMAIN FlagOf, NEW a, GivesTo(f, m) = {a}
      PROVE  \E values : Last(values) = a.value /\ Parse(argv)[m] = Read(m, values)
  <2>1. a \in GivesTo(f, m) /\ m \in Members
    BY <1>3, <1>6
  <2>2. a \in ToSet(argv) /\ Matches(m, a)
    BY <1>1, <2>1, ArgumentsMatch DEF Arguments
  <2>3. ASSUME NEW b \in ToSet(argv), Matches(m, b) PROVE b = a
    <3>1. PICK n \in DOMAIN FlagOf : b \in GivesTo(f, n)
      BY <1>2
    <3>2. m = n
      BY <2>1, <2>3, <3>1, ArgumentsMatch
    <3> QED
      BY <1>6, <3>1, <3>2
  <2> QED
    BY <1>1, <1>4, <2>1, <2>2, <2>3, ParsedValues, Zenon
<1>7. Parse(argv) = [m \in Members |-> Parse(argv)[m]]
  BY <1>1, <1>4, ParsedValues, Zenon
<1> QED
  BY <1>5, <1>6, <1>7, Zenon DEF argv

\* A number that 64 bits do not hold is refused.
LEMMA HugeIsRefused ==
    ASSUME NEW f \in Forms, ~FormRefused(f), f.mode # "once", f.count = Huge
    PROVE  Parse(CommandOf(f)) = Refused
<1> DEFINE a == With("--repeat", f.count)
<1>1. ToSet(CommandOf(f)) = Arguments(f)
  BY CommandIs
<1>2. f.count # None /\ f.count \notin Nat
  BY PageAssumption DEF PageAssumption
<1>3. GivesTo(f, "Repeat") = {a} /\ "Repeat" \in DOMAIN FlagOf
  BY <1>2 DEF GivesTo, If, FlagOf
<1>4. a \in GivesTo(f, "Repeat") /\ a \in ToSet(CommandOf(f)) /\ a.value = f.count
  BY <1>1, <1>3 DEF Arguments, With
<1> HIDE DEF a
<1>5. ~Understood(a)
  <2> SUFFICES ASSUME NEW n \in Members, Matches(n, a), Vocabulary[n].kind = "number" => NumberIsGood(n, a.value)
               PROVE  FALSE
    BY Zenon DEF Understood
  <2>1. n = "Repeat"
    BY <1>3, <1>4, ArgumentsMatch, Zenon
  <2> QED
    BY <1>2, <1>4, <2>1, TraitsOf DEF NumberIsGood
<1>6. \E i \in DOMAIN CommandOf(f) : ~Understood(CommandOf(f)[i])
  BY <1>4, <1>5, Zenon DEF ToSet
<1> QED
  BY <1>6, Zenon DEF Parse

\* The options that a run reads of a form that it does not refuse.
LEMMA OptionsRead ==
    ASSUME NEW f \in Forms, ~FormRefused(f), ~(f.mode # "once" /\ f.count = Huge)
    PROVE  LET o == Parse(CommandOf(f)) IN
           /\ o # Refused
           /\ o.Quiet = TRUE
           /\ o.Selection = (IF f.ticked = Ids THEN <<>> ELSE SelectedIds(f.ticked))
           /\ o.OperatorName = f.operator
           /\ o.CriteriaVariant = (IF f.criteria = Default THEN None ELSE f.criteria)
           /\ o.RecordPath = (IF ReadingsFlag(f) = "--record" THEN f.path ELSE None)
           /\ o.ReplayPath = (IF ReadingsFlag(f) = "--replay" THEN f.path ELSE None)
           /\ o.Repeat = (IF f.mode # "once" THEN f.count ELSE None)
           /\ o.UntilFailure = (f.mode = "until")
           /\ \A m \in {"SkeletonPath", "InjectPath", "Addresses", "LogDir", "WriteLogs"} : o[m] = DefaultOf(m)
           /\ o.SkeletonPath = None /\ o.InjectPath = None
<1> DEFINE o == Parse(CommandOf(f))
<1>1. /\ o = [m \in Members |-> o[m]]
      /\ \A m \in Members : (m \notin DOMAIN FlagOf \/ GivesTo(f, m) = {}) => o[m] = DefaultOf(m)
      /\ \A m \in DOMAIN FlagOf : \A a : GivesTo(f, m) = {a} => \E values : Last(values) = a.value /\ o[m] = Read(m, values)
  BY CommandRead
<1>2. \A m \in DOMAIN FlagOf : m \in Members
  BY FlagsAreTheirs
<1>3. DOMAIN FlagOf = {"Quiet", "Colour", "EventsPath", "StopOnStdin", "Selection", "OperatorName", "CriteriaVariant",
                       "RecordPath", "ReplayPath", "Repeat", "UntilFailure"}
  BY DEF FlagOf
<1> HIDE DEF o
<1>4. ASSUME NEW m \in DOMAIN FlagOf, GivesTo(f, m) = {} PROVE o[m] = DefaultOf(m)
  BY <1>1, <1>2, <1>4
<1>5. ASSUME NEW m \in {"EventsPath", "OperatorName", "CriteriaVariant", "RecordPath", "ReplayPath", "Repeat"},
             NEW flag, NEW value, GivesTo(f, m) = {With(flag, value)}
      PROVE  o[m] = value
  <2>1. m \in DOMAIN FlagOf
    BY <1>3
  <2>2. PICK values : Last(values) = With(flag, value).value /\ o[m] = Read(m, values)
    BY <1>1, <1>5, <2>1
  <2>3. Read(m, values) = Last(values)
    BY <2>1, ReadValues
  <2> QED
    BY <2>2, <2>3, ArgumentFields
<1>6. ASSUME NEW m \in {"Quiet", "UntilFailure"}, NEW a, GivesTo(f, m) = {a}
      PROVE  o[m] = TRUE
  <2>1. m \in DOMAIN FlagOf
    BY <1>3
  <2>2. PICK values : o[m] = Read(m, values)
    BY <1>1, <1>6, <2>1
  <2> QED
    BY <2>1, <2>2, ReadValues
<1>7. o.Quiet = TRUE
  <2>1. GivesTo(f, "Quiet") = {Bare("--quiet")}
    BY DEF GivesTo
  <2> QED
    BY <2>1, <1>6
<1>8. o.UntilFailure = (f.mode = "until")
  <2>1. GivesTo(f, "UntilFailure") = If(f.mode = "until", Bare("--until-failure"))
    BY DEF GivesTo
  <2>2. CASE f.mode = "until"
    BY <2>1, <2>2, <1>6 DEF If
  <2>3. CASE f.mode # "until"
    <3>1. GivesTo(f, "UntilFailure") = {}
      BY <2>1, <2>3 DEF If
    <3>2. o.UntilFailure = DefaultOf("UntilFailure")
      BY <1>3, <1>4, <3>1
    <3> QED
      BY <2>3, <3>2, DefaultValues
  <2> QED
    BY <2>2, <2>3
<1>9. o.Selection = (IF f.ticked = Ids THEN <<>> ELSE SelectedIds(f.ticked))
  <2>1. GivesTo(f, "Selection") = If(f.ticked # Ids, With("--select", SelectedIds(f.ticked)))
    BY DEF GivesTo
  <2>2. CASE f.ticked = Ids
    <3>1. GivesTo(f, "Selection") = {}
      BY <2>1, <2>2 DEF If
    <3>2. o.Selection = DefaultOf("Selection")
      BY <1>3, <1>4, <3>1
    <3> QED
      BY <2>2, <3>2, DefaultValues
  <2>3. CASE f.ticked # Ids
    <3>1. GivesTo(f, "Selection") = {With("--select", SelectedIds(f.ticked))}
      BY <2>1, <2>3 DEF If
    <3>2. PICK values : Last(values) = With("--select", SelectedIds(f.ticked)).value /\ o["Selection"] = Read("Selection", values)
      BY <1>1, <1>3, <3>1
    <3>3. Last(values) = SelectedIds(f.ticked)
      BY <3>2, ArgumentFields
    <3>4. Read("Selection", values) = SplitCommaList(Last(values))
      BY <1>3, ReadValues
    <3>5. SplitCommaList(SelectedIds(f.ticked)) = SelectedIds(f.ticked)
      BY SelectionFacts
    <3> QED
      BY <2>3, <3>2, <3>3, <3>4, <3>5
  <2> QED
    BY <2>2, <2>3
<1>10. ASSUME NEW m \in {"OperatorName", "CriteriaVariant", "RecordPath", "ReplayPath", "Repeat"},
              NEW c \in BOOLEAN, NEW flag, NEW value, GivesTo(f, m) = If(c, With(flag, value))
       PROVE  o[m] = IF c THEN value ELSE None
  <2>1. CASE c
    <3>1. GivesTo(f, m) = {With(flag, value)}
      BY <1>10, <2>1 DEF If
    <3>2. o[m] = value
      BY <1>5, <3>1
    <3> QED
      BY <2>1, <3>2
  <2>2. CASE ~c
    <3>1. GivesTo(f, m) = {}
      BY <1>10, <2>2 DEF If
    <3>2. o[m] = DefaultOf(m)
      BY <1>3, <1>4, <3>1
    <3> QED
      BY <2>2, <3>2, DefaultValues
  <2> QED
    BY <2>1, <2>2
<1>11. o.OperatorName = f.operator
  <2> DEFINE c == f.operator # None
  <2>1. GivesTo(f, "OperatorName") = If(c, With("--operator", f.operator)) /\ c \in BOOLEAN
    BY DEF GivesTo
  <2> HIDE DEF c
  <2>2. o["OperatorName"] = IF c THEN f.operator ELSE None
    BY <1>10, <2>1
  <2> QED
    BY <2>2 DEF c
<1>12. o.CriteriaVariant = (IF f.criteria = Default THEN None ELSE f.criteria)
  <2> DEFINE c == f.criteria \notin {None, Default}
  <2>1. GivesTo(f, "CriteriaVariant") = If(c, With("--criteria", f.criteria)) /\ c \in BOOLEAN
    BY DEF GivesTo
  <2> HIDE DEF c
  <2>2. o["CriteriaVariant"] = IF c THEN f.criteria ELSE None
    BY <1>10, <2>1
  <2> QED
    BY <2>2 DEF c
<1>13. o.RecordPath = (IF ReadingsFlag(f) = "--record" THEN f.path ELSE None)
  <2> DEFINE c == ReadingsFlag(f) = "--record"
  <2>1. GivesTo(f, "RecordPath") = If(c, With("--record", f.path)) /\ c \in BOOLEAN
    BY DEF GivesTo
  <2> HIDE DEF c
  <2>2. o["RecordPath"] = IF c THEN f.path ELSE None
    BY <1>10, <2>1
  <2> QED
    BY <2>2 DEF c
<1>14. o.ReplayPath = (IF ReadingsFlag(f) = "--replay" THEN f.path ELSE None)
  <2> DEFINE c == ReadingsFlag(f) = "--replay"
  <2>1. GivesTo(f, "ReplayPath") = If(c, With("--replay", f.path)) /\ c \in BOOLEAN
    BY DEF GivesTo
  <2> HIDE DEF c
  <2>2. o["ReplayPath"] = IF c THEN f.path ELSE None
    BY <1>10, <2>1
  <2> QED
    BY <2>2 DEF c
<1>15. o.Repeat = (IF f.mode # "once" THEN f.count ELSE None)
  <2> DEFINE c == f.mode # "once" /\ f.count # None
  <2>1. GivesTo(f, "Repeat") = If(c, With("--repeat", f.count)) /\ c \in BOOLEAN
    BY DEF GivesTo
  <2> HIDE DEF c
  <2>2. o["Repeat"] = IF c THEN f.count ELSE None
    BY <1>10, <2>1
  <2> QED
    BY <2>2 DEF c
<1>16. ASSUME NEW m \in {"SkeletonPath", "InjectPath", "Addresses", "LogDir", "WriteLogs"} PROVE o[m] = DefaultOf(m)
  <2>1. m \in Members
    BY DEF Members, Vocabulary
  <2> QED
    BY <1>1, <1>3, <2>1
<1>17. o.SkeletonPath = None /\ o.InjectPath = None
  BY <1>16, DefaultValues
<1>18. o # Refused
  <2>1. DOMAIN o = Members
    BY <1>1, Zenon
  <2>2. "Quiet" \in Members
    BY <1>2, <1>3
  <2>3. DOMAIN Refused = {}
    BY DEF Refused
  <2> QED
    BY <2>1, <2>2, <2>3
<1> QED
  BY <1>7, <1>8, <1>9, <1>11, <1>12, <1>13, <1>14, <1>15, <1>16, <1>17, <1>18, Zenon DEF o

LEMMA ParsedRight ==
    ASSUME NEW f \in Forms, ~FormRefused(f)
    PROVE  /\ ParseOptions(CommandOf(f)) = Refused <=> RefusedByRun(f)
           /\ ~RefusedByRun(f) => AskedOf(f, ParseOptions(CommandOf(f)))
<1> DEFINE p == Parse(CommandOf(f))
           o == ParseOptions(CommandOf(f))
<1>1. o = IF p = Refused \/ Contradicts(p) \/ p.CriteriaVariant \notin Variants \cup {None} THEN Refused ELSE p
  BY Zenon DEF ParseOptions
<1>2. CASE f.mode # "once" /\ f.count = Huge
  <2>1. p = Refused
    BY <1>2, HugeIsRefused
  <2> QED
    BY <1>1, <1>2, <2>1, Zenon DEF RefusedByRun
<1>3. CASE ~(f.mode # "once" /\ f.count = Huge)
  <2>1. /\ p # Refused /\ p.Quiet = TRUE
        /\ p.Selection = (IF f.ticked = Ids THEN <<>> ELSE SelectedIds(f.ticked))
        /\ p.OperatorName = f.operator
        /\ p.CriteriaVariant = (IF f.criteria = Default THEN None ELSE f.criteria)
        /\ p.RecordPath = (IF ReadingsFlag(f) = "--record" THEN f.path ELSE None)
        /\ p.ReplayPath = (IF ReadingsFlag(f) = "--replay" THEN f.path ELSE None)
        /\ p.Repeat = (IF f.mode # "once" THEN f.count ELSE None)
        /\ p.UntilFailure = (f.mode = "until")
        /\ \A m \in {"SkeletonPath", "InjectPath", "Addresses", "LogDir", "WriteLogs"} : p[m] = DefaultOf(m)
        /\ p.SkeletonPath = None /\ p.InjectPath = None
    BY <1>3, OptionsRead
  <2> HIDE DEF p, o
  <2>2. ~Contradicts(p)
    <3>1. p.RecordPath = None \/ p.ReplayPath = None
      BY <2>1
    <3>2. \A A : Given(p, A) <=> \E m \in A : p[m] # None
      BY DEF Given
    <3> QED
      BY <2>1, <3>1, <3>2 DEF Contradicts
  <2>3. p.CriteriaVariant \in Variants \cup {None} <=> f.criteria # "unknown"
    BY <2>1, FormFacts, PageAssumption DEF PageAssumption
  <2>4. CASE f.criteria = "unknown"
    BY <1>1, <2>3, <2>4 DEF RefusedByRun, o
  <2>5. CASE f.criteria # "unknown"
    <3>1. o = p /\ ~RefusedByRun(f)
      BY <1>1, <1>3, <2>1, <2>2, <2>3, <2>5 DEF RefusedByRun
    <3>2. Selected(p, Tests) = SelectedIds(f.ticked)
      <4>1. CASE f.ticked = Ids
        BY <2>1, <4>1, SelectionFacts DEF Selected
      <4>2. CASE f.ticked # Ids
        <5>1. p.Selection = SelectedIds(f.ticked) /\ p.Selection # <<>> /\ ToSet(p.Selection) = f.ticked
          BY <2>1, <4>2, SelectionFacts
        <5> QED
          BY <5>1, Zenon DEF Selected, SelectedIds
      <4> QED
        BY <4>1, <4>2
    <3>3. Endless(p) <=> (f.mode = "until" /\ f.count = None)
      BY <2>1 DEF Endless
    <3>4. ~Endless(p) => PassesOf(p) = Passes(f)
      BY <2>1, <3>3, FormFacts DEF PassesOf, Passes, FormRefused
    <3>5. /\ p.RecordPath = (IF f.source = "live" /\ f.record THEN f.path ELSE None)
          /\ p.ReplayPath = (IF f.source = "replay" THEN f.path ELSE None)
      <4>1. None # "--record" /\ None # "--replay"
        BY PageAssumption DEF PageAssumption
      <4> QED
        BY <2>1, <4>1, FormFacts DEF ReadingsFlag
    <3>6. AskedOf(f, p)
      BY <2>1, <3>2, <3>3, <3>4, <3>5, Zenon DEF AskedOf
    <3> QED
      BY <2>1, <3>1, <3>6 DEF o
  <2> QED
    BY <2>4, <2>5 DEF o
<1> QED
  BY <1>2, <1>3

\* How many ends of tests a page waits for is a number, or it waits for no number.
LEMMA ExpectedIsNumber ==
    ASSUME NEW f \in Forms
    PROVE  /\ ExpectedTests(f) \in Nat \cup {None}
           /\ Cardinality(f.ticked) \in Nat /\ Cardinality(f.ticked) = Len(Picked(Tests, f.ticked))
<1>1. Tests \in Seq(Ids) /\ (\A i, j \in DOMAIN Tests : Tests[i] = Tests[j] => i = j) /\ f.ticked \in SUBSET ToSet(Tests)
  BY PageAssumption, FormFacts DEF PageAssumption, Ids
<1>2. Cardinality(f.ticked) \in Nat /\ Cardinality(f.ticked) = Len(Picked(Tests, f.ticked))
  BY <1>1, PickedCount
<1> QED
  BY <1>2 DEF ExpectedTests

-----------------------------------------------------------------------------
(* What the page, the server and the run are, whatever has happened.        *)

LEMMA SelectedSeq ==
    ASSUME NEW o
    PROVE  Selected(o, Tests) \in Seq(Ids)
<1>1. Tests \in Seq(Ids)
  BY PageAssumption DEF PageAssumption, Ids
<1>2. Picked(Tests, ToSet(o.Selection)) \in Seq(Ids)
  BY <1>1, PickedSet
<1> QED
  BY <1>1, <1>2 DEF Selected

LEMMA OneMoreSaid ==
    ASSUME NEW X, NEW s \in Seq(X), NEW x \in X
    PROVE  /\ s \o <<x>> \in Seq(X) /\ Len(s) \in Nat /\ Len(s \o <<x>>) = Len(s) + 1 /\ (s \o <<x>>)[Len(s) + 1] = x
           /\ \A i \in 1..Len(s) : (s \o <<x>>)[i] = s[i] /\ s[i] \in X
           /\ DOMAIN s = 1..Len(s) /\ DOMAIN (s \o <<x>>) = 1..(Len(s) + 1)
<1> DEFINE t == <<x>>
<1>1. t \in Seq(X) /\ Len(t) = 1 /\ t[1] = x
  OBVIOUS
<1> HIDE DEF t
<1>2. /\ s \o t \in Seq(X) /\ Len(s \o t) = Len(s) + 1 /\ Len(s) \in Nat
      /\ \A i \in 1..(Len(s) + 1) : (s \o t)[i] = IF i <= Len(s) THEN s[i] ELSE t[i - Len(s)]
  <2>1. /\ s \o t \in Seq(X) /\ Len(s \o t) = Len(s) + Len(t)
        /\ \A i \in 1..(Len(s) + Len(t)) : (s \o t)[i] = IF i <= Len(s) THEN s[i] ELSE t[i - Len(s)]
    BY <1>1, ConcatProperties
  <2>2. Len(s) \in Nat
    BY LenProperties
  <2> QED
    BY <1>1, <2>1, <2>2, Zenon
<1>3. (s \o t)[Len(s) + 1] = x
  <2>1. Len(s) + 1 \in 1..(Len(s) + 1) /\ ~(Len(s) + 1 <= Len(s)) /\ (Len(s) + 1) - Len(s) = 1
    BY <1>2
  <2> QED
    BY <1>1, <1>2, <2>1
<1>4. \A i \in 1..Len(s) : (s \o t)[i] = s[i] /\ s[i] \in X
  BY <1>2, ElementOfSeq
<1>5. DOMAIN s = 1..Len(s) /\ DOMAIN (s \o t) = 1..(Len(s) + 1)
  BY <1>2, LenProperties
<1> QED
  BY <1>2, <1>3, <1>4, <1>5 DEF t

LEMMA BaseInit ==
    Init => Base
<1> SUFFICES ASSUME Init PROVE Base
  OBVIOUS
<1>1. Blank \in Forms /\ None \notin Nat
  BY BlankIsForm, PageAssumption DEF PageAssumption
<1>2. page \in PageType
  BY DEF Init, PageType, Statuses, Outcomes, Verdict
<1>3. IsChild(child)
  BY <1>1 DEF Init, IsChild, Gone, Stages
<1>4. MaxStarts \in Nat /\ MaxTroubles \in Nat
  BY PageAssumption DEF PageAssumption
<1>5. child.stage = "gone" /\ lines = <<>> /\ lines \in Seq(LineType)
  <2>1. child = Gone /\ lines = <<>>
    BY DEF Init
  <2> QED
    BY <2>1 DEF Gone
<1>6. Typed
  <2>1. requests = {} /\ replies = {} /\ safing = {} /\ stream = None /\ starts = 0 /\ troubles = 0
    BY DEF Init
  <2>2. stream \in Nat \cup {None} /\ starts \in 0..MaxStarts /\ troubles \in 0..MaxTroubles
    <3>1. stream \in Nat \cup {None}
      BY <2>1
    <3>3. 0 \in 0..MaxStarts /\ 0 \in 0..MaxTroubles
      BY <1>4
    <3> QED
      BY <2>1, <3>1, <3>3, Zenon
  <2> QED
    BY <1>2, <1>3, <1>5, <2>1, <2>2 DEF Typed, AtTest
<1>7. page.of = 0 /\ page.epoch = 0 /\ page.failed = 0 /\ page.finished = 0 /\ child.of = 0 /\ starts = 0 /\ troubles = 0
  <2>1. child = Gone /\ starts = 0 /\ troubles = 0
    BY DEF Init
  <2>2. page.of = 0 /\ page.epoch = 0 /\ page.failed = 0 /\ page.finished = 0
    BY DEF Init
  <2> QED
    BY <2>1, <2>2 DEF Gone
<1>8. requests = {} /\ replies = {} /\ safing = {}
  BY DEF Init
<1> QED
  BY <1>6, <1>7, <1>8 DEF Base, Numbered, Fresh, Safings

\* Nothing that is said of the requests, replies and safings changes.
LEMMA BaseServeRun ==
    ASSUME Base, NEW r \in requests, ServeRun(r)
    PROVE  Base'
<1>1. /\ r \in RequestType /\ r.kind = "run" /\ requests' = requests \ {r}
      /\ page' = page /\ stream' = stream /\ safing' = safing /\ starts' = starts /\ troubles' = troubles
  BY DEF Base, Typed, ServeRun
<1>2. \A x \in {"200", "409"} :
        Reply(r, x) \in ReplyType /\ Reply(r, x).kind = "run" /\ Reply(r, x).run = child.of /\ Reply(r, x).result = x
          /\ Reply(r, x).of = r.of /\ Reply(r, x).epoch = r.epoch
  BY <1>1 DEF Base, Typed, IsChild, Reply, ReplyType, RequestType, Kinds
<1>3. CASE child.alive
  <2>1. replies' = replies \cup {Reply(r, "409")} /\ child' = child /\ lines' = lines
    BY <1>3 DEF ServeRun
  <2>2. Typed'
    BY <1>1, <1>2, <2>1 DEF Base, Typed, AtTest, Catalog
  <2>3. Numbered'
    BY <1>1, <1>2, <2>1 DEF Base, Numbered
  <2>4. Fresh'
    BY <1>1, <1>2, <2>1 DEF Base, Fresh
  <2>5. Safings'
    BY <1>1, <1>2, <2>1 DEF Base, Safings
  <2> QED
    BY <2>2, <2>3, <2>4, <2>5 DEF Base
<1>4. CASE ~child.alive
  <2>1. /\ replies' = replies \cup {Reply(r, "200")} /\ lines' = <<>>
        /\ child' = [Gone EXCEPT !.alive = TRUE, !.form = r.form, !.of = r.of, !.stage = "parse",
                        !.options = ParseOptions(BuildRunCommand(Selection(r.form), Settings(r.form)))]
    BY <1>4 DEF ServeRun
  <2>2. child'.of = r.of /\ child'.alive = TRUE /\ child'.stage = "parse" /\ r.of \in Nat /\ r.form \in Forms
    BY <1>1, <2>1 DEF Gone, RequestType
  <2>3. IsChild(child)'
    <3>1. IsChild(child')
      BY <2>1, <2>2 DEF IsChild, Gone, Stages
    <3> QED
      BY <3>1 DEF IsChild
  <2>4. lines' \in Seq(LineType)
    BY <2>1
  <2>5. Typed'
    BY <1>1, <1>2, <2>1, <2>2, <2>3, <2>4 DEF Base, Typed, AtTest
  <2>6. Numbered'
    BY <1>1, <1>2, <2>1, <2>2 DEF Base, Numbered
  <2>7. Fresh'
    BY <1>1, <1>2, <2>1, <2>2 DEF Base, Fresh
  <2>8. Safings'
    BY <1>1, <1>2, <2>1, <2>2 DEF Base, Safings, Fresh
  <2> QED
    BY <2>5, <2>6, <2>7, <2>8 DEF Base
<1> QED
  BY <1>3, <1>4

LEMMA BaseServeStop ==
    ASSUME Base, NEW r \in requests, ServeStop(r)
    PROVE  Base'
<1>1. /\ r \in RequestType /\ r.kind = "stop" /\ requests' = requests \ {r}
      /\ page' = page /\ lines' = lines /\ stream' = stream /\ safing' = safing
      /\ starts' = starts /\ troubles' = troubles
  BY DEF Base, Typed, ServeStop
<1>2. \A x \in {"200", "409"} :
        Reply(r, x) \in ReplyType /\ Reply(r, x).kind = "stop" /\ Reply(r, x).run = child.of /\ Reply(r, x).result = x
          /\ Reply(r, x).of = r.of /\ Reply(r, x).epoch = r.epoch
  BY <1>1 DEF Base, Typed, IsChild, Reply, ReplyType, RequestType, Kinds
<1>3. PICK x \in {"200", "409"} : replies' = replies \cup {Reply(r, x)}
  BY DEF ServeStop
<1>4. child' \in {child, [child EXCEPT !.stop = TRUE]}
  BY DEF ServeStop
<1>5. IsChild(child') /\ child'.of = child.of /\ child'.alive = child.alive /\ child'.stage = child.stage
        /\ child'.next = child.next /\ child'.options = child.options /\ child'.killed = child.killed
  BY <1>4 DEF Base, Typed, IsChild
<1>6. Typed'
  BY <1>1, <1>2, <1>3, <1>5 DEF Base, Typed, AtTest, Catalog, IsChild
<1>7. Numbered'
  BY <1>1, <1>2, <1>3, <1>5 DEF Base, Numbered
<1>8. Fresh'
  BY <1>1, <1>2, <1>3, <1>5 DEF Base, Fresh
<1>9. Safings'
  BY <1>1, <1>2, <1>3, <1>5 DEF Base, Safings
<1> QED
  BY <1>6, <1>7, <1>8, <1>9 DEF Base

LEMMA BaseServeSafety ==
    ASSUME Base, NEW r \in requests, ServeEmergency(r) \/ ServeSafe(r)
    PROVE  Base'
<1>1. /\ r \in RequestType /\ r.kind \in {"emergency", "safe"} /\ requests' = requests \ {r}
      /\ page' = page /\ replies' = replies /\ lines' = lines /\ stream' = stream
      /\ starts' = starts /\ troubles' = troubles
  BY DEF Base, Typed, ServeEmergency, ServeSafe
<1>2. /\ IsChild(child') /\ child'.of = child.of /\ child'.stage \in {child.stage, "gone"}
      /\ child'.next = child.next /\ child'.options = child.options
      /\ child.alive = FALSE => child'.alive = FALSE
      /\ r.kind = "emergency" => child'.alive = FALSE /\ (child.alive = TRUE => child'.killed = TRUE)
      /\ child.killed = TRUE => child'.killed = TRUE
  <2>1. IsChild(child)
    BY DEF Base, Typed
  <2>2. CASE ServeEmergency(r)
    <3>1. child' = Killed(child)
      BY <2>2 DEF ServeEmergency
    <3>2. CASE child.alive
      BY <2>1, <3>1, <3>2 DEF Killed, IsChild, Stages
    <3>3. CASE ~child.alive
      BY <2>1, <3>1, <3>3 DEF Killed, IsChild
    <3> QED
      BY <3>2, <3>3
  <2>3. CASE ServeSafe(r)
    BY <2>1, <2>3 DEF ServeSafe
  <2> QED
    BY <2>2, <2>3
<1>3. PICK k \in BOOLEAN : /\ safing' = safing \cup {[request |-> r, killed |-> k, run |-> child.of]}
                           /\ r.kind = "emergency" /\ k = TRUE => child.alive = TRUE
  BY DEF Base, Typed, IsChild, ServeEmergency, ServeSafe
<1>4. [request |-> r, killed |-> k, run |-> child.of] \in SafingType
  BY <1>1 DEF Base, Typed, IsChild, SafingType
<1>5. Typed'
  BY <1>1, <1>2, <1>3, <1>4 DEF Base, Typed, AtTest, Catalog, IsChild
<1>6. Numbered'
  BY <1>1, <1>2, <1>3 DEF Base, Numbered
<1>7. Fresh'
  BY <1>1, <1>2, <1>3 DEF Base, Fresh
<1>8. Safings'
  BY <1>1, <1>2, <1>3 DEF Base, Safings
<1> QED
  BY <1>5, <1>6, <1>7, <1>8 DEF Base

LEMMA BaseSafeEnds ==
    ASSUME Base, NEW s \in safing, SafeEnds(s)
    PROVE  Base'
<1>1. /\ s \in SafingType /\ s.request \in RequestType /\ s.request.kind \in {"emergency", "safe"} /\ safing' = safing \ {s}
      /\ page' = page /\ requests' = requests /\ child' = child /\ lines' = lines /\ stream' = stream
      /\ starts' = starts /\ troubles' = troubles
  BY DEF Base, Typed, Safings, SafingType, SafeEnds
<1>2. PICK end \in {"unstarted", "died", "done"} :
        LET result == IF ~Safed(s, end) THEN "failed" ELSE IF s.killed THEN "killed" ELSE "safed"
        IN  replies' = replies \cup {[Reply(s.request, result) EXCEPT !.run = s.run]}
  BY DEF SafeEnds
<1> DEFINE result == IF ~Safed(s, end) THEN "failed" ELSE IF s.killed THEN "killed" ELSE "safed"
           a == [Reply(s.request, result) EXCEPT !.run = s.run]
<1>3. replies' = replies \cup {a}
  BY <1>2
<1>4. result \in {"failed", "killed", "safed"} /\ (result = "killed" => s.killed = TRUE)
  BY <1>1 DEF SafingType
<1> HIDE DEF result
<1>5. /\ a \in ReplyType /\ a.kind = s.request.kind /\ a.of = s.request.of /\ a.epoch = s.request.epoch /\ a.run = s.run
      /\ a.result = result
  BY <1>1, <1>4 DEF Reply, ReplyType, SafingType, RequestType, Kinds
<1> HIDE DEF a
<1>7. Typed'
  BY <1>1, <1>3, <1>5 DEF Base, Typed, AtTest, Catalog, IsChild
<1>8. Numbered'
  BY <1>1, <1>3, <1>5 DEF Base, Numbered
<1>9. Fresh'
  BY <1>1, <1>3, <1>5 DEF Base, Fresh
<1>10. Safings'
  BY <1>1, <1>3, <1>4, <1>5 DEF Base, Safings
<1> QED
  BY <1>7, <1>8, <1>9, <1>10 DEF Base

LEMMA ChildNextMoves ==
    ASSUME Base, ChildNext
    PROVE  ChildMoves
<1>1. IsChild(child) /\ troubles \in 0..MaxTroubles /\ MaxTroubles \in Nat
  BY PageAssumption DEF Base, Typed, PageAssumption
<1>2. child.alive
  BY DEF ChildNext, ChildRefuses, ChildBegins, BeginTest, EndTest, Throws, PassEnds, StopsBetween, ChildEnds, ChildDies
<1>3. child.alive = TRUE
  BY <1>1, <1>2 DEF IsChild
<1>4. /\ page' = page /\ requests' = requests /\ replies' = replies /\ stream' = stream /\ safing' = safing /\ starts' = starts
      /\ troubles' = troubles \/ Trouble
  BY DEF ChildNext, ChildRefuses, ChildBegins, BeginTest, EndTest, Throws, PassEnds, StopsBetween, ChildEnds, ChildDies
<1>5. troubles' \in 0..MaxTroubles /\ troubles <= troubles'
  BY <1>1, <1>4 DEF Trouble
<1> QED
  BY <1>3, <1>4, <1>5 DEF ChildMoves

LEMMA BaseRun ==
    ASSUME Base, ChildMoves, IsChild(child'), child'.of = child.of, lines' \in Seq(LineType), AtTest'
    PROVE  Base'
<1>2. Typed'
  BY DEF Base, Typed, IsChild, ChildMoves
<1>3. Numbered'
  <2>1. page.epoch <= troubles'
    BY DEF Base, Typed, Numbered, PageType, ChildMoves
  <2> QED
    BY <2>1 DEF Base, Numbered, ChildMoves
<1>4. Fresh'
  BY DEF Base, Fresh, ChildMoves
<1>5. Safings'
  BY DEF Base, Safings, ChildMoves
<1> QED
  BY <1>2, <1>3, <1>4, <1>5 DEF Base

LEMMA LinesAre ==
    ASSUME NEW k \in {"stderr", "runStart", "testStart", "testEnd", "runEnd"}, NEW t \in Ids \cup {None}, NEW ok \in BOOLEAN
    PROVE  Line(k, t, ok) \in LineType /\ Line(k, t, ok).kind = k /\ Line(k, t, ok).test = t /\ Line(k, t, ok).ok = ok
BY DEF Line, LineType

LEMMA BaseChild ==
    ASSUME Base, ChildNext
    PROVE  Base'
<1>1. IsChild(child) /\ lines \in Seq(LineType) /\ troubles \in 0..MaxTroubles
  BY DEF Base, Typed
<1>2. \A l \in LineType : lines \o <<l>> \in Seq(LineType)
  BY <1>1, OneMoreSaid
<1>3. ChildMoves
  BY ChildNextMoves
<1>4. CASE ChildRefuses
  <2>1. lines' \in Seq(LineType)
    BY <1>2, <1>4, LinesAre DEF ChildRefuses, Say
  <2>2. IsChild(child') /\ child'.of = child.of /\ child'.stage = "gone"
    BY <1>1, <1>4 DEF ChildRefuses, IsChild, Stages
  <2>9. AtTest'
    BY <2>1, <2>2 DEF AtTest
  <2> QED
    BY <1>3, <2>1, <2>2, <2>9, BaseRun, Zenon
<1>5. CASE ChildBegins
  <2>1. lines' \in Seq(LineType)
    BY <1>2, <1>5, LinesAre DEF ChildBegins, Say
  <2>2. IsChild(child') /\ child'.of = child.of /\ child'.stage = "between" /\ child'.next = 1
    BY <1>1, <1>5, BlankIsForm DEF ChildBegins, IsChild, Stages
  <2>9. AtTest'
    BY <2>1, <2>2 DEF AtTest
  <2> QED
    BY <1>3, <2>1, <2>2, <2>9, BaseRun, Zenon
<1>6. CASE BeginTest
  <2>1. child.next > 0 /\ child.next \in Nat /\ child.next <= Len(Catalog)
    BY <1>1, <1>6 DEF Base, Typed, AtTest, BeginTest, IsChild, Catalog
  <2>2. Catalog[child.next] \in Ids
    BY <2>1, SelectedSeq, ElementOfSeq, LenProperties DEF Catalog
  <2>3. lines' \in Seq(LineType)
    BY <1>2, <1>6, <2>2, LinesAre DEF BeginTest, Say, Catalog
  <2>4. IsChild(child') /\ child'.of = child.of /\ child'.stage = "test" /\ child'.next = child.next /\ child'.options = child.options
    BY <1>1, <1>6 DEF BeginTest, IsChild, Stages
  <2>5. Catalog' = Catalog
    BY <2>4 DEF Catalog
  <2>9. AtTest'
    BY <2>1, <2>3, <2>4, <2>5 DEF AtTest
  <2> QED
    BY <1>3, <2>1, <2>3, <2>4, <2>5, <2>9, BaseRun, Zenon
<1>7. CASE EndTest
  <2>1. child.next > 0 /\ child.next \in Nat /\ child.next <= Len(Catalog)
    BY <1>1, <1>7 DEF Base, Typed, AtTest, EndTest, IsChild
  <2>2. Catalog[child.next] \in Ids
    BY <2>1, SelectedSeq, ElementOfSeq, LenProperties DEF Catalog
  <2>3. PICK ok \in BOOLEAN :
          /\ Say(<<Line("testEnd", Catalog[child.next], ok)>>)
          /\ child' = [child EXCEPT !.stage = "between", !.next = @ + 1, !.passed = @ /\ ok]
    BY <1>7 DEF EndTest, Catalog
  <2>4. lines' \in Seq(LineType)
    BY <1>2, <2>2, <2>3, LinesAre DEF Say
  <2>5. IsChild(child') /\ child'.of = child.of /\ child'.stage = "between" /\ child'.next = child.next + 1
    <3> DEFINE p == child.passed /\ ok
               n == child.next + 1
    <3>1. p \in BOOLEAN /\ n \in Nat
      BY <2>1
    <3>2. child' = [child EXCEPT !.stage = "between", !.next = n, !.passed = p]
      BY <2>3
    <3> HIDE DEF p, n
    <3>3. IsChild(child') /\ child'.of = child.of /\ child'.stage = "between" /\ child'.next = n
      BY <1>1, <3>1, <3>2 DEF IsChild, Stages
    <3> QED
      BY <3>3 DEF n
  <2>9. AtTest'
    BY <2>1, <2>4, <2>5 DEF AtTest
  <2> QED
    BY <1>3, <2>1, <2>4, <2>5, <2>9, BaseRun, Zenon
<1>8. CASE Throws \/ StopsBetween
  <2>1. IsChild(child') /\ child'.of = child.of /\ child'.stage = "ending"
    <3>1. child' = [child EXCEPT !.stage = "ending", !.passed = FALSE]
      BY <1>8 DEF Throws, StopsBetween
    <3> QED
      BY <1>1, <3>1 DEF IsChild, Stages
  <2>2. lines' = lines
    BY <1>8 DEF Throws, StopsBetween
  <2>9. AtTest'
    BY <2>1 DEF AtTest
  <2> QED
    BY <1>1, <1>3, <2>1, <2>2, <2>9, BaseRun, Zenon
<1>9. CASE PassEnds
  <2>1. child' = [child EXCEPT !.stage = "ending"] \/ child' = [child EXCEPT !.pass = @ + 1, !.next = 1]
    BY <1>9 DEF PassEnds
  <2>2. child.stage = "between"
    BY <1>9 DEF PassEnds
  <2>3. IsChild(child') /\ child'.of = child.of /\ child'.stage \in {"between", "ending"} /\ (child'.stage = "between" => child'.next = 1)
    <3>1. CASE child' = [child EXCEPT !.stage = "ending"]
      BY <1>1, <3>1 DEF IsChild, Stages
    <3>2. CASE child' = [child EXCEPT !.pass = @ + 1, !.next = 1]
      <4> DEFINE n == child.pass + 1
      <4>1. n \in Nat /\ 1 \in Nat
        BY <1>1 DEF IsChild
      <4>2. child' = [child EXCEPT !.pass = n, !.next = 1]
        BY <3>2
      <4> HIDE DEF n
      <4> QED
        BY <1>1, <2>2, <4>1, <4>2 DEF IsChild, Stages
    <3> QED
      BY <2>1, <3>1, <3>2
  <2>4. lines' = lines
    BY <1>9 DEF PassEnds
  <2>9. AtTest'
    BY <2>3 DEF AtTest
  <2> QED
    BY <1>1, <1>3, <2>3, <2>4, <2>9, BaseRun, Zenon
<1>10. CASE ChildEnds
  <2>1. lines' \in Seq(LineType)
    <3>1. PICK ok \in BOOLEAN : lines' = lines \o <<Line("runEnd", None, ok)>>
      BY <1>1, <1>10 DEF ChildEnds, Say, IsChild
    <3> QED
      BY <1>2, <3>1, LinesAre
  <2>2. IsChild(child') /\ child'.of = child.of /\ child'.stage = "gone"
    BY <1>1, <1>10 DEF ChildEnds, IsChild, Stages
  <2>9. AtTest'
    BY <2>1, <2>2 DEF AtTest
  <2> QED
    BY <1>3, <2>1, <2>2, <2>9, BaseRun, Zenon
<1>11. CASE ChildDies
  <2>1. IsChild(child') /\ child'.of = child.of /\ child'.stage = "gone"
    BY <1>1, <1>11 DEF ChildDies, IsChild, Stages
  <2>2. lines' = lines
    BY <1>11 DEF ChildDies
  <2>9. AtTest'
    BY <2>1, <2>2 DEF AtTest
  <2> QED
    BY <1>1, <1>3, <2>1, <2>2, <2>9, BaseRun, Zenon
<1> QED
  BY <1>4, <1>5, <1>6, <1>7, <1>8, <1>9, <1>10, <1>11 DEF ChildNext

LEMMA PageNextMoves ==
    ASSUME Base, PageNext
    PROVE  PageMoves
<1>1. starts \in 0..MaxStarts /\ troubles \in 0..MaxTroubles /\ MaxStarts \in Nat /\ MaxTroubles \in Nat
  BY PageAssumption DEF Base, Typed, PageAssumption
<1>2. child' = child /\ lines' = lines /\ safing' = safing
  BY DEF PageNext, ClickRun, ClickStop, ClickEmergency, ClickSafe, TakeReply, Watch, RunFinished, Reload
<1>3. /\ starts' = starts \/ (starts < MaxStarts /\ starts' = starts + 1)
      /\ troubles' = troubles \/ Trouble
  BY DEF PageNext, ClickRun, ClickStop, ClickEmergency, ClickSafe, TakeReply, Watch, RunFinished, Reload
<1>4. starts' \in 0..MaxStarts /\ starts <= starts' /\ troubles' \in 0..MaxTroubles /\ troubles <= troubles'
  BY <1>1, <1>3 DEF Trouble
<1> QED
  BY <1>2, <1>4 DEF PageMoves

\* A page that asks for no run.
LEMMA BasePage ==
    ASSUME Base, PageMoves, page' \in PageType, page'.of = page.of, page'.failed <= page'.finished,
           page.epoch <= page'.epoch, page'.epoch <= troubles',
           stream' \in Nat \cup {None}, replies' \subseteq replies,
           \/ requests' = requests
           \/ \E q \in RequestType : requests' = requests \cup {q} /\ q.kind # "run" /\ q.of = page.of /\ q.epoch = page.epoch
    PROVE  Base'
<1>1. page.epoch \in Nat /\ page'.epoch \in Nat
  BY DEF Base, Typed, PageType
<1>2. Typed'
  BY DEF Base, Typed, AtTest, Catalog, IsChild, PageMoves
<1>3. Numbered'
  <2>1. \A q \in RequestType : q.epoch \in Nat
    BY DEF RequestType
  <2>2. \A q \in requests : q.epoch <= page'.epoch
    BY <1>1, <2>1 DEF Base, Typed, Numbered
  <2>3. \A r \in replies : r.epoch <= page'.epoch
    BY <1>1 DEF Base, Typed, Numbered, ReplyType
  <2>4. \A s \in safing : s.request.epoch <= page'.epoch
    BY <1>1, <2>1 DEF Base, Typed, Numbered, SafingType
  <2>5. /\ page.of <= starts' /\ child.of <= starts'
        /\ \A q \in requests : q.of <= starts'
        /\ \A r \in replies : r.of <= starts' /\ r.run <= starts'
        /\ \A s \in safing : s.request.of <= starts' /\ s.run <= starts'
    <3>1. starts \in Nat /\ starts' \in Nat /\ starts <= starts'
      BY PageAssumption DEF Base, Typed, PageMoves, PageAssumption
    <3>2. page.of \in Nat /\ child.of \in Nat /\ page.of <= starts /\ child.of <= starts
      BY DEF Base, Typed, Numbered, PageType, IsChild
    <3>3. \A q \in requests : q.of \in Nat /\ q.of <= starts
      BY DEF Base, Typed, Numbered, RequestType
    <3>4. \A r \in replies : r.of \in Nat /\ r.run \in Nat /\ r.of <= starts /\ r.run <= starts
      BY DEF Base, Typed, Numbered, ReplyType
    <3>5. \A s \in safing : s.request.of \in Nat /\ s.run \in Nat /\ s.request.of <= starts /\ s.run <= starts
      BY DEF Base, Typed, Numbered, SafingType, RequestType
    <3> QED
      BY <3>1, <3>2, <3>3, <3>4, <3>5
  <2>6. \A q \in requests' : q.of <= starts' /\ q.epoch <= page'.epoch
    BY <2>2, <2>5
  <2> QED
    BY <2>3, <2>4, <2>5, <2>6 DEF Numbered, PageMoves
<1>4. Fresh'
  BY DEF Base, Fresh, PageMoves
<1>5. Safings'
  BY DEF Base, Safings, PageMoves
<1> QED
  BY <1>2, <1>3, <1>4, <1>5 DEF Base

LEMMA BaseClickRun ==
    ASSUME Base, NEW f \in Forms, ClickRun(f)
    PROVE  Base'
<1>1. PageMoves
  BY PageNextMoves DEF PageNext
<1>2. replies' = replies
  BY DEF ClickRun
<1>3. page \in PageType /\ starts \in Nat /\ page.of \in Nat /\ page.epoch \in Nat
  BY DEF Base, Typed, PageType
<1>4. CASE FormRefused(f)
  <2>1. page' = [page EXCEPT !.status = "form"] /\ requests' = requests /\ stream' = stream
    BY <1>4 DEF ClickRun
  <2>2. page' \in PageType /\ page'.of = page.of /\ page'.epoch = page.epoch /\ page'.failed = page.failed /\ page'.finished = page.finished
    BY <1>3, <2>1 DEF PageType, Statuses
  <2>3. page'.failed <= page'.finished /\ page.epoch <= page'.epoch /\ page'.epoch <= troubles'
    BY <1>1, <1>3, <2>2 DEF Base, Typed, Numbered, PageMoves
  <2>4. stream' \in Nat \cup {None} /\ replies' \subseteq replies
    BY <1>2, <2>1 DEF Base, Typed
  <2> QED
    BY <1>1, <2>1, <2>2, <2>3, <2>4, BasePage, Zenon
<1>5. CASE ~FormRefused(f)
  <2> DEFINE n == starts + 1
             q == [Request("run", f) EXCEPT !.of = n]
  <2>1. /\ starts' = n /\ stream' = stream /\ requests' = requests \cup {q}
        /\ page' = [page EXCEPT !.running = TRUE, !.stopping = FALSE, !.status = "starting", !.of = n,
                        !.sawRunStart = FALSE, !.passed = None, !.finished = 0, !.failed = 0, !.stopped = None, !.pressed = FALSE,
                        !.expected = ExpectedTests(f), !.ticked = f.ticked, !.verdicts = [t \in Ids |-> ""]]
    BY <1>5 DEF ClickRun
  <2>2. n \in Nat /\ starts < n
    BY <1>3
  <2> HIDE DEF n
  <2>3. q \in RequestType /\ q.kind = "run" /\ q.of = n /\ q.epoch = page.epoch /\ q.form = f
    BY <1>3, <2>2 DEF Request, RequestType, Kinds
  <2> HIDE DEF q
  <2>4. ExpectedTests(f) \in Nat \cup {None}
    BY ExpectedIsNumber
  <2>5. f.ticked \in SUBSET Ids
    BY FormFacts
  <2>6. /\ page' \in PageType /\ page'.of = n /\ page'.epoch = page.epoch /\ page'.failed = 0 /\ page'.finished = 0
    BY <1>3, <2>1, <2>2, <2>4, <2>5 DEF PageType, Statuses, Verdict
  <2>7. Typed'
    BY <1>1, <1>2, <2>1, <2>3, <2>6 DEF Base, Typed, AtTest, Catalog, IsChild, PageMoves
  <2>8. Numbered'
    <3>1. page'.of <= starts' /\ page'.epoch <= troubles' /\ page'.failed <= page'.finished /\ child'.of <= starts'
      BY <1>1, <1>3, <2>1, <2>2, <2>6 DEF Base, Typed, Numbered, PageMoves, IsChild
    <3>2. \A p \in requests' : p.of <= starts' /\ p.epoch <= page'.epoch
      BY <1>3, <2>1, <2>2, <2>3, <2>6 DEF Base, Typed, Numbered, RequestType
    <3>3. \A r \in replies' : r.of <= starts' /\ r.run <= starts' /\ r.epoch <= page'.epoch
      BY <1>2, <1>3, <2>1, <2>2, <2>6 DEF Base, Typed, Numbered, ReplyType
    <3>4. \A s \in safing' : s.request.of <= starts' /\ s.run <= starts' /\ s.request.epoch <= page'.epoch
      BY <1>1, <1>3, <2>1, <2>2, <2>6 DEF Base, Typed, Numbered, SafingType, RequestType, PageMoves
    <3> QED
      BY <3>1, <3>2, <3>3, <3>4 DEF Numbered
  <2>9. /\ n > 0 /\ n # child.of /\ \A r \in replies : r.run # n
        /\ \A s \in safing : s.run # n
        /\ \A p \in requests : p.of # n
    BY <1>3, <2>2 DEF Base, Typed, Numbered, RequestType, ReplyType, SafingType, IsChild
  <2>10. Fresh'
    BY <1>1, <1>2, <1>5, <2>1, <2>3, <2>9 DEF Base, Fresh, PageMoves
  <2>11. Safings'
    BY <1>1, <1>2 DEF Base, Safings, PageMoves
  <2> QED
    BY <2>7, <2>8, <2>10, <2>11 DEF Base
<1> QED
  BY <1>4, <1>5

LEMMA BaseButtons ==
    ASSUME Base, ClickStop \/ ClickEmergency \/ ClickSafe
    PROVE  Base'
<1>1. PageMoves
  BY PageNextMoves DEF PageNext
<1>2. replies' = replies /\ stream' = stream
  BY DEF ClickStop, ClickEmergency, ClickSafe
<1>3. page \in PageType /\ page.of \in Nat /\ page.epoch \in Nat /\ Blank \in Forms
  BY BlankIsForm DEF Base, Typed, PageType
<1>4. /\ page' \in PageType /\ page'.of = page.of /\ page'.epoch = page.epoch
      /\ page'.failed = page.failed /\ page'.finished = page.finished
  <2>1. CASE ClickStop
    BY <1>3, <2>1 DEF ClickStop, PageType, Statuses
  <2>2. CASE ClickEmergency
    BY <1>3, <2>2 DEF ClickEmergency, PageType, Statuses
  <2>3. CASE ClickSafe
    BY <1>3, <2>3 DEF ClickSafe, PageType, Statuses
  <2> QED
    BY <2>1, <2>2, <2>3
<1>5. \E q \in RequestType : requests' = requests \cup {q} /\ q.kind # "run" /\ q.of = page.of /\ q.epoch = page.epoch
  <2>1. ASSUME NEW kind \in {"stop", "emergency", "safe"}
        PROVE  LET q == Request(kind, Blank) IN q \in RequestType /\ q.kind # "run" /\ q.of = page.of /\ q.epoch = page.epoch
    BY <1>3, <2>1 DEF Request, RequestType, Kinds
  <2>2. \E kind \in {"stop", "emergency", "safe"} : requests' = requests \cup {Request(kind, Blank)}
    BY DEF ClickStop, ClickEmergency, ClickSafe
  <2> QED
    BY <2>1, <2>2
<1>6. page'.failed <= page'.finished /\ page.epoch <= page'.epoch /\ page'.epoch <= troubles'
  <2>1. troubles \in Nat /\ troubles' \in Nat /\ troubles <= troubles'
    BY <1>1, PageAssumption DEF Base, Typed, PageMoves, PageAssumption
  <2> QED
    BY <1>3, <1>4, <2>1 DEF Base, Numbered
<1>7. stream' \in Nat \cup {None} /\ replies' \subseteq replies
  BY <1>2 DEF Base, Typed
<1> QED
  BY <1>1, <1>4, <1>5, <1>6, <1>7, BasePage, Zenon

LEMMA ReplyKeeps ==
    ASSUME page \in PageType, NEW r \in ReplyType, TakeReply(r)
    PROVE  Keeps
<1> DEFINE ours == r.epoch = page.epoch
           refused == r.result = "409"
<1>1. /\ r.kind = "run" \/ r.kind = "stop" \/ r.kind = "emergency" \/ r.kind = "safe"
      /\ page' =
              IF ~ours THEN page
              ELSE CASE r.kind = "run" /\ refused -> [page EXCEPT !.running = FALSE, !.stopping = FALSE, !.status = "active"]
                     [] r.kind = "run" /\ ~refused -> [page EXCEPT !.status = "running"]
                     [] r.kind = "stop" /\ refused ->
                          [page EXCEPT !.stopped = None, !.stopping = FALSE, !.status = IF page.running THEN "nothing" ELSE @]
                     [] r.kind = "emergency" -> [page EXCEPT !.status = CASE r.result = "failed" -> "emergencyFailed"
                                                                          [] r.result = "killed" -> "emergencyKilled"
                                                                          [] OTHER -> "emergencySafed"]
                     [] r.kind = "safe" -> [page EXCEPT !.status = IF r.result = "failed" THEN "safingFailed" ELSE "safed"]
                     [] OTHER -> page
  BY DEF TakeReply, ReplyType, Kinds
<1> HIDE DEF ours
<1>2. CASE ~ours \/ (r.kind = "stop" /\ ~refused)
  BY <1>1, <1>2 DEF Keeps
<1>3. CASE ours /\ r.kind = "run" /\ refused
  BY <1>1, <1>3 DEF Keeps, PageType, Statuses
<1>4. CASE ours /\ r.kind = "run" /\ ~refused
  BY <1>1, <1>4 DEF Keeps, PageType, Statuses
<1>5. CASE ours /\ r.kind = "stop" /\ refused
  <2> DEFINE status == IF page.running THEN "nothing" ELSE page.status
  <2>1. status \in Statuses
    BY DEF PageType, Statuses
  <2>2. page' = [page EXCEPT !.stopped = None, !.stopping = FALSE, !.status = status]
    BY <1>1, <1>5
  <2> HIDE DEF status
  <2> QED
    BY <2>1, <2>2 DEF Keeps, PageType
<1>6. CASE ours /\ r.kind = "emergency"
  <2>1. \E status \in {"emergencyFailed", "emergencyKilled", "emergencySafed"} : page' = [page EXCEPT !.status = status]
    BY <1>1, <1>6
  <2> QED
    BY <2>1 DEF Keeps, PageType, Statuses
<1>7. CASE ours /\ r.kind = "safe"
  <2>1. \E status \in {"safingFailed", "safed"} : page' = [page EXCEPT !.status = status]
    BY <1>1, <1>7
  <2> QED
    BY <2>1 DEF Keeps, PageType, Statuses
<1> QED
  BY <1>1, <1>2, <1>3, <1>4, <1>5, <1>6, <1>7

LEMMA BaseTakeReply ==
    ASSUME Base, NEW r \in replies, TakeReply(r)
    PROVE  Base'
<1>1. PageMoves
  BY PageNextMoves DEF PageNext
<1>2. Keeps
  BY ReplyKeeps DEF Base, Typed
<1>3. requests' = requests /\ replies' \subseteq replies /\ stream' \in Nat \cup {None}
  BY DEF Base, Typed, TakeReply
<1>4. page'.failed <= page'.finished /\ page.epoch <= page'.epoch /\ page'.epoch <= troubles'
  <2>1. troubles \in Nat /\ troubles' \in Nat /\ troubles <= troubles' /\ page.epoch \in Nat
    BY <1>1, PageAssumption DEF Base, Typed, PageMoves, PageAssumption, PageType
  <2> QED
    BY <1>2, <2>1 DEF Base, Numbered, Keeps
<1> QED
  BY <1>1, <1>2, <1>3, <1>4, BasePage, Zenon DEF Keeps

LEMMA EventApplied ==
    ASSUME NEW p \in PageType, p.failed <= p.finished, NEW e \in LineType
    PROVE  /\ ApplyEvent(p, e) \in PageType
           /\ \A field \in {"of", "epoch", "running", "status", "ticked", "expected", "stopped"} : ApplyEvent(p, e)[field] = p[field]
           /\ ApplyEvent(p, e).failed <= ApplyEvent(p, e).finished
<1>1. /\ e.kind \in {"stderr", "runStart", "testStart", "testEnd", "runEnd"} /\ e.ok \in BOOLEAN
      /\ p.finished \in Nat /\ p.failed \in Nat /\ p.verdicts \in [Ids -> Verdict]
  BY DEF LineType, PageType
<1>2. CASE e.kind = "runStart"
  BY <1>2 DEF ApplyEvent, PageType
<1>3. CASE e.kind = "testStart"
  <2>1. ApplyEvent(p, e) = [p EXCEPT !.verdicts = [p.verdicts EXCEPT ![e.test] = "running"]]
    BY <1>3 DEF ApplyEvent
  <2>2. [p.verdicts EXCEPT ![e.test] = "running"] \in [Ids -> Verdict]
    BY <1>1 DEF Verdict
  <2> QED
    BY <2>1, <2>2 DEF PageType
<1>4. CASE e.kind = "testEnd"
  <2> DEFINE v == IF e.ok THEN "pass" ELSE "fail"
             w == [p.verdicts EXCEPT ![e.test] = v]
             done == p.finished + 1
             bad == IF e.ok THEN p.failed ELSE p.failed + 1
  <2>1. ApplyEvent(p, e) = [p EXCEPT !.finished = done, !.failed = bad, !.verdicts = w]
    BY <1>4 DEF ApplyEvent
  <2>2. w \in [Ids -> Verdict]
    BY <1>1 DEF Verdict
  <2>3. done \in Nat /\ bad \in Nat /\ bad <= done
    BY <1>1
  <2> HIDE DEF done, bad, w
  <2> QED
    BY <2>1, <2>2, <2>3 DEF PageType
<1>5. CASE e.kind = "runEnd"
  BY <1>1, <1>5 DEF ApplyEvent, PageType
<1>6. CASE e.kind = "stderr"
  BY <1>6 DEF ApplyEvent
<1> QED
  BY <1>1, <1>2, <1>3, <1>4, <1>5, <1>6

LEMMA WatchApplies ==
    ASSUME Base, Watch
    PROVE  /\ stream \in Nat /\ stream < Len(lines) /\ Len(lines) \in Nat /\ stream' = stream + 1
           /\ stream + 1 \in DOMAIN lines /\ lines[stream + 1] \in LineType
           /\ \E status \in {page.status, "running"} :
                /\ page' = [ApplyEvent(page, lines[stream + 1]) EXCEPT !.status = status]
                /\ lines[stream + 1].kind = "testEnd" => status = "running"
                /\ lines[stream + 1].kind # "testEnd" => status = page.status
<1>1. stream \in Nat /\ stream < Len(lines) /\ Len(lines) \in Nat /\ stream' = stream + 1
  BY LenProperties DEF Base, Typed, Watch
<1>2. stream + 1 \in DOMAIN lines /\ lines[stream + 1] \in LineType
  BY <1>1, LenProperties, ElementOfSeq DEF Base, Typed
<1> DEFINE e == lines[stream + 1]
<1>3. page \in PageType /\ page.failed <= page.finished
  BY DEF Base, Typed, Numbered
<1>4. page' = [ApplyEvent(page, e) EXCEPT !.status = IF e.kind = "testEnd" THEN "running" ELSE ApplyEvent(page, e).status]
  BY DEF Watch
<1> HIDE DEF e
<1>5. ApplyEvent(page, e).status = page.status
  BY <1>2, <1>3, EventApplied DEF e
<1> QED
  BY <1>1, <1>2, <1>4, <1>5 DEF e

LEMMA BaseWatch ==
    ASSUME Base, Watch
    PROVE  Base'
<1>1. PageMoves
  BY PageNextMoves DEF PageNext
<1>2. page \in PageType /\ page.failed <= page.finished /\ page.epoch \in Nat
  BY DEF Base, Typed, Numbered, PageType
<1> DEFINE e == lines[stream + 1]
<1>3. e \in LineType /\ stream' \in Nat /\ \E status \in {page.status, "running"} : page' = [ApplyEvent(page, e) EXCEPT !.status = status]
  BY WatchApplies
<1> HIDE DEF e
<1>4. /\ ApplyEvent(page, e) \in PageType /\ ApplyEvent(page, e).of = page.of /\ ApplyEvent(page, e).epoch = page.epoch
      /\ ApplyEvent(page, e).failed <= ApplyEvent(page, e).finished
  BY <1>2, <1>3, EventApplied
<1>5. page' \in PageType /\ page'.of = page.of /\ page'.epoch = page.epoch /\ page'.failed <= page'.finished
  <2>1. PICK status \in {page.status, "running"} : page' = [ApplyEvent(page, e) EXCEPT !.status = status]
    BY <1>3
  <2>2. status \in Statuses
    BY <1>2 DEF PageType, Statuses
  <2> QED
    BY <1>4, <2>1, <2>2 DEF PageType
<1>6. page.epoch <= page'.epoch /\ page'.epoch <= troubles'
  <2>1. troubles \in Nat /\ troubles' \in Nat /\ troubles <= troubles'
    BY <1>1, PageAssumption DEF Base, Typed, PageMoves, PageAssumption
  <2> QED
    BY <1>2, <1>5, <2>1 DEF Base, Numbered
<1>7. requests' = requests /\ replies' \subseteq replies /\ stream' \in Nat \cup {None}
  BY <1>3 DEF Watch
<1> QED
  BY <1>1, <1>5, <1>6, <1>7, BasePage, Zenon

LEMMA BaseRunFinished ==
    ASSUME Base, RunFinished
    PROVE  Base' /\ Keeps
<1>1. PageMoves
  BY PageNextMoves DEF PageNext
<1>2. page \in PageType /\ page.epoch \in Nat
  BY DEF Base, Typed, PageType
<1>3. Outcome(page) \in Statuses
  BY DEF Outcome, Statuses, Outcomes
<1>4. Keeps
  <2>1. \E status \in Statuses : page' = [page EXCEPT !.running = FALSE, !.stopping = FALSE, !.status = status]
    <3>1. CASE page.stopped = "emergency"
      <4>1. page' = [page EXCEPT !.running = FALSE, !.stopping = FALSE]
        BY <3>1 DEF RunFinished
      <4>2. page.status \in Statuses /\ page' = [page EXCEPT !.running = FALSE, !.stopping = FALSE, !.status = page.status]
        BY <1>2, <4>1 DEF PageType
      <4> QED
        BY <4>2
    <3>2. CASE page.stopped # "emergency"
      <4>1. page' = [page EXCEPT !.running = FALSE, !.stopping = FALSE, !.status = Outcome(page)]
        BY <3>2 DEF RunFinished
      <4> QED
        BY <1>3, <4>1
    <3> QED
      BY <3>1, <3>2
  <2> QED
    BY <1>2, <2>1 DEF Keeps, PageType
<1>5. page'.failed <= page'.finished /\ page.epoch <= page'.epoch /\ page'.epoch <= troubles'
  <2>1. troubles \in Nat /\ troubles' \in Nat /\ troubles <= troubles'
    BY <1>1, PageAssumption DEF Base, Typed, PageMoves, PageAssumption
  <2> QED
    BY <1>2, <1>4, <2>1 DEF Base, Numbered, Keeps
<1>6. requests' = requests /\ replies' \subseteq replies /\ stream' \in Nat \cup {None}
  BY DEF RunFinished
<1> QED
  BY <1>1, <1>4, <1>5, <1>6, BasePage, Zenon DEF Keeps

LEMMA BaseReload ==
    ASSUME Base, Reload
    PROVE  Base'
<1>1. PageMoves
  BY PageNextMoves DEF PageNext
<1>2. page \in PageType /\ page.epoch \in Nat /\ page.epoch <= troubles /\ troubles \in Nat /\ troubles' = troubles + 1
  BY PageAssumption DEF Base, Typed, Numbered, PageType, Reload, Trouble, PageAssumption
<1> DEFINE n == page.epoch + 1
<1>3. page' = [page EXCEPT !.running = FALSE, !.stopping = FALSE, !.status = "idle", !.epoch = n, !.sawRunStart = FALSE,
                !.passed = None, !.finished = 0, !.failed = 0, !.expected = None, !.stopped = None,
                !.verdicts = [t \in Ids |-> ""]]
  BY DEF Reload
<1>4. n \in Nat /\ page.epoch <= n /\ n <= troubles'
  BY <1>2
<1> HIDE DEF n
<1>5. page' \in PageType /\ page'.of = page.of /\ page'.epoch = n /\ page'.failed = 0 /\ page'.finished = 0
  BY <1>2, <1>3, <1>4 DEF PageType, Statuses, Verdict
<1>6. page'.failed <= page'.finished /\ page.epoch <= page'.epoch /\ page'.epoch <= troubles'
  BY <1>4, <1>5
<1>7. requests' = requests /\ replies' \subseteq replies /\ stream' \in Nat \cup {None}
  BY DEF Reload
<1> QED
  BY <1>1, <1>5, <1>6, <1>7, BasePage, Zenon

LEMMA BaseStutters ==
    ASSUME Base, UNCHANGED vars
    PROVE  Base'
<1>1. Typed'
  BY DEF Base, Typed, AtTest, Catalog, IsChild, vars
<1>2. Numbered' /\ Fresh' /\ Safings'
  BY DEF Base, Numbered, Fresh, Safings, vars
<1> QED
  BY <1>1, <1>2 DEF Base

LEMMA BaseStep ==
    Base /\ [Next]_vars => Base'
<1> SUFFICES ASSUME Base, [Next]_vars PROVE Base'
  OBVIOUS
<1>1. ASSUME NEW r \in requests, ServeRun(r) \/ ServeStop(r) \/ ServeEmergency(r) \/ ServeSafe(r) PROVE Base'
  BY <1>1, BaseServeRun, BaseServeStop, BaseServeSafety
<1>2. ASSUME NEW s \in safing, SafeEnds(s) PROVE Base'
  BY <1>2, BaseSafeEnds
<1>3. CASE ChildNext
  BY <1>3, BaseChild
<1>4. CASE PageNext
  BY <1>4, BaseClickRun, BaseButtons, BaseTakeReply, BaseWatch, BaseRunFinished, BaseReload DEF PageNext
<1>5. CASE Quiet \/ UNCHANGED vars
  BY <1>5, BaseStutters DEF Quiet
<1> QED
  BY <1>1, <1>2, <1>3, <1>4, <1>5 DEF Next, ChildNext, PageNext

\* Whatever the page is told and in whatever order, it stays a page: what is on
\* its way is of its forms and of its runs, none is asked for twice, and what a
\* rig was safed after is over (the page's run.js and model/run.js, and the console's main.cpp).
LEMMA BaseAlways ==
    Spec => []Base
<1> QED
  BY BaseInit, BaseStep, PTL DEF Spec

\* An emergency's --safe never runs beside the run it was pressed for, and one that
\* is answered with the run killed has ended that run (README.md of the console).
THEOREM KillsComeFirst ==
    Spec => []KilledBeforeSafed
<1>1. Base => KilledBeforeSafed
  BY DEF Base, Safings, KilledBeforeSafed
<1> QED
  BY <1>1, BaseAlways, PTL

LEMMA AskingStep ==
    ASSUME Base, Asking, [Next]_vars
    PROVE  Asking'
<1>1. IsChild(child)
  BY DEF Base, Typed
<1>2. ASSUME NEW r \in requests, ServeRun(r) PROVE Asking'
  <2>1. CASE child.alive
    BY <1>2, <2>1 DEF ServeRun, Asking
  <2>2. CASE ~child.alive
    <3>1. ~FormRefused(r.form)
      BY <1>2 DEF ServeRun, Base, Fresh
    <3>2. child' = [Gone EXCEPT !.alive = TRUE, !.form = r.form, !.of = r.of, !.stage = "parse",
                                !.options = ParseOptions(BuildRunCommand(Selection(r.form), Settings(r.form)))]
      BY <1>2, <2>2 DEF ServeRun
    <3>3. child'.form = r.form /\ child'.options = ParseOptions(BuildRunCommand(Selection(r.form), Settings(r.form)))
      BY <3>2 DEF Gone
    <3> QED
      BY <3>1, <3>3 DEF Asking, CommandOf
  <2> QED
    BY <2>1, <2>2
<1>3. ASSUME NEW r \in requests, ServeStop(r) PROVE Asking'
  <2>1. child' \in {child, [child EXCEPT !.stop = TRUE]}
    BY <1>3 DEF ServeStop
  <2>2. child'.stage = child.stage /\ child'.form = child.form /\ child'.options = child.options
    BY <1>1, <2>1 DEF IsChild
  <2> QED
    BY <2>2 DEF Asking
<1>4. ASSUME NEW r \in requests, ServeEmergency(r) PROVE Asking'
  <2>1. child' = child \/ child' = [child EXCEPT !.alive = FALSE, !.stage = "gone", !.killed = TRUE]
    BY <1>4 DEF ServeEmergency, Killed
  <2>2. child' = child \/ child'.stage = "gone"
    BY <1>1, <2>1 DEF IsChild
  <2> QED
    BY <2>2 DEF Asking
<1>5. ASSUME child' = child PROVE Asking'
  BY <1>5 DEF Asking
<1>6. CASE ChildNext
  <2>1. child'.stage # "parse"
    <3>1. CASE ChildRefuses \/ ChildEnds \/ ChildDies
      BY <1>1, <3>1 DEF ChildRefuses, ChildEnds, ChildDies, IsChild
    <3>2. CASE ChildBegins
      BY <1>1, <3>2 DEF ChildBegins, IsChild
    <3>3. CASE BeginTest
      BY <1>1, <3>3 DEF BeginTest, IsChild
    <3>4. CASE EndTest
      <4> PICK ok \in BOOLEAN : child' = [child EXCEPT !.stage = "between", !.next = @ + 1, !.passed = @ /\ ok]
        BY <3>4 DEF EndTest
      <4> DEFINE n == child.next + 1
                 p == child.passed /\ ok
      <4>1. child' = [child EXCEPT !.stage = "between", !.next = n, !.passed = p]
        OBVIOUS
      <4> HIDE DEF n, p
      <4> QED
        BY <1>1, <4>1 DEF IsChild
    <3>5. CASE Throws \/ StopsBetween
      <4>1. child' = [child EXCEPT !.stage = "ending", !.passed = FALSE]
        BY <3>5 DEF Throws, StopsBetween
      <4> QED
        BY <1>1, <4>1 DEF IsChild
    <3>6. CASE PassEnds
      <4>1. child' = [child EXCEPT !.stage = "ending"] \/ child' = [child EXCEPT !.pass = @ + 1, !.next = 1]
        BY <3>6 DEF PassEnds
      <4>2. child.stage = "between"
        BY <3>6 DEF PassEnds
      <4> QED
        BY <1>1, <4>1, <4>2 DEF IsChild
    <3> QED
      BY <1>6, <3>1, <3>2, <3>3, <3>4, <3>5, <3>6 DEF ChildNext
  <2> QED
    BY <2>1 DEF Asking
<1>7. CASE PageNext
  BY <1>5, <1>7, PageNextMoves DEF PageMoves
<1>8. CASE Quiet \/ UNCHANGED vars
  BY <1>5, <1>8 DEF Quiet, vars
<1>9. ASSUME NEW s \in safing, SafeEnds(s) PROVE Asking'
  BY <1>5, <1>9 DEF SafeEnds
<1>10. ASSUME NEW r \in requests, ServeSafe(r) PROVE Asking'
  BY <1>5, <1>10 DEF ServeSafe
<1> QED
  BY <1>2, <1>3, <1>4, <1>6, <1>7, <1>8, <1>9, <1>10 DEF Next, ChildNext, PageNext

\* The options of a run are those of the form that was clicked: its tests, as
\* often as it says, to and from the files it names, and nothing else; what the
\* page lets through is refused only for criteria the run was not built with or
\* a number past its 64 bits (catalog.js and run.js to cli.hpp).
THEOREM RunsAsAsked ==
    Spec => []RunsWhatWasAsked
<1>1. Init => Asking
  <2> SUFFICES ASSUME child = Gone PROVE Asking
    BY DEF Init
  <2>1. child.stage = "gone"
    BY DEF Gone
  <2> QED
    BY <2>1 DEF Asking
<1>2. Base /\ Asking /\ [Next]_vars => Asking'
  BY AskingStep
<1>3. Base /\ Asking => RunsWhatWasAsked
  <2> SUFFICES ASSUME Base, Asking, child.stage = "parse" PROVE RunsWhatWasAsked
    BY DEF RunsWhatWasAsked
  <2>1. child.form \in Forms /\ ~FormRefused(child.form) /\ child.options = ParseOptions(CommandOf(child.form))
    BY DEF Base, Typed, IsChild, Asking
  <2>2. /\ child.options = Refused <=> RefusedByRun(child.form)
        /\ ~RefusedByRun(child.form) => AskedOf(child.form, child.options)
    BY <2>1, ParsedRight
  <2> QED
    BY <2>2, Zenon DEF RunsWhatWasAsked, AskedOf, RefusedByRun
<1> QED
  BY <1>1, <1>2, <1>3, BaseAlways, PTL DEF Spec

-----------------------------------------------------------------------------
(* What the run says: every line in its place, and every test of every pass. *)

LEMMA LineSaid ==
    ASSUME Base, NEW x \in LineType, lines' = lines \o <<x>>
    PROVE  /\ Len(lines) \in Nat /\ lines' \in Seq(LineType) /\ Len(lines') = Len(lines) + 1 /\ lines'[Len(lines) + 1] = x
           /\ \A i \in 1..Len(lines) : lines'[i] = lines[i] /\ lines[i] \in LineType
           /\ DOMAIN lines = 1..Len(lines) /\ DOMAIN lines' = 1..(Len(lines) + 1)
           /\ lines' # <<>> /\ (lines = <<>> <=> Len(lines) = 0)
<1>1. lines \in Seq(LineType)
  BY DEF Base, Typed
<1>2. /\ Len(lines) \in Nat /\ lines' \in Seq(LineType) /\ Len(lines') = Len(lines) + 1 /\ lines'[Len(lines) + 1] = x
      /\ \A i \in 1..Len(lines) : lines'[i] = lines[i] /\ lines[i] \in LineType
      /\ DOMAIN lines = 1..Len(lines) /\ DOMAIN lines' = 1..(Len(lines) + 1)
  BY <1>1, OneMoreSaid
<1>3. lines' # <<>> /\ (lines = <<>> <=> Len(lines) = 0)
  BY <1>1, <1>2, EmptySeq
<1> QED
  BY <1>2, <1>3

LEMMA LinesGrow ==
    ASSUME Base, LinesInOrder, child.alive = TRUE, NEW x \in LineType, lines' = lines \o <<x>>,
           Catalog' = Catalog \/ lines = <<>>, Fits(x, Len(lines) + 1)
    PROVE  LinesInOrder'
<1>0. PICK n \in Nat : n = Len(lines) + 1
  BY LineSaid
<1>1. /\ Len(lines) \in Nat /\ Len(lines') = n /\ lines'[n] = x
      /\ \A i \in 1..Len(lines) : lines'[i] = lines[i]
      /\ DOMAIN lines = 1..Len(lines) /\ DOMAIN lines' = 1..n
      /\ (lines = <<>> <=> Len(lines) = 0)
  BY <1>0, LineSaid
<1>2. ASSUME NEW i \in 1..Len(lines) PROVE InPlace(i)'
  <2>1. i - 1 \in 1..Len(lines) \/ i = 1
    BY <1>1
  <2>2. InPlace(i) /\ lines'[i] = lines[i] /\ Catalog' = Catalog
    BY <1>1 DEF LinesInOrder
  <2>3. lines[i].kind # "stderr" /\ lines[i].kind # "runEnd"
    BY <2>2 DEF InPlace
  <2>4. i > 1 => lines'[i - 1] = lines[i - 1]
    BY <1>1, <2>1
  <2> QED
    BY <2>2, <2>3, <2>4 DEF InPlace
<1>3. InPlace(n)'
  <2>1. n > 1 => lines'[n - 1] = lines[n - 1]
    BY <1>0, <1>1
  <2>2. Fits(x, n)
    BY <1>0
  <2> QED
    BY <1>1, <2>1, <2>2 DEF InPlace, Fits
<1>4. \A i \in DOMAIN lines' : i \in 1..Len(lines) \/ i = n
  BY <1>0, <1>1
<1> QED
  BY <1>2, <1>3, <1>4 DEF LinesInOrder

LEMMA EndedStays ==
    ASSUME Base, NEW x \in LineType, lines' = lines \o <<x>>
    PROVE  /\ \A t : Ended(t) => Ended(t)'
           /\ x.kind = "testEnd" => Ended(x.test)'
           /\ Clean(Len(lines)) /\ (x.kind = "testEnd" => x.ok = TRUE) => Clean(Len(lines))'
           /\ lines # <<>> => (Begun' <=> Begun)
<1>1. /\ Len(lines) \in Nat /\ Len(lines') = Len(lines) + 1 /\ lines'[Len(lines) + 1] = x
      /\ \A i \in 1..Len(lines) : lines'[i] = lines[i]
      /\ DOMAIN lines = 1..Len(lines) /\ DOMAIN lines' = 1..(Len(lines) + 1)
      /\ lines' # <<>> /\ (lines = <<>> <=> Len(lines) = 0)
  BY LineSaid
<1>2. \A t : Ended(t) => Ended(t)'
  BY <1>1 DEF Ended
<1>3. x.kind = "testEnd" => Ended(x.test)'
  BY <1>1 DEF Ended
<1>4. Clean(Len(lines)) /\ (x.kind = "testEnd" => x.ok = TRUE) => Clean(Len(lines))'
  BY <1>1 DEF Clean
<1>5. lines # <<>> => (Begun' <=> Begun)
  BY <1>1 DEF Begun
<1> QED
  BY <1>2, <1>3, <1>4, <1>5

LEMMA CatalogFacts ==
    /\ Catalog \in Seq(Ids) /\ Len(Catalog) \in Nat /\ DOMAIN Catalog = 1..Len(Catalog)
    /\ \A i \in 1..Len(Catalog) : Catalog[i] \in Ids /\ Catalog[i] \in ToSet(Catalog)
<1>1. Catalog \in Seq(Ids)
  BY SelectedSeq DEF Catalog
<1>2. Len(Catalog) \in Nat /\ DOMAIN Catalog = 1..Len(Catalog)
  BY <1>1, LenProperties
<1>3. \A i \in 1..Len(Catalog) : Catalog[i] \in Ids
  BY <1>1, ElementOfSeq
<1> QED
  BY <1>1, <1>2, <1>3 DEF ToSet

LEMMA OptionsKept ==
    ASSUME child'.options = child.options
    PROVE  Catalog' = Catalog /\ Endless(child'.options) = Endless(child.options) /\ PassesOf(child'.options) = PassesOf(child.options)
BY DEF Catalog

LEMMA StepsCount ==
    ASSUME Base, Counted
    PROVE  /\ Steps \in Nat /\ Len(Catalog) \in Nat /\ child.pass \in Nat /\ child.next \in Nat
           /\ child.next = Len(Catalog) + 1 => Steps = child.pass * Len(Catalog)
<1>1. child.pass \in Nat /\ child.next \in Nat /\ Len(Catalog) \in Nat /\ child.pass > 0 /\ child.next > 0
  BY CatalogFacts DEF Base, Typed, IsChild, Counted
<1>2. \A a, b \in Nat : a > 0 => (a - 1) * b \in Nat /\ (a - 1) * b + b = a * b
  OBVIOUS
<1> DEFINE m == (child.pass - 1) * Len(Catalog)
<1>3. m \in Nat /\ m + Len(Catalog) = child.pass * Len(Catalog) /\ Steps = m + (child.next - 1)
  BY <1>1, <1>2 DEF Steps
<1> HIDE DEF m
<1> QED
  BY <1>1, <1>3

\* A run that is over, or was never there, stays what it was.
LEMMA RunGone ==
    ASSUME Base, RunInv, lines' = lines, child'.options = child.options, child'.pass = child.pass, child'.next = child.next,
           \/ child'.alive = child.alive /\ child'.stage = child.stage /\ child'.passed = child.passed
           \/ child'.alive = FALSE /\ child'.stage = "gone"
    PROVE  RunInv'
<1>1. Catalog' = Catalog
  BY OptionsKept
<1>2. (\A t : Ended(t)' <=> Ended(t)) /\ Clean(Len(lines))' = Clean(Len(lines)) /\ (Begun' <=> Begun)
  BY DEF Ended, Clean, Begun
<1>3. LinesInOrder'
  <2>1. child.alive = FALSE => child'.alive = FALSE
    OBVIOUS
  <2>2. \A i \in DOMAIN lines : InPlace(i)'
    BY <1>1, <2>1 DEF RunInv, LinesInOrder, InPlace
  <2> QED
    BY <2>2 DEF LinesInOrder
<1>4. Stage'
  BY <1>1, <1>2 DEF RunInv, Stage, Stepped, Steps, Counted
<1>5. Passing'
  BY <1>1, <1>2 DEF RunInv, Passing, AllSaid, SaidAll
<1> QED
  BY <1>3, <1>4, <1>5 DEF RunInv

LEMMA OptionsPutAway ==
    ASSUME NEW o
    PROVE  LET k == [m \in {"Selection", "Repeat", "UntilFailure"} |-> o[m]] IN
           Selected(k, Tests) = Selected(o, Tests) /\ Endless(k) = Endless(o) /\ PassesOf(k) = PassesOf(o)
<1> DEFINE k == [m \in {"Selection", "Repeat", "UntilFailure"} |-> o[m]]
<1>1. k.Selection = o.Selection /\ k.Repeat = o.Repeat /\ k.UntilFailure = o.UntilFailure
  OBVIOUS
<1> HIDE DEF k
<1>2. Selected(k, Tests) = Selected(o, Tests)
  BY <1>1 DEF Selected
<1>3. Endless(k) = Endless(o)
  BY <1>1 DEF Endless
<1>4. PassesOf(k) = PassesOf(o)
  BY <1>1, <1>3, Zenon DEF PassesOf
<1> QED
  BY <1>2, <1>3, <1>4 DEF k

\* A run that was asked for by a form can count what it has to do.
LEMMA AskedCounts ==
    ASSUME NEW f \in Forms, ~FormRefused(f), ParseOptions(CommandOf(f)) # Refused
    PROVE  LET o == ParseOptions(CommandOf(f)) IN
           /\ ToSet(Selected(o, Tests)) = f.ticked /\ Len(Selected(o, Tests)) \in Nat /\ Len(Selected(o, Tests)) > 0
           /\ PassesOf(o) \in Nat /\ PassesOf(o) > 0
           /\ ExpectedTests(f) = IF Endless(o) THEN None ELSE Len(Selected(o, Tests)) * PassesOf(o)
<1> DEFINE o == ParseOptions(CommandOf(f))
<1>1. ~RefusedByRun(f) /\ AskedOf(f, o)
  BY ParsedRight
<1> HIDE DEF o
<1>2. /\ Selected(o, Tests) = SelectedIds(f.ticked)
      /\ Endless(o) <=> (f.mode = "until" /\ f.count = None)
      /\ ~Endless(o) => PassesOf(o) = Passes(f)
  BY <1>1, Zenon DEF AskedOf
<1>3. /\ SelectedIds(f.ticked) \in Seq(Ids) /\ ToSet(SelectedIds(f.ticked)) = f.ticked /\ SelectedIds(f.ticked) # <<>>
  BY SelectionFacts
<1>4. Len(SelectedIds(f.ticked)) \in Nat /\ Len(SelectedIds(f.ticked)) > 0 /\ Len(SelectedIds(f.ticked)) = Cardinality(f.ticked)
  <2>1. Len(SelectedIds(f.ticked)) = Cardinality(f.ticked)
    BY ExpectedIsNumber DEF SelectedIds
  <2> QED
    BY <1>3, <2>1, LenProperties, EmptySeq
<1>5. f.mode \in {"once", "times", "until"} /\ f.count \in {None, 2, Text, Huge} /\ (f.mode = "once" => f.count = None)
  BY FormFacts
<1>6. None \notin Nat /\ MaxPasses \in Nat /\ MaxPasses > 0 /\ None # 2
  BY PageAssumption DEF PageAssumption
<1>7. CASE Endless(o)
  <2>1. f.mode = "until" /\ f.count = None
    BY <1>2, <1>7
  <2>2. Passes(f) = None
    BY <2>1 DEF Passes
  <2>3. ExpectedTests(f) = None
    BY <1>6, <2>2 DEF ExpectedTests
  <2>4. PassesOf(o) = MaxPasses
    BY <1>7 DEF PassesOf, Endless
  <2> QED
    BY <1>2, <1>3, <1>4, <1>6, <1>7, <2>3, <2>4, Zenon DEF o
<1>8. CASE ~Endless(o)
  <2>1. (f.count # Text /\ f.count # Huge) \/ f.mode = "once"
    BY <1>1, <1>5 DEF FormRefused, RefusedByRun
  <2>2. f.mode # "once" => f.count = 2
    BY <1>2, <1>5, <1>8, <2>1 DEF FormRefused
  <2>3. Passes(f) \in {1, 2}
    BY <2>2 DEF Passes
  <2>4. Passes(f) \in Nat /\ Passes(f) > 0
    BY <2>3
  <2>5. ExpectedTests(f) = Cardinality(f.ticked) * Passes(f)
    BY <2>4 DEF ExpectedTests
  <2>6. PassesOf(o) = Passes(f)
    BY <1>2, <1>8
  <2> QED
    BY <1>2, <1>3, <1>4, <1>8, <2>4, <2>5, <2>6, Zenon DEF o
<1> QED
  BY <1>7, <1>8

LEMMA RunRefuses ==
    ASSUME Base, RunInv, ChildRefuses
    PROVE  RunInv'
<1> DEFINE x == Line("stderr", None, FALSE)
<1>1. x \in LineType /\ x.kind = "stderr"
  BY DEF Line, LineType
<1>2. /\ lines' = lines \o <<x>> /\ child' = [child EXCEPT !.alive = FALSE, !.stage = "gone"]
      /\ child.stage = "parse" /\ child.alive
  BY DEF ChildRefuses, Say
<1> HIDE DEF x
<1>3. IsChild(child) /\ child.alive = TRUE /\ lines = <<>> /\ LinesInOrder
  BY <1>2 DEF Base, Typed, IsChild, RunInv, Stage
<1>4. child'.alive = FALSE /\ child'.stage = "gone"
  BY <1>2, <1>3 DEF IsChild
<1>5. Len(lines') = 1 /\ lines'[1] = x /\ Len(lines) = 0 /\ lines' # <<>>
  BY <1>1, <1>2, <1>3, LineSaid
<1>6. LinesInOrder'
  <2>1. Fits(x, Len(lines) + 1)
    BY <1>1, <1>4, <1>5 DEF Fits
  <2> QED
    BY <1>1, <1>2, <1>3, <2>1, LinesGrow
<1>7. ~Begun'
  BY <1>1, <1>5 DEF Begun
<1>8. Stage'
  BY <1>4, <1>7 DEF Stage, Stepped
<1>9. Passing'
  BY <1>4, <1>7 DEF Passing
<1> QED
  BY <1>6, <1>8, <1>9 DEF RunInv

LEMMA RunBegins ==
    ASSUME Base, Asking, RunInv, ChildBegins
    PROVE  RunInv'
<1> DEFINE x == Line("runStart", None, TRUE)
           k == [m \in {"Selection", "Repeat", "UntilFailure"} |-> child.options[m]]
<1>1. x \in LineType /\ x.kind = "runStart"
  BY DEF Line, LineType
<1>2. /\ lines' = lines \o <<x>>
      /\ child' = [child EXCEPT !.stage = "between", !.pass = 1, !.next = 1, !.form = Blank, !.options = k]
      /\ child.stage = "parse" /\ child.alive /\ child.options # Refused
  BY DEF ChildBegins, Say
<1>3. Selected(k, Tests) = Catalog /\ Endless(k) = Endless(child.options) /\ PassesOf(k) = PassesOf(child.options)
  BY OptionsPutAway DEF Catalog
<1> HIDE DEF x, k
<1>4. IsChild(child) /\ child.alive = TRUE /\ lines = <<>> /\ LinesInOrder
  BY <1>2 DEF Base, Typed, IsChild, RunInv, Stage
<1>5. /\ child'.alive = TRUE /\ child'.stage = "between" /\ child'.pass = 1 /\ child'.next = 1
      /\ child'.options = k /\ child'.passed = child.passed
  BY <1>2, <1>4 DEF IsChild
<1>6. Len(lines') = 1 /\ lines'[1] = x /\ Len(lines) = 0 /\ lines' # <<>>
  BY <1>1, <1>2, <1>4, LineSaid
<1>7. LinesInOrder'
  <2>1. Fits(x, Len(lines) + 1)
    BY <1>1, <1>6 DEF Fits
  <2> QED
    BY <1>1, <1>2, <1>4, <2>1, LinesGrow
<1>8. Catalog' = Catalog
  BY <1>3, <1>5 DEF Catalog
<1>9. /\ child.form \in Forms /\ ~FormRefused(child.form) /\ child.options = ParseOptions(CommandOf(child.form))
  BY <1>2, <1>4 DEF Asking, IsChild
<1>10. /\ Len(Catalog) \in Nat /\ Len(Catalog) > 0 /\ PassesOf(child.options) \in Nat /\ PassesOf(child.options) > 0
  BY <1>2, <1>9, AskedCounts DEF Catalog
<1>11. Counted'
  <2>1. /\ Len(Catalog') > 0 /\ PassesOf(child'.options) \in Nat /\ PassesOf(child'.options) > 0
    BY <1>3, <1>5, <1>8, <1>10
  <2>2. 1 <= PassesOf(child'.options)
    BY <2>1
  <2> QED
    BY <1>5, <2>1, <2>2 DEF Counted
<1>12. Steps' = 0
  <2>1. Steps' = (1 - 1) * Len(Catalog) + (1 - 1)
    BY <1>5, <1>8 DEF Steps
  <2> QED
    BY <1>10, <2>1
<1>13. Begun'
  BY <1>1, <1>6 DEF Begun
<1>14. Stepped'
  <2>1. \A m \in 1..Len(Catalog') : ~(m < 1)
    OBVIOUS
  <2>2. 1 > 1 => FALSE
    OBVIOUS
  <2>3. child'.next <= Len(Catalog') + 1
    BY <1>5, <1>8, <1>10
  <2>4. lines'[Len(lines')].kind # "testStart" /\ Len(lines') = 2 * Steps' + 1
    BY <1>1, <1>6, <1>12
  <2>5. \A m \in 1..Len(Catalog') : child'.pass > 1 \/ m < child'.next => Ended(Catalog[m])'
    BY <1>5, <2>1, <2>2
  <2> QED
    BY <1>5, <2>3, <2>4, <2>5 DEF Stepped
<1>15. Clean(Len(lines))'
  <2>1. Clean(Len(lines))
    BY <1>6 DEF Clean
  <2> QED
    BY <1>1, <1>2, <2>1, EndedStays
<1>16. Stage'
  BY <1>5, <1>11, <1>13, <1>14, <1>15 DEF Stage
<1>17. Passing'
  BY <1>1, <1>5, <1>6 DEF Passing
<1> QED
  BY <1>7, <1>16, <1>17 DEF RunInv

LEMMA RunBeginsTest ==
    ASSUME Base, RunInv, BeginTest
    PROVE  RunInv'
<1> DEFINE t == Catalog[child.next]
           x == Line("testStart", t, TRUE)
<1>1. IsChild(child) /\ LinesInOrder /\ Stage
  BY DEF Base, Typed, RunInv
<1>2. /\ lines' = lines \o <<x>> /\ child' = [child EXCEPT !.stage = "test"]
      /\ child.alive /\ child.stage = "between" /\ child.next <= Len(Catalog)
  BY DEF BeginTest, Say, Catalog
<1>3. Counted /\ Begun /\ Len(lines) = 2 * Steps + 1 /\ lines # <<>>
  BY <1>1, <1>2 DEF Stage, Stepped, Begun
<1>4. Steps \in Nat /\ child.next \in Nat /\ child.next > 0 /\ Len(Catalog) \in Nat
  BY <1>3, StepsCount DEF Counted
<1>5. t \in Ids /\ t \in ToSet(Catalog)
  BY <1>2, <1>4, CatalogFacts
<1>6. x \in LineType /\ x.kind = "testStart" /\ x.test = t
  BY <1>5 DEF Line, LineType
<1>7. /\ child'.alive = child.alive /\ child'.stage = "test" /\ child'.pass = child.pass /\ child'.next = child.next
      /\ child'.options = child.options /\ child'.passed = child.passed /\ child.alive = TRUE
  BY <1>1, <1>2 DEF IsChild
<1>8. Catalog' = Catalog /\ Steps' = Steps
  BY <1>7, OptionsKept DEF Steps
<1> HIDE DEF x, t
<1>9. Len(lines') = Len(lines) + 1 /\ lines'[Len(lines) + 1] = x /\ lines' # <<>>
  BY <1>2, <1>6, LineSaid
<1>10. LinesInOrder'
  <2>1. Len(lines) + 1 = 2 * (Steps + 1) /\ Steps + 1 \in Nat /\ Len(lines) + 1 # 1
    BY <1>3, <1>4
  <2>2. Even(Len(lines) + 1)
    BY <2>1, Zenon DEF Even
  <2>3. Fits(x, Len(lines) + 1)
    BY <1>5, <1>6, <1>8, <2>1, <2>2 DEF Fits
  <2> QED
    BY <1>1, <1>2, <1>6, <1>7, <1>8, <2>3, LinesGrow
<1>11. (\A u : Ended(u) => Ended(u)') /\ (child.passed = TRUE => Clean(Len(lines))') /\ Begun'
  BY <1>1, <1>2, <1>3, <1>6, <1>7, EndedStays DEF Stage
<1>12. Stage'
  <2>1. Counted'
    BY <1>3, <1>7, <1>8 DEF Counted
  <2>2. \A m \in 1..Len(Catalog) : child.pass > 1 \/ m < child.next => Ended(Catalog[m])'
    BY <1>1, <1>2, <1>8, <1>11 DEF Stage, Stepped
  <2>3. Len(lines') = 2 * Steps + 2
    BY <1>3, <1>4, <1>9
  <2>4. Stepped'
    BY <1>2, <1>6, <1>7, <1>8, <1>9, <2>2, <2>3 DEF Stepped, t
  <2> QED
    BY <1>7, <1>11, <2>1, <2>4 DEF Stage
<1>13. Passing'
  BY <1>6, <1>7, <1>9 DEF Passing
<1> QED
  BY <1>10, <1>12, <1>13 DEF RunInv

LEMMA RunEndsTest ==
    ASSUME Base, RunInv, EndTest
    PROVE  RunInv'
<1>1. IsChild(child) /\ LinesInOrder /\ Stage
  BY DEF Base, Typed, RunInv
<1>2. PICK ok \in BOOLEAN :
        /\ lines' = lines \o <<Line("testEnd", Catalog[child.next], ok)>>
        /\ child' = [child EXCEPT !.stage = "between", !.next = @ + 1, !.passed = @ /\ ok]
  BY DEF EndTest, Say, Catalog
<1>0. PICK t \in Ids : t = Catalog[child.next]
  <2>1. child.next \in 1..Len(Catalog)
    BY <1>1, StepsCount DEF EndTest, Stage, Stepped, Counted
  <2> QED
    BY <2>1, CatalogFacts
<1> DEFINE x == Line("testEnd", t, ok)
           p == child.passed /\ ok
           n == child.next + 1
<1>3. lines' = lines \o <<x>> /\ child' = [child EXCEPT !.stage = "between", !.next = n, !.passed = p] /\ child.stage = "test"
  BY <1>0, <1>2 DEF EndTest
<1>4. /\ Counted /\ Begun /\ Len(lines) = 2 * Steps + 2 /\ lines # <<>> /\ child.next <= Len(Catalog)
      /\ lines[Len(lines)].kind = "testStart" /\ lines[Len(lines)].test = t
  BY <1>0, <1>1, <1>3 DEF Stage, Stepped, Begun
<1>5. Steps \in Nat /\ child.next \in Nat /\ child.next > 0 /\ Len(Catalog) \in Nat /\ child.pass \in Nat
  BY <1>4, StepsCount DEF Counted
<1>7. x \in LineType /\ x.kind = "testEnd" /\ x.test = t /\ x.ok = ok
  BY DEF Line, LineType
<1>8. p \in BOOLEAN /\ (p = TRUE => child.passed = TRUE /\ ok = TRUE) /\ child.passed \in BOOLEAN
  BY <1>1 DEF IsChild
<1>9. n \in Nat /\ n > 0 /\ n <= Len(Catalog) + 1
  BY <1>4, <1>5
<1> HIDE DEF p, n
<1>10. /\ child'.alive = child.alive /\ child'.stage = "between" /\ child'.pass = child.pass /\ child'.next = n
       /\ child'.options = child.options /\ child'.passed = p
  BY <1>1, <1>3 DEF IsChild
<1>11. child.alive = TRUE
  BY <1>1, <1>3 DEF Stage
<1>12. Catalog' = Catalog /\ Steps' = Steps + 1
  <2>1. Catalog' = Catalog
    BY <1>10, OptionsKept
  <2> DEFINE a == (child.pass - 1) * Len(Catalog)
  <2>2. a \in Nat
    <3>1. \A u, v \in Nat : u * v \in Nat
      OBVIOUS
    <3>2. child.pass - 1 \in Nat
      BY <1>4, <1>5 DEF Counted
    <3> QED
      BY <1>5, <3>1, <3>2
  <2>3. Steps = a + (child.next - 1) /\ Steps' = a + (n - 1)
    BY <1>10, <2>1 DEF Steps
  <2> HIDE DEF a
  <2> QED
    BY <1>5, <2>1, <2>2, <2>3 DEF n
<1> HIDE DEF x
<1>13. Len(lines') = Len(lines) + 1 /\ lines'[Len(lines) + 1] = x /\ lines' # <<>> /\ Len(lines) \in Nat
  BY <1>3, <1>7, LineSaid
<1>14. LinesInOrder'
  <2>1. Len(lines) + 1 = 2 * (Steps + 1) + 1 /\ Steps + 1 \in Nat /\ Len(lines) + 1 > 1 /\ (Len(lines) + 1) - 1 = Len(lines)
    BY <1>4, <1>5
  <2>2. Odd(Len(lines) + 1)
    BY <2>1, Zenon DEF Odd
  <2>3. Len(lines) + 1 # 1
    BY <2>1
  <2>4. Fits(x, Len(lines) + 1)
    BY <1>4, <1>7, <2>1, <2>2, <2>3 DEF Fits
  <2> QED
    BY <1>1, <1>3, <1>7, <1>11, <1>12, <2>4, LinesGrow
<1>15. (\A u : Ended(u) => Ended(u)') /\ Ended(t)' /\ (p = TRUE => Clean(Len(lines))') /\ Begun'
  BY <1>1, <1>3, <1>4, <1>7, <1>8, <1>11, EndedStays DEF Stage
<1>16. Stage'
  <2>1. Counted'
    BY <1>4, <1>9, <1>10, <1>12 DEF Counted
  <2>2. ASSUME NEW m \in 1..Len(Catalog), child.pass > 1 \/ m < n PROVE Ended(Catalog[m])'
    <3>1. child.pass > 1 \/ m < child.next => Ended(Catalog[m])
      BY <1>1, <1>3 DEF Stage, Stepped
    <3>2. m < child.next \/ child.pass > 1 \/ m = child.next
      BY <1>5, <2>2 DEF n
    <3>3. CASE m = child.next
      <4>1. Catalog'[m] = t
        BY <1>0, <1>12, <3>3
      <4> QED
        BY <1>15, <4>1
    <3> QED
      BY <1>12, <1>15, <3>1, <3>2, <3>3
  <2>3. Len(lines') = 2 * Steps' + 1 /\ lines'[Len(lines')].kind # "testStart"
    BY <1>4, <1>5, <1>7, <1>12, <1>13
  <2>4. Stepped'
    BY <1>9, <1>10, <1>12, <2>2, <2>3 DEF Stepped
  <2> QED
    BY <1>10, <1>11, <1>15, <2>1, <2>4 DEF Stage
<1>17. Passing'
  BY <1>7, <1>10, <1>13 DEF Passing
<1> QED
  BY <1>14, <1>16, <1>17 DEF RunInv

LEMMA RunTurns ==
    ASSUME Base, RunInv, Throws \/ StopsBetween
    PROVE  RunInv'
<1>1. IsChild(child) /\ LinesInOrder /\ Stage
  BY DEF Base, Typed, RunInv
<1>2. /\ lines' = lines /\ child' = [child EXCEPT !.stage = "ending", !.passed = FALSE]
      /\ child.alive /\ child.stage \in {"test", "between"}
  BY DEF Throws, StopsBetween
<1>3. /\ child'.alive = child.alive /\ child'.stage = "ending" /\ child'.pass = child.pass /\ child'.next = child.next
      /\ child'.options = child.options /\ child'.passed = FALSE /\ child.alive = TRUE
  BY <1>1, <1>2 DEF IsChild
<1>4. Catalog' = Catalog
  BY <1>3, OptionsKept
<1>5. LinesInOrder'
  <2>1. \A i \in DOMAIN lines : InPlace(i)'
    BY <1>1, <1>2, <1>3, <1>4 DEF LinesInOrder, InPlace
  <2> QED
    BY <1>2, <2>1 DEF LinesInOrder
<1>6. Begun /\ (Begun' <=> Begun) /\ Counted
  BY <1>1, <1>2 DEF Begun, Stage
<1>7. Counted'
  BY <1>3, <1>4, <1>6 DEF Counted
<1>8. Stage'
  BY <1>3, <1>6, <1>7 DEF Stage, Stepped
<1>9. lines # <<>> /\ lines[Len(lines)].kind # "runEnd"
  <2>1. lines # <<>> /\ lines \in Seq(LineType)
    BY <1>6 DEF Begun, Base, Typed
  <2>2. Len(lines) \in DOMAIN lines
    BY <2>1, LenProperties, EmptySeq
  <2> QED
    BY <1>1, <1>3, <2>1, <2>2 DEF LinesInOrder, InPlace
<1>10. Passing'
  BY <1>2, <1>3, <1>9 DEF Passing
<1> QED
  BY <1>5, <1>8, <1>10 DEF RunInv

LEMMA RunEndsPass ==
    ASSUME Base, RunInv, PassEnds
    PROVE  RunInv'
<1>1. IsChild(child) /\ LinesInOrder /\ Stage
  BY DEF Base, Typed, RunInv
<1> DEFINE n == child.pass + 1
           over == \/ child.pass = PassesOf(child.options) /\ ~Endless(child.options)
                   \/ ~child.passed /\ child.options.UntilFailure
<1>2. /\ lines' = lines /\ child.alive /\ child.stage = "between" /\ child.next > Len(Catalog)
      /\ over => child' = [child EXCEPT !.stage = "ending"]
      /\ ~over => child' = [child EXCEPT !.pass = n, !.next = 1]
  BY DEF PassEnds, Catalog
<1>3. /\ over /\ child.passed = TRUE => child.pass = PassesOf(child.options) /\ ~Endless(child.options)
      /\ ~over /\ ~Endless(child.options) => child.pass # PassesOf(child.options)
  OBVIOUS
<1> HIDE DEF over
<1>4. Counted /\ Begun /\ Len(lines) = 2 * Steps + 1 /\ child.next <= Len(Catalog) + 1 /\ lines[Len(lines)].kind # "testStart"
  BY <1>1, <1>2 DEF Stage, Stepped
<1>5. /\ Len(Catalog) \in Nat /\ child.pass \in Nat /\ child.next \in Nat /\ child.pass > 0
      /\ child.next = Len(Catalog) + 1 => Steps = child.pass * Len(Catalog)
  BY <1>4, StepsCount DEF Counted
<1>6. child.next = Len(Catalog) + 1 /\ Steps = child.pass * Len(Catalog)
  BY <1>2, <1>4, <1>5
<1>7. n \in Nat /\ n > 1 /\ n - 1 = child.pass
  BY <1>5
<1>8. /\ child'.alive = child.alive /\ child'.options = child.options /\ child'.passed = child.passed /\ child.alive = TRUE
      /\ over => child'.stage = "ending" /\ child'.pass = child.pass /\ child'.next = child.next
      /\ ~over => child'.stage = "between" /\ child'.pass = n /\ child'.next = 1
  <2> HIDE DEF n
  <2>1. CASE over
    BY <1>1, <1>2, <2>1 DEF IsChild
  <2>2. CASE ~over
    BY <1>1, <1>2, <2>2 DEF IsChild
  <2> QED
    BY <2>1, <2>2
<1>9. Catalog' = Catalog
  BY <1>8, OptionsKept
<1>10. LinesInOrder'
  <2>1. \A i \in DOMAIN lines : InPlace(i)'
    BY <1>1, <1>2, <1>8, <1>9 DEF LinesInOrder, InPlace
  <2> QED
    BY <1>2, <2>1 DEF LinesInOrder
<1>11. Begun' /\ (\A t : Ended(t)' <=> Ended(t)) /\ (child.passed = TRUE => Clean(Len(lines))')
  BY <1>1, <1>2, <1>4, <1>8 DEF Begun, Ended, Clean, Stage
<1>12. \A m \in 1..Len(Catalog) : Ended(Catalog[m])
  <2>1. \A m \in 1..Len(Catalog) : child.pass > 1 \/ m < child.next => Ended(Catalog[m])
    BY <1>1, <1>2 DEF Stage, Stepped
  <2>2. \A m \in 1..Len(Catalog) : m < child.next
    BY <1>5, <1>6
  <2> QED
    BY <2>1, <2>2
<1>13. lines[Len(lines)].kind # "runEnd"
  <2>1. lines # <<>> /\ lines \in Seq(LineType)
    BY <1>4 DEF Begun, Base, Typed
  <2>2. Len(lines) \in DOMAIN lines
    BY <2>1, LenProperties, EmptySeq
  <2> QED
    BY <1>1, <1>8, <2>1, <2>2 DEF LinesInOrder, InPlace
<1>14. CASE over
  <2>1. Counted'
    BY <1>4, <1>8, <1>9, <1>14 DEF Counted
  <2>2. Stage'
    BY <1>8, <1>11, <1>14, <2>1 DEF Stage, Stepped
  <2>3. child.passed = TRUE => /\ ~Endless(child.options) /\ Len(lines) = SaidAll(1)
    BY <1>3, <1>4, <1>6, <1>14 DEF SaidAll
  <2>4. Passing'
    BY <1>2, <1>4, <1>8, <1>9, <1>11, <1>12, <1>13, <1>14, <2>3 DEF Passing, AllSaid, SaidAll
  <2> QED
    BY <1>10, <2>2, <2>4 DEF RunInv
<1>15. CASE ~over
  <2>1. ~Endless(child.options) => n <= PassesOf(child.options)
    BY <1>3, <1>4, <1>5, <1>15 DEF Counted
  <2>2. Counted'
    BY <1>4, <1>7, <1>8, <1>9, <1>15, <2>1 DEF Counted
  <2>3. Steps' = Steps
    <3>1. Steps' = (n - 1) * Len(Catalog) + (1 - 1)
      BY <1>8, <1>9, <1>15 DEF Steps
    <3>2. child.pass * Len(Catalog) \in Nat
      <4>1. \A u, v \in Nat : u * v \in Nat
        OBVIOUS
      <4> QED
        BY <1>5, <4>1
    <3> QED
      BY <1>6, <1>7, <3>1, <3>2
  <2>4. 1 <= Len(Catalog) + 1
    BY <1>5
  <2>5. Stepped'
    BY <1>2, <1>4, <1>8, <1>9, <1>11, <1>12, <1>15, <2>3, <2>4 DEF Stepped
  <2>6. Stage'
    BY <1>8, <1>11, <1>15, <2>2, <2>5 DEF Stage
  <2>7. Passing'
    BY <1>2, <1>8, <1>13, <1>15 DEF Passing
  <2> QED
    BY <1>10, <2>6, <2>7 DEF RunInv
<1> QED
  BY <1>14, <1>15

LEMMA RunEnds ==
    ASSUME Base, RunInv, ChildEnds
    PROVE  RunInv'
<1>1. IsChild(child) /\ LinesInOrder /\ Stage /\ Passing
  BY DEF Base, Typed, RunInv
<1>2. PICK ok \in {FALSE, child.passed} : lines' = lines \o <<Line("runEnd", None, ok)>>
  BY DEF ChildEnds, Say
<1> DEFINE x == Line("runEnd", None, ok)
<1>3. /\ lines' = lines \o <<x>> /\ child' = [child EXCEPT !.alive = FALSE, !.stage = "gone"]
      /\ child.alive /\ child.stage = "ending"
  BY <1>2 DEF ChildEnds
<1>4. x \in LineType /\ x.kind = "runEnd" /\ x.ok = ok
  <2>1. ok \in BOOLEAN
    BY <1>1 DEF IsChild
  <2> QED
    BY <2>1 DEF Line, LineType
<1> HIDE DEF x
<1>5. /\ child'.alive = FALSE /\ child'.stage = "gone" /\ child'.pass = child.pass /\ child'.next = child.next
      /\ child'.options = child.options /\ child.alive = TRUE
  BY <1>1, <1>3 DEF IsChild
<1>6. Catalog' = Catalog
  BY <1>5, OptionsKept
<1>7. Begun /\ lines # <<>> /\ Counted
  BY <1>1, <1>3 DEF Stage, Begun
<1>8. /\ Len(lines) \in Nat /\ Len(lines') = Len(lines) + 1 /\ lines'[Len(lines) + 1] = x /\ Len(lines) > 0
      /\ lines'[Len(lines)] = lines[Len(lines)] /\ lines' # <<>>
  <2>1. /\ Len(lines) \in Nat /\ Len(lines') = Len(lines) + 1 /\ lines'[Len(lines) + 1] = x /\ Len(lines) # 0
        /\ \A i \in 1..Len(lines) : lines'[i] = lines[i]
    BY <1>3, <1>4, <1>7, LineSaid
  <2>2. Len(lines) > 0 /\ Len(lines) \in 1..Len(lines)
    BY <2>1
  <2> QED
    BY <1>3, <1>4, <2>1, <2>2, LineSaid
<1>9. LinesInOrder'
  <2>1. Len(lines) + 1 > 1 /\ Len(lines) + 1 # 1
    BY <1>8
  <2>2. Fits(x, Len(lines) + 1)
    BY <1>4, <1>5, <2>1 DEF Fits
  <2> QED
    BY <1>1, <1>3, <1>4, <1>5, <1>6, <2>2, LinesGrow
<1>10. (\A t : Ended(t) => Ended(t)') /\ (child.passed = TRUE => Clean(Len(lines))') /\ Begun'
  BY <1>1, <1>3, <1>4, <1>5, <1>7, EndedStays DEF Stage
<1>11. Stage'
  <2>1. Counted'
    BY <1>5, <1>6, <1>7 DEF Counted
  <2> QED
    BY <1>5, <1>10, <2>1 DEF Stage, Stepped
<1>12. Passing'
  <2>1. SUFFICES ASSUME ok = TRUE
                 PROVE  AllSaid' /\ Clean(Len(lines))' /\ Len(lines') = SaidAll(2)' /\ lines'[Len(lines') - 1].kind # "testStart"
    BY <1>4, <1>5, <1>8 DEF Passing
  <2>2. child.passed = TRUE
    BY <2>1
  <2>3. AllSaid /\ Len(lines) = SaidAll(1) /\ lines[Len(lines)].kind # "testStart"
    BY <1>1, <1>3, <2>2 DEF Passing
  <2>4. AllSaid'
    BY <1>5, <1>6, <1>10, <2>3 DEF AllSaid
  <2>5. Len(lines') = SaidAll(2)'
    <3> DEFINE a == 2 * (PassesOf(child.options) * Len(Catalog))
    <3>1. a \in Nat
      <4>1. \A u, v \in Nat : 2 * (u * v) \in Nat
        OBVIOUS
      <4> QED
        BY <1>7, <4>1, CatalogFacts DEF Counted
    <3>2. SaidAll(1) = a + 1 /\ SaidAll(2)' = a + 2
      BY <1>5, <1>6 DEF SaidAll
    <3> HIDE DEF a
    <3> QED
      BY <1>8, <2>3, <3>1, <3>2
  <2>6. Len(lines') - 1 = Len(lines)
    BY <1>8
  <2> QED
    BY <1>8, <1>10, <2>2, <2>3, <2>4, <2>5, <2>6
<1> QED
  BY <1>9, <1>11, <1>12 DEF RunInv

LEMMA RunStarts ==
    ASSUME Base, RunInv, NEW r \in requests, ServeRun(r)
    PROVE  RunInv'
<1>1. IsChild(child)
  BY DEF Base, Typed
<1>2. CASE child.alive
  <2>1. child' = child /\ lines' = lines
    BY <1>2 DEF ServeRun
  <2> QED
    BY <2>1, RunGone
<1>3. CASE ~child.alive
  <2> DEFINE o == ParseOptions(BuildRunCommand(Selection(r.form), Settings(r.form)))
  <2>1. /\ child' = [Gone EXCEPT !.alive = TRUE, !.form = r.form, !.of = r.of, !.stage = "parse", !.options = o]
        /\ lines' = <<>>
    BY <1>3 DEF ServeRun
  <2> HIDE DEF o
  <2>2. child'.alive = TRUE /\ child'.stage = "parse"
    BY <2>1 DEF Gone
  <2>3. LinesInOrder'
    BY <2>1 DEF LinesInOrder
  <2>4. ~Begun'
    BY <2>1 DEF Begun
  <2>5. Len(lines') = 0
    BY <2>1
  <2>6. Clean(Len(lines))'
    BY <2>5 DEF Clean
  <2>7. Stage'
    BY <2>1, <2>2, <2>4, <2>6 DEF Stage, Stepped
  <2>8. Passing'
    BY <2>2, <2>4 DEF Passing
  <2> QED
    BY <2>3, <2>7, <2>8 DEF RunInv
<1> QED
  BY <1>2, <1>3

LEMMA RunStep ==
    ASSUME Base, Asking, RunInv, [Next]_vars
    PROVE  RunInv'
<1>1. IsChild(child)
  BY DEF Base, Typed
<1>2. ASSUME child' = child, lines' = lines PROVE RunInv'
  BY <1>2, RunGone
<1>3. ASSUME NEW r \in requests, ServeRun(r) PROVE RunInv'
  BY <1>3, RunStarts
<1>4. ASSUME NEW r \in requests, ServeStop(r) PROVE RunInv'
  <2>1. child' \in {child, [child EXCEPT !.stop = TRUE]} /\ lines' = lines
    BY <1>4 DEF ServeStop
  <2>2. /\ child'.alive = child.alive /\ child'.stage = child.stage /\ child'.passed = child.passed
        /\ child'.options = child.options /\ child'.pass = child.pass /\ child'.next = child.next
    BY <1>1, <2>1 DEF IsChild
  <2> QED
    BY <2>1, <2>2, RunGone
<1>5. ASSUME NEW r \in requests, ServeEmergency(r) PROVE RunInv'
  <2>1. (child' = child \/ child' = [child EXCEPT !.alive = FALSE, !.stage = "gone", !.killed = TRUE]) /\ lines' = lines
    BY <1>5 DEF ServeEmergency, Killed
  <2>2. CASE child' = [child EXCEPT !.alive = FALSE, !.stage = "gone", !.killed = TRUE]
    <3>1. /\ child'.alive = FALSE /\ child'.stage = "gone"
          /\ child'.options = child.options /\ child'.pass = child.pass /\ child'.next = child.next
      BY <1>1, <2>2 DEF IsChild
    <3> QED
      BY <2>1, <3>1, RunGone
  <2> QED
    BY <1>2, <2>1, <2>2
<1>6. ASSUME NEW r \in requests, ServeSafe(r) PROVE RunInv'
  BY <1>2, <1>6 DEF ServeSafe
<1>7. ASSUME NEW s \in safing, SafeEnds(s) PROVE RunInv'
  BY <1>2, <1>7 DEF SafeEnds
<1>8. CASE ChildDies
  <2>1. child' = [child EXCEPT !.alive = FALSE, !.stage = "gone"] /\ lines' = lines
    BY <1>8 DEF ChildDies
  <2>2. /\ child'.alive = FALSE /\ child'.stage = "gone"
        /\ child'.options = child.options /\ child'.pass = child.pass /\ child'.next = child.next
    BY <1>1, <2>1 DEF IsChild
  <2> QED
    BY <2>1, <2>2, RunGone
<1>9. CASE ChildNext
  BY <1>8, <1>9, RunRefuses, RunBegins, RunBeginsTest, RunEndsTest, RunTurns, RunEndsPass, RunEnds DEF ChildNext
<1>10. CASE PageNext
  BY <1>2, <1>10, PageNextMoves DEF PageMoves
<1>11. CASE Quiet \/ UNCHANGED vars
  BY <1>2, <1>11 DEF Quiet, vars
<1> QED
  BY <1>3, <1>4, <1>5, <1>6, <1>7, <1>9, <1>10, <1>11 DEF Next, ChildNext, PageNext

-----------------------------------------------------------------------------
(* What the page has of it.                                                  *)

LEMMA PlacesKnown ==
    ASSUME Base, LinesInOrder, NEW s \in Nat, s > 0, s + 1 \in DOMAIN lines
    PROVE  /\ s \in DOMAIN lines /\ InPlace(s) /\ InPlace(s + 1) /\ lines[s].kind # "runEnd" /\ lines[s].kind # "stderr"
           /\ s + 1 <= Len(lines) /\ Len(lines) \in Nat
<1>1. lines \in Seq(LineType)
  BY DEF Base, Typed
<1>2. DOMAIN lines = 1..Len(lines) /\ Len(lines) \in Nat
  BY <1>1, LenProperties
<1>3. s \in DOMAIN lines /\ s + 1 <= Len(lines) /\ s # Len(lines) /\ Len(lines) # 1
  <2> DEFINE L == Len(lines)
  <2>1. s + 1 \in 1..L /\ L \in Nat
    BY <1>2
  <2> HIDE DEF L
  <2>2. s \in 1..L /\ s + 1 <= L /\ s # L /\ L # 1
    BY <2>1
  <2> QED
    BY <1>2, <2>2 DEF L
<1>4. InPlace(s) /\ InPlace(s + 1)
  BY <1>3 DEF LinesInOrder
<1>5. lines[s].kind # "runEnd" /\ lines[s].kind # "stderr"
  BY <1>3, <1>4 DEF InPlace
<1> QED
  BY <1>2, <1>3, <1>4, <1>5

LEMMA Parity ==
    ASSUME NEW n \in Nat
    PROVE  ~(Odd(n) /\ Even(n)) /\ (Odd(n) => Even(n + 1)) /\ (Even(n) => Odd(n + 1)) /\ (Odd(n + 1) => Even(n)) /\ (Even(n + 1) => n = 0 \/ Odd(n))
<1>1. ~(Odd(n) /\ Even(n))
  BY DEF Odd, Even
<1>2. Odd(n) => Even(n + 1)
  <2> SUFFICES ASSUME NEW k \in Nat, n = 2 * k + 1 PROVE Even(n + 1)
    BY DEF Odd
  <2>1. n + 1 = 2 * (k + 1) /\ k + 1 \in Nat
    OBVIOUS
  <2> QED
    BY <2>1, Zenon DEF Even
<1>3. Even(n) => Odd(n + 1)
  BY DEF Odd, Even
<1>4. Odd(n + 1) => Even(n)
  BY DEF Odd, Even
<1>5. Even(n + 1) => n = 0 \/ Odd(n)
  <2> SUFFICES ASSUME NEW k \in Nat, n + 1 = 2 * k PROVE Odd(n)
    BY DEF Even
  <2>1. n = 2 * (k - 1) + 1 /\ k - 1 \in Nat
    OBVIOUS
  <2> QED
    BY <2>1, Zenon DEF Odd
<1> QED
  BY <1>1, <1>2, <1>3, <1>4, <1>5

LEMMA HalfWay ==
    ASSUME NEW s \in Nat, NEW f \in Nat, s > 0, s - 1 \in {2 * f, 2 * f + 1}
    PROVE  (Odd(s) => s - 1 = 2 * f /\ s = 2 * f + 1) /\ (Even(s) => s = 2 * (f + 1))
BY DEF Odd, Even

\* The page is told the next line.
LEMMA NextLineShows ==
    ASSUME Base, LinesInOrder, NEW s \in Nat, s + 1 \in DOMAIN lines, NEW p \in PageType, Shows(p, s),
           NEW q \in PageType, \A field \in {"sawRunStart", "passed", "finished", "failed", "verdicts"} :
                                 q[field] = ApplyEvent(p, lines[s + 1])[field]
    PROVE  Shows(q, s + 1)
<1>1. PICK n \in Nat : n = s + 1
  OBVIOUS
<1>2. PICK e \in LineType : e = lines[n]
  BY <1>1, ElementOfSeq, LenProperties DEF Base, Typed
<1>3. n <= Len(lines) /\ n > 0 /\ n # 0 /\ InPlace(n) /\ n - 1 = s /\ Len(lines) \in Nat
  <2>1. DOMAIN lines = 1..Len(lines) /\ Len(lines) \in Nat
    BY LenProperties DEF Base, Typed
  <2> QED
    BY <1>1, <2>1 DEF LinesInOrder
<1>4. s > 0 => InPlace(s) /\ lines[s].kind # "runEnd" /\ lines[s].kind # "stderr"
  BY PlacesKnown
<1>5. Told(s) = s
  BY <1>4 DEF Told
<1>6. /\ p.sawRunStart = (s > 0 /\ lines[1].kind = "runStart") /\ p.passed = None
      /\ IF s = 0 THEN p.finished = 0 ELSE s - 1 \in {2 * p.finished, 2 * p.finished + 1}
      /\ Clean(s) => p.failed = 0 /\ \A t \in Ids : p.verdicts[t] = Shown(t, s)
  BY <1>4, <1>5 DEF Shows
<1>7. Clean(n) => Clean(s) /\ (e.kind = "testEnd" => e.ok = TRUE)
  BY <1>1, <1>2 DEF Clean
<1>8. \A t : EndedBy(t, n) <=> EndedBy(t, s) \/ (e.kind = "testEnd" /\ e.test = t)
  <2>1. ASSUME NEW t, EndedBy(t, n) PROVE EndedBy(t, s) \/ (e.kind = "testEnd" /\ e.test = t)
    <3>1. PICK i \in 1..n : lines[i].kind = "testEnd" /\ lines[i].test = t
      BY <2>1 DEF EndedBy
    <3>2. i \in 1..s \/ i = n
      BY <1>1
    <3> QED
      BY <1>2, <3>1, <3>2 DEF EndedBy
  <2>2. ASSUME NEW t, EndedBy(t, s) \/ (e.kind = "testEnd" /\ e.test = t) PROVE EndedBy(t, n)
    <3>1. n \in 1..n /\ \A i \in 1..s : i \in 1..n
      BY <1>1
    <3> QED
      BY <1>2, <2>2, <3>1 DEF EndedBy
  <2> QED
    BY <2>1, <2>2
<1>9. s > 0 => lines[1].kind # "stderr"
  <2>1. 1 \in DOMAIN lines /\ (s > 0 => Len(lines) # 1)
    BY <1>1, <1>3, LenProperties DEF Base, Typed
  <2> QED
    BY <2>1 DEF LinesInOrder, InPlace
<1>10. e.kind \in {"stderr", "runStart", "testStart", "testEnd", "runEnd"} /\ e.ok \in BOOLEAN
  BY DEF LineType
<1>11. /\ p.finished \in Nat /\ p.failed \in Nat /\ p.verdicts \in [Ids -> Verdict] /\ p.sawRunStart \in BOOLEAN
       /\ p = [p EXCEPT !.of = p.of]
  BY DEF PageType
<1> DEFINE a == ApplyEvent(p, e)
<1>12. /\ q.sawRunStart = a.sawRunStart /\ q.passed = a.passed /\ q.finished = a.finished /\ q.failed = a.failed
       /\ q.verdicts = a.verdicts
  BY <1>1, <1>2
<1>13. ASSUME e.kind \notin {"runStart", "stderr"} PROVE s > 0 /\ s # 0 /\ n # 1
  BY <1>1, <1>2, <1>3, <1>13 DEF InPlace
<1>14. ASSUME s > 0, q.sawRunStart = p.sawRunStart PROVE q.sawRunStart = (n > 0 /\ lines[1].kind = "runStart")
  BY <1>3, <1>6, <1>14
<1>15. CASE e.kind \in {"runStart", "stderr"}
  <2>1. s = 0 /\ n = 1 /\ lines[1] = e
    BY <1>1, <1>2, <1>3, <1>15 DEF InPlace
  <2>2. /\ a.passed = p.passed /\ a.finished = p.finished /\ a.failed = p.failed /\ a.verdicts = p.verdicts
        /\ a.sawRunStart = (e.kind = "runStart")
    <3>1. CASE e.kind = "runStart"
      BY <3>1 DEF ApplyEvent, PageType
    <3>2. CASE e.kind = "stderr"
      BY <1>6, <2>1, <3>2 DEF ApplyEvent
    <3> QED
      BY <1>15, <3>1, <3>2
  <2> HIDE DEF a
  <2>3. Told(n) = 1 /\ ~(lines[n].kind = "runEnd")
    BY <1>15, <2>1 DEF Told
  <2>4. \A t : ~EndedBy(t, s) /\ ~Under(t, s) /\ ~Under(t, n)
    BY <1>5, <1>15, <2>1, <2>3 DEF EndedBy, Under
  <2>5. \A t : Shown(t, n) = Shown(t, s)
    BY <1>8, <1>15, <2>4 DEF Shown
  <2>6. p.finished = 0
    BY <1>6, <2>1
  <2>7. Clean(n) => q.failed = 0 /\ \A t \in Ids : q.verdicts[t] = Shown(t, n)
    BY <1>6, <1>7, <1>12, <2>2, <2>5
  <2>8. Told(n) - 1 \in {2 * q.finished, 2 * q.finished + 1} /\ Told(n) # 0
    BY <1>12, <2>2, <2>3, <2>6
  <2>9. q.sawRunStart = (n > 0 /\ lines[1].kind = "runStart")
    BY <1>12, <2>1, <2>2
  <2>10. Shows(q, n)
    BY <1>3, <1>6, <1>12, <2>2, <2>3, <2>7, <2>8, <2>9 DEF Shows
  <2> QED
    BY <1>1, <2>10
<1>16. CASE e.kind = "testStart"
  <2>1. s > 0 /\ s # 0 /\ Even(n)
    BY <1>2, <1>3, <1>13, <1>16 DEF InPlace
  <2>2. Odd(s) /\ lines[s].kind # "testStart"
    BY <1>1, <1>4, <2>1, Parity DEF InPlace
  <2>3. a = [p EXCEPT !.verdicts = [p.verdicts EXCEPT ![e.test] = "running"]]
    BY <1>16 DEF ApplyEvent
  <2>4. /\ a.passed = p.passed /\ a.finished = p.finished /\ a.failed = p.failed /\ a.sawRunStart = p.sawRunStart
        /\ a.verdicts = [p.verdicts EXCEPT ![e.test] = "running"]
    BY <2>3 DEF PageType
  <2> HIDE DEF a
  <2>5. Told(n) = n /\ ~(lines[n].kind = "runEnd")
    BY <1>2, <1>16 DEF Told
  <2>6. s - 1 = 2 * p.finished /\ s = 2 * p.finished + 1
    BY <1>6, <1>11, <2>1, <2>2, HalfWay
  <2>7. Told(n) - 1 \in {2 * q.finished, 2 * q.finished + 1} /\ Told(n) # 0
    BY <1>3, <1>12, <2>4, <2>5, <2>6
  <2>8. \A t : ~Under(t, s) /\ (Under(t, n) <=> e.test = t) /\ (EndedBy(t, n) <=> EndedBy(t, s))
    BY <1>2, <1>3, <1>5, <1>8, <1>16, <2>2, <2>5 DEF Under
  <2>9. ASSUME NEW t \in Ids, p.verdicts[t] = Shown(t, s) PROVE q.verdicts[t] = Shown(t, n)
    <3>1. q.verdicts[t] = IF t = e.test THEN "running" ELSE p.verdicts[t]
      BY <1>11, <1>12, <2>4
    <3> QED
      BY <2>8, <2>9, <3>1 DEF Shown
  <2>10. Clean(n) => q.failed = 0 /\ \A t \in Ids : q.verdicts[t] = Shown(t, n)
    BY <1>6, <1>7, <1>12, <2>4, <2>9
  <2>11. q.sawRunStart = (n > 0 /\ lines[1].kind = "runStart")
    BY <1>12, <1>14, <2>1, <2>4
  <2>12. Shows(q, n)
    BY <1>3, <1>6, <1>12, <2>4, <2>5, <2>7, <2>10, <2>11 DEF Shows
  <2> QED
    BY <1>1, <2>12
<1>17. CASE e.kind = "testEnd"
  <2>1. s > 0 /\ s # 0 /\ Odd(n) /\ lines[s].kind = "testStart" /\ lines[s].test = e.test
    BY <1>2, <1>3, <1>13, <1>17 DEF InPlace
  <2>2. Even(s)
    BY <1>1, <2>1, Parity
  <2> DEFINE done == p.finished + 1
             bad == IF e.ok THEN p.failed ELSE p.failed + 1
             v == IF e.ok THEN "pass" ELSE "fail"
  <2>3. a = [p EXCEPT !.finished = done, !.failed = bad, !.verdicts = [p.verdicts EXCEPT ![e.test] = v]]
    BY <1>17 DEF ApplyEvent
  <2>4. done = p.finished + 1 /\ (e.ok = TRUE => bad = p.failed /\ v = "pass")
    OBVIOUS
  <2> HIDE DEF done, bad, v
  <2>5. /\ a.passed = p.passed /\ a.finished = done /\ a.failed = bad /\ a.sawRunStart = p.sawRunStart
        /\ a.verdicts = [p.verdicts EXCEPT ![e.test] = v]
    BY <2>3 DEF PageType
  <2> HIDE DEF a
  <2>6. Told(n) = n /\ ~(lines[n].kind = "runEnd")
    BY <1>2, <1>17 DEF Told
  <2>7. s = 2 * (p.finished + 1)
    BY <1>6, <1>11, <2>1, <2>2, HalfWay
  <2>8. Told(n) - 1 \in {2 * q.finished, 2 * q.finished + 1} /\ Told(n) # 0
    BY <1>3, <1>12, <2>4, <2>5, <2>6, <2>7
  <2>9. \A t : (Under(t, s) <=> e.test = t) /\ ~Under(t, n) /\ (EndedBy(t, n) <=> EndedBy(t, s) \/ e.test = t)
    BY <1>2, <1>5, <1>8, <1>17, <2>1, <2>6 DEF Under
  <2>10. ASSUME NEW t \in Ids, p.verdicts[t] = Shown(t, s), e.ok = TRUE PROVE q.verdicts[t] = Shown(t, n)
    <3>1. q.verdicts[t] = IF t = e.test THEN "pass" ELSE p.verdicts[t]
      BY <1>11, <1>12, <2>4, <2>5, <2>10
    <3> QED
      BY <2>9, <2>10, <3>1 DEF Shown
  <2>11. Clean(n) => q.failed = 0 /\ \A t \in Ids : q.verdicts[t] = Shown(t, n)
    BY <1>6, <1>7, <1>12, <1>17, <2>4, <2>5, <2>10
  <2>12. q.sawRunStart = (n > 0 /\ lines[1].kind = "runStart")
    BY <1>12, <1>14, <2>1, <2>5
  <2>13. Shows(q, n)
    BY <1>3, <1>6, <1>12, <2>5, <2>6, <2>8, <2>11, <2>12 DEF Shows
  <2> QED
    BY <1>1, <2>13
<1>18. CASE e.kind = "runEnd"
  <2>1. s > 0 /\ s # 0
    BY <1>13, <1>18
  <2>2. a = [p EXCEPT !.passed = e.ok]
    BY <1>18 DEF ApplyEvent
  <2>3. /\ a.passed = e.ok /\ a.finished = p.finished /\ a.failed = p.failed /\ a.sawRunStart = p.sawRunStart
        /\ a.verdicts = p.verdicts
    BY <2>2 DEF PageType
  <2> HIDE DEF a
  <2>4. Told(n) = s /\ lines[n].kind = "runEnd" /\ lines[n].ok = e.ok
    BY <1>2, <1>3, <1>18 DEF Told
  <2>5. \A t : (Under(t, n) <=> Under(t, s)) /\ (EndedBy(t, n) <=> EndedBy(t, s))
    BY <1>5, <1>8, <1>18, <2>4 DEF Under
  <2>6. \A t : Shown(t, n) = Shown(t, s)
    BY <2>5 DEF Shown
  <2>7. Clean(n) => q.failed = 0 /\ \A t \in Ids : q.verdicts[t] = Shown(t, n)
    BY <1>6, <1>7, <1>12, <2>3, <2>6
  <2>8. Told(n) - 1 \in {2 * q.finished, 2 * q.finished + 1} /\ Told(n) # 0
    BY <1>6, <1>12, <2>1, <2>3, <2>4
  <2>9. q.sawRunStart = (n > 0 /\ lines[1].kind = "runStart")
    BY <1>12, <1>14, <2>1, <2>3
  <2>10. Shows(q, n)
    BY <1>3, <1>12, <2>3, <2>4, <2>7, <2>8, <2>9 DEF Shows
  <2> QED
    BY <1>1, <2>10
<1> QED
  BY <1>10, <1>15, <1>16, <1>17, <1>18

\* What was said stays shown, however the run goes on.
LEMMA ShownStays ==
    ASSUME Base, NEW p, NEW s \in Nat, Shows(p, s),
           lines' = lines \/ \E x \in LineType : lines' = lines \o <<x>>
    PROVE  Shows(p, s)'
<1>1. s <= Len(lines)
  BY DEF Shows
<1>2. /\ Len(lines) \in Nat /\ s <= Len(lines') /\ \A i \in 1..s : lines'[i] = lines[i]
  <2>1. CASE lines' = lines
    BY <1>1, <2>1, LenProperties DEF Base, Typed
  <2>2. ASSUME NEW x \in LineType, lines' = lines \o <<x>>
        PROVE  Len(lines) \in Nat /\ s <= Len(lines') /\ \A i \in 1..s : lines'[i] = lines[i]
    <3>1. Len(lines) \in Nat /\ Len(lines') = Len(lines) + 1 /\ \A i \in 1..Len(lines) : lines'[i] = lines[i]
      BY <2>2, LineSaid
    <3> QED
      BY <1>1, <3>1
  <2> QED
    BY <2>1, <2>2
<1>3. s > 0 => lines'[s] = lines[s] /\ lines'[1] = lines[1]
  BY <1>2
<1>4. Told(s)' = Told(s) /\ Told(s) \in 0..s
  BY <1>3 DEF Told
<1>5. Told(s) > 0 => lines'[Told(s)] = lines[Told(s)]
  <2>1. Told(s) > 0 => Told(s) \in 1..s
    BY <1>4
  <2> QED
    BY <1>2, <2>1
<1>6. Clean(s)' <=> Clean(s)
  BY <1>2 DEF Clean
<1>7. \A t : Shown(t, s)' = Shown(t, s)
  <2>1. ASSUME NEW t PROVE (Under(t, s)' <=> Under(t, s)) /\ (EndedBy(t, s)' <=> EndedBy(t, s))
    <3>1. Under(t, s)' <=> Under(t, s)
      BY <1>4, <1>5 DEF Under
    <3>2. EndedBy(t, s)' <=> EndedBy(t, s)
      BY <1>2 DEF EndedBy
    <3> QED
      BY <3>1, <3>2
  <2> QED
    BY <2>1 DEF Shown
<1>8. p.sawRunStart = (s > 0 /\ lines'[1].kind = "runStart")
  BY <1>3 DEF Shows
<1>9. p.passed = IF s > 0 /\ lines'[s].kind = "runEnd" THEN lines'[s].ok ELSE None
  BY <1>3 DEF Shows
<1>10. IF Told(s)' = 0 THEN p.finished = 0 ELSE Told(s)' - 1 \in {2 * p.finished, 2 * p.finished + 1}
  BY <1>4 DEF Shows
<1>11. Clean(s)' => p.failed = 0 /\ \A t \in Ids : p.verdicts[t] = Shown(t, s)'
  BY <1>6, <1>7 DEF Shows
<1> QED
  BY <1>2, <1>8, <1>9, <1>10, <1>11 DEF Shows

\* What the server and the run do, while the page looks on.
LEMMA Undisturbed ==
    ASSUME Base, PageInv, page' = page, stream' = stream, requests' \subseteq requests, child'.of = child.of,
           \A r \in replies' : r.kind = "run" => r \in replies,
           child.alive = FALSE => child'.alive = FALSE,
           child'.stage = "parse" => child.stage = "parse" /\ child'.form = child.form,
           lines' = lines \/ (child.alive = TRUE /\ \E x \in LineType : lines' = lines \o <<x>>),
           page.running = TRUE /\ child.of = page.of /\ Begun' => Asked(ToSet(Catalog'), Expected(child'.options))
    PROVE  PageInv'
<1>1. Showing'
  <2>1. page.running = TRUE /\ stream = None => Untold(page)'
    BY DEF PageInv, Showing, Untold
  <2>2. stream # None /\ child.of = page.of => Shows(page, stream)'
    <3> SUFFICES ASSUME stream # None, child.of = page.of PROVE Shows(page, stream)'
      OBVIOUS
    <3>1. PICK s \in Nat : s = stream
      BY DEF Base, Typed
    <3>2. PICK p \in PageType : p = page
      BY DEF Base, Typed
    <3>3. Shows(p, s)
      BY <3>1, <3>2 DEF PageInv, Showing
    <3>4. Shows(p, s)'
      BY <3>3, ShownStays
    <3> QED
      BY <3>1, <3>2, <3>4
  <2> QED
    BY <2>1, <2>2 DEF Showing
<1>2. Waits'
  <2>1. NotAsked => NotAsked'
    BY DEF NotAsked
  <2>2. (\A q : OfPage(q)' <=> OfPage(q)) /\ \A r \in replies' : OfPage(r) => r \in replies
    BY DEF OfPage
  <2> QED
    BY <2>1, <2>2 DEF PageInv, Waits
<1>3. AsAskedFor'
  BY DEF PageInv, AsAskedFor, Asked
<1>4. OverIsGone'
  BY DEF PageInv, OverIsGone
<1>5. PageTellsTrue'
  <2>1. CASE child.of = page.of /\ page.status \in Outcomes
    <3>1. child.alive = FALSE /\ lines' = lines /\ child'.alive = FALSE
      BY <2>1 DEF PageInv, OverIsGone
    <3>2. PassedIsWhatWasAsked'
      BY <2>1, <3>1 DEF PageInv, PageTellsTrue, PassedIsWhatWasAsked
    <3>3. OverMeansGone'
      BY <2>1, <3>1 DEF PageInv, PageTellsTrue, OverMeansGone
    <3> QED
      BY <3>2, <3>3 DEF PageTellsTrue
  <2>2. CASE ~(child.of = page.of /\ page.status \in Outcomes)
    BY <2>2 DEF PageTellsTrue, PassedIsWhatWasAsked, OverMeansGone, Outcomes
  <2> QED
    BY <2>1, <2>2
<1> QED
  BY <1>1, <1>2, <1>3, <1>4, <1>5 DEF PageInv

\* What the page does that is about no run.
LEMMA Untouched ==
    ASSUME Base, PageInv, stream' = stream, child' = child, lines' = lines, replies' \subseteq replies,
           \A q \in requests' : q.kind = "run" => q \in requests,
           page'.of = page.of, page'.epoch = page.epoch, page'.running = page.running,
           page'.sawRunStart = page.sawRunStart, page'.passed = page.passed, page'.finished = page.finished,
           page'.failed = page.failed, page'.expected = page.expected, page'.ticked = page.ticked,
           page'.verdicts = page.verdicts, page'.status = page.status \/ page'.status \notin Outcomes
    PROVE  PageInv'
<1>1. Showing'
  <2>1. page'.running = TRUE /\ stream = None => Untold(page)'
    BY DEF PageInv, Showing, Untold
  <2>2. stream # None /\ child.of = page.of => Shows(page', stream)
    BY DEF PageInv, Showing, Shows
  <2>3. stream # None /\ child.of = page.of => Shows(page, stream)'
    <3> SUFFICES ASSUME stream # None, child.of = page.of PROVE Shows(page, stream)'
      OBVIOUS
    <3>1. PICK s \in Nat : s = stream
      BY DEF Base, Typed
    <3>2. PICK p : p = page'
      OBVIOUS
    <3>3. Shows(p, s)
      BY <2>2, <3>1, <3>2
    <3>4. Shows(p, s)'
      BY <3>3, ShownStays
    <3> QED
      BY <3>1, <3>2, <3>4
  <2> QED
    BY <2>1, <2>3 DEF Showing
<1>2. Waits'
  <2>1. NotAsked => NotAsked'
    BY DEF NotAsked
  <2>2. (\A q : OfPage(q)' <=> OfPage(q)) /\ \A q \in requests' : OfPage(q) => q \in requests
    BY DEF OfPage
  <2> QED
    BY <2>1, <2>2 DEF PageInv, Waits
<1>3. AsAskedFor'
  <2>1. Catalog' = Catalog /\ (Begun' <=> Begun)
    BY DEF Catalog, Begun
  <2> QED
    BY <2>1 DEF PageInv, AsAskedFor, Asked
<1>4. OverIsGone'
  BY DEF PageInv, OverIsGone
<1>5. PageTellsTrue'
  <2>1. PassedIsWhatWasAsked'
    BY DEF PageInv, PageTellsTrue, PassedIsWhatWasAsked, Outcomes
  <2>2. OverMeansGone'
    BY DEF PageInv, PageTellsTrue, OverMeansGone, Outcomes
  <2> QED
    BY <2>1, <2>2 DEF PageTellsTrue
<1> QED
  BY <1>1, <1>2, <1>3, <1>4, <1>5 DEF PageInv

LEMMA PageServeRun ==
    ASSUME Base, PageInv, NEW r \in requests, ServeRun(r)
    PROVE  PageInv'
<1>1. /\ r \in RequestType /\ r.kind = "run" /\ requests' = requests \ {r} /\ page' = page /\ stream' = stream
      /\ \A q \in requests : q.kind = "run" /\ q.of = r.of => q = r
      /\ r.of # child.of
  BY DEF Base, Typed, Fresh, ServeRun
<1>2. \A x \in {"200", "409"} : LET a == Reply(r, x) IN
        a.kind = "run" /\ a.of = r.of /\ a.epoch = r.epoch /\ a.result = x
  BY <1>1 DEF Reply
<1>3. PICK x \in {"200", "409"} : replies' = replies \cup {Reply(r, x)}
  BY DEF ServeRun
<1> DEFINE a == Reply(r, x)
<1>4. replies' = replies \cup {a} /\ a.kind = "run" /\ a.of = r.of /\ a.epoch = r.epoch /\ a.result = x
  BY <1>2, <1>3
<1> HIDE DEF a
<1>5. (\A q : OfPage(q)' <=> OfPage(q)) /\ (OfPage(a) <=> OfPage(r)) /\ (NotAsked => NotAsked')
  BY <1>1, <1>4 DEF OfPage, NotAsked
<1>6. OfPage(r) => r.of = page.of /\ page.running = TRUE /\ stream = None /\ (\A s \in replies : ~OfPage(s))
                     /\ (\A q \in requests' : ~OfPage(q)) /\ NotAsked'
  <2>1. ASSUME OfPage(r), NEW q \in requests', q.kind = "run" PROVE q.of # page.of
    BY <1>1, <2>1 DEF PageInv, Waits
  <2>2. OfPage(r) => NotAsked'
    BY <1>1, <2>1 DEF NotAsked
  <2>3. OfPage(r) => r.of = page.of /\ page.running = TRUE /\ stream = None /\ (\A s \in replies : ~OfPage(s))
    BY DEF PageInv, Waits
  <2>4. OfPage(r) => \A q \in requests' : ~OfPage(q)
    BY <1>1, <2>1 DEF PageInv, Waits, OfPage
  <2> QED
    BY <2>2, <2>3, <2>4
<1>7. Waits'
  <2>1. \A q \in requests' : OfPage(q)' => q.of = page.of /\ page.running = TRUE /\ stream = None
    BY <1>1, <1>5 DEF PageInv, Waits
  <2>2. ASSUME NEW u \in replies', OfPage(u)
        PROVE  /\ u.of = page.of /\ page.running = TRUE /\ stream = None
               /\ \A q \in requests' : ~OfPage(q)
               /\ \A s \in replies' : OfPage(s) => s = u
               /\ u.result = "200" => NotAsked'
    <3>1. CASE u = a
      BY <1>4, <1>5, <1>6, <2>2, <3>1
    <3>2. CASE u \in replies /\ u # a
      <4>1. \A q \in requests : ~OfPage(q)
        BY <2>2, <3>2 DEF PageInv, Waits
      <4>2. ~OfPage(a)
        BY <1>5, <4>1
      <4> QED
        BY <1>1, <1>4, <1>5, <2>2, <3>2, <4>1, <4>2 DEF PageInv, Waits
    <3> QED
      BY <1>4, <3>1, <3>2
  <2> QED
    BY <1>1, <1>5, <2>1, <2>2 DEF PageInv, Waits
<1>8. CASE child.alive
  <2>1. child' = child /\ lines' = lines
    BY <1>8 DEF ServeRun
  <2>2. Showing'
    <3>1. \A p, s : Shows(p, s)' <=> Shows(p, s)
      BY <2>1 DEF Shows, Told, Clean, Shown, Under, EndedBy
    <3> QED
      BY <1>1, <2>1, <3>1 DEF PageInv, Showing, Untold
  <2>3. AsAskedFor'
    <3>1. Catalog' = Catalog /\ (Begun' <=> Begun)
      BY <2>1 DEF Catalog, Begun
    <3> QED
      BY <1>1, <2>1, <3>1 DEF PageInv, AsAskedFor, Asked
  <2>4. OverIsGone' /\ PageTellsTrue'
    BY <1>1, <2>1 DEF PageInv, OverIsGone, PageTellsTrue, PassedIsWhatWasAsked, OverMeansGone
  <2> QED
    BY <1>7, <2>2, <2>3, <2>4 DEF PageInv
<1>9. CASE ~child.alive
  <2>1. /\ lines' = <<>>
        /\ child' = [Gone EXCEPT !.alive = TRUE, !.form = r.form, !.of = r.of, !.stage = "parse",
                        !.options = ParseOptions(BuildRunCommand(Selection(r.form), Settings(r.form)))]
    BY <1>9 DEF ServeRun
  <2>2. child'.of = r.of /\ child'.alive = TRUE /\ child'.stage = "parse" /\ child'.form = r.form
    BY <2>1 DEF Gone
  <2>3. r.of = page.of => stream = None /\ page.status \notin Outcomes
    BY <1>1 DEF PageInv, Waits, NotAsked
  <2>4. Showing'
    BY <1>1, <2>2, <2>3 DEF PageInv, Showing, Untold
  <2>5. ~Begun'
    BY <2>1 DEF Begun
  <2>6. AsAskedFor'
    BY <1>1, <2>2, <2>5 DEF PageInv, AsAskedFor, Asked
  <2>7. OverIsGone'
    BY <1>1, <2>2, <2>3 DEF OverIsGone
  <2>8. PageTellsTrue'
    BY <1>1, <2>2, <2>3 DEF PageTellsTrue, PassedIsWhatWasAsked, OverMeansGone, Outcomes
  <2> QED
    BY <1>7, <2>4, <2>6, <2>7, <2>8 DEF PageInv
<1> QED
  BY <1>8, <1>9

LEMMA PageServes ==
    ASSUME Base, RunInv, PageInv, NEW r \in requests, ServeStop(r) \/ ServeEmergency(r) \/ ServeSafe(r)
    PROVE  PageInv'
<1>1. IsChild(child) /\ r.kind # "run"
  BY DEF Base, Typed, ServeStop, ServeEmergency, ServeSafe
<1>2. page' = page /\ stream' = stream /\ requests' \subseteq requests /\ lines' = lines
  BY DEF ServeStop, ServeEmergency, ServeSafe
<1>3. \A a \in replies' : a.kind = "run" => a \in replies
  <2>1. replies' = replies \/ \E x : replies' = replies \cup {Reply(r, x)}
    BY DEF ServeStop, ServeEmergency, ServeSafe
  <2>2. \A x : Reply(r, x).kind = r.kind
    BY DEF Reply
  <2> QED
    BY <1>1, <2>1, <2>2
<1>4. \/ child' = child \/ child' = [child EXCEPT !.stop = TRUE]
      \/ child' = [child EXCEPT !.alive = FALSE, !.stage = "gone", !.killed = TRUE]
  BY DEF ServeStop, ServeEmergency, ServeSafe, Killed
<1>5. /\ child'.of = child.of /\ (child.alive = FALSE => child'.alive = FALSE) /\ child'.options = child.options
      /\ child'.stage = "parse" => child.stage = "parse" /\ child'.form = child.form
  BY <1>1, <1>4 DEF IsChild
<1>6. page.running = TRUE /\ child.of = page.of /\ Begun' => Asked(ToSet(Catalog'), Expected(child'.options))
  <2>1. Catalog' = Catalog /\ (Begun' <=> Begun)
    BY <1>2, <1>5, OptionsKept DEF Begun
  <2> QED
    BY <1>5, <2>1 DEF PageInv, AsAskedFor
<1> QED
  BY <1>2, <1>3, <1>5, <1>6, Undisturbed

LEMMA PageSafeEnds ==
    ASSUME Base, RunInv, PageInv, NEW s \in safing, SafeEnds(s)
    PROVE  PageInv'
<1>1. page' = page /\ stream' = stream /\ requests' = requests /\ child' = child /\ lines' = lines
  BY DEF SafeEnds
<1>2. \A a \in replies' : a.kind = "run" => a \in replies
  <2>1. \E x : replies' = replies \cup {[Reply(s.request, x) EXCEPT !.run = s.run]}
    BY DEF SafeEnds
  <2>2. \A x : [Reply(s.request, x) EXCEPT !.run = s.run].kind = s.request.kind
    BY DEF Reply
  <2>3. s.request.kind # "run"
    BY DEF Base, Safings
  <2> QED
    BY <2>1, <2>2, <2>3
<1>3. Catalog' = Catalog /\ (Begun' <=> Begun)
  BY <1>1 DEF Catalog, Begun
<1>4. page.running = TRUE /\ child.of = page.of /\ Begun' => Asked(ToSet(Catalog'), Expected(child'.options))
  BY <1>1, <1>3 DEF PageInv, AsAskedFor
<1> QED
  BY <1>1, <1>2, <1>4, Undisturbed

LEMMA PageChild ==
    ASSUME Base, Asking, RunInv, PageInv, ChildNext
    PROVE  PageInv'
<1>1. IsChild(child) /\ child.alive = TRUE
  BY ChildNextMoves DEF Base, Typed, ChildMoves
<1>2. page' = page /\ stream' = stream /\ requests' \subseteq requests /\ \A r \in replies' : r.kind = "run" => r \in replies
  BY ChildNextMoves DEF ChildMoves
<1>3. CASE ChildBegins
  <2> DEFINE k == [m \in {"Selection", "Repeat", "UntilFailure"} |-> child.options[m]]
             x == Line("runStart", None, TRUE)
  <2>1. /\ lines' = lines \o <<x>>
        /\ child' = [child EXCEPT !.stage = "between", !.pass = 1, !.next = 1, !.form = Blank, !.options = k]
        /\ child.stage = "parse" /\ child.options # Refused
    BY <1>3 DEF ChildBegins, Say
  <2>2. Selected(k, Tests) = Catalog /\ Endless(k) = Endless(child.options) /\ PassesOf(k) = PassesOf(child.options)
    BY OptionsPutAway DEF Catalog
  <2>3. x \in LineType
    BY DEF Line, LineType
  <2> HIDE DEF k, x
  <2>4. child'.of = child.of /\ child'.stage = "between" /\ child'.options = k /\ child'.alive = TRUE
    BY <1>1, <2>1 DEF IsChild
  <2>5. child.form \in Forms /\ ~FormRefused(child.form) /\ child.options = ParseOptions(CommandOf(child.form))
    BY <1>1, <2>1 DEF Asking, IsChild
  <2>6. ToSet(Catalog) = child.form.ticked /\ ExpectedTests(child.form) = Expected(child.options)
    BY <2>1, <2>5, AskedCounts DEF Catalog, Expected
  <2>7. Catalog' = Catalog /\ Expected(k) = Expected(child.options)
    BY <2>2, <2>4 DEF Catalog, Expected
  <2>8. page.running = TRUE /\ child.of = page.of => Asked(ToSet(Catalog'), Expected(child'.options))
    BY <2>1, <2>4, <2>6, <2>7 DEF PageInv, AsAskedFor
  <2> QED
    BY <1>1, <1>2, <2>1, <2>3, <2>4, <2>8, Undisturbed
<1>4. ASSUME ChildNext, ~ChildBegins
      PROVE  /\ child'.of = child.of /\ child'.options = child.options
             /\ child'.stage # "parse"
  <2>1. CASE ChildRefuses \/ ChildEnds \/ ChildDies
    BY <1>1, <2>1 DEF ChildRefuses, ChildEnds, ChildDies, IsChild
  <2>2. CASE BeginTest
    BY <1>1, <2>2 DEF BeginTest, IsChild
  <2>3. CASE EndTest
    <3> DEFINE n == child.next + 1
    <3>1. PICK ok \in BOOLEAN : child' = [child EXCEPT !.stage = "between", !.next = n, !.passed = @ /\ ok]
      BY <2>3 DEF EndTest
    <3> DEFINE p == child.passed /\ ok
    <3>2. child' = [child EXCEPT !.stage = "between", !.next = n, !.passed = p]
      BY <3>1
    <3> HIDE DEF n, p
    <3> QED
      BY <1>1, <3>2 DEF IsChild
  <2>4. CASE Throws \/ StopsBetween
    <3>1. child' = [child EXCEPT !.stage = "ending", !.passed = FALSE]
      BY <2>4 DEF Throws, StopsBetween
    <3> QED
      BY <1>1, <3>1 DEF IsChild
  <2>5. CASE PassEnds
    <3> DEFINE n == child.pass + 1
    <3>1. child' = [child EXCEPT !.stage = "ending"] \/ child' = [child EXCEPT !.pass = n, !.next = 1]
      BY <2>5 DEF PassEnds
    <3>2. child.stage = "between"
      BY <2>5 DEF PassEnds
    <3> HIDE DEF n
    <3> QED
      BY <1>1, <3>1, <3>2 DEF IsChild
  <2> QED
    BY <1>4, <2>1, <2>2, <2>3, <2>4, <2>5 DEF ChildNext
<1>5. ASSUME ~ChildBegins
      PROVE  lines' = lines \/ \E x \in LineType : lines' = lines \o <<x>> /\ (x.kind = "runStart" => FALSE)
  <2>1. CASE ChildRefuses
    <3>1. Line("stderr", None, FALSE) \in LineType /\ Line("stderr", None, FALSE).kind = "stderr"
      BY DEF Line, LineType
    <3> QED
      BY <2>1, <3>1 DEF ChildRefuses, Say
  <2>2. ASSUME Stage, child.stage \in {"between", "test"}, child.next <= Len(Catalog) PROVE Catalog[child.next] \in Ids
    <3>1. child.next \in 1..Len(Catalog)
      BY <2>2, StepsCount DEF Stage, Counted
    <3> QED
      BY <3>1, CatalogFacts
  <2>3. CASE BeginTest
    <3> DEFINE t == Catalog[child.next]
    <3>1. t \in Ids /\ lines' = lines \o <<Line("testStart", t, TRUE)>>
      BY <2>2, <2>3 DEF RunInv, BeginTest, Say, Catalog
    <3> HIDE DEF t
    <3>2. Line("testStart", t, TRUE) \in LineType /\ Line("testStart", t, TRUE).kind = "testStart"
      BY <3>1 DEF Line, LineType
    <3> QED
      BY <3>1, <3>2
  <2>4. CASE EndTest
    <3> DEFINE t == Catalog[child.next]
    <3>1. t \in Ids
      BY <2>2, <2>4 DEF RunInv, Stage, Stepped, EndTest
    <3>2. PICK ok \in BOOLEAN : lines' = lines \o <<Line("testEnd", t, ok)>>
      BY <2>4 DEF EndTest, Say, Catalog
    <3> HIDE DEF t
    <3>3. Line("testEnd", t, ok) \in LineType /\ Line("testEnd", t, ok).kind = "testEnd"
      BY <3>1 DEF Line, LineType
    <3> QED
      BY <3>2, <3>3
  <2>5. CASE ChildEnds
    <3>1. PICK ok \in BOOLEAN : lines' = lines \o <<Line("runEnd", None, ok)>>
      BY <1>1, <2>5 DEF ChildEnds, Say, IsChild
    <3>2. Line("runEnd", None, ok) \in LineType /\ Line("runEnd", None, ok).kind = "runEnd"
      BY <3>1 DEF Line, LineType
    <3> QED
      BY <3>1, <3>2
  <2>6. CASE Throws \/ StopsBetween \/ PassEnds \/ ChildDies
    BY <2>6 DEF Throws, StopsBetween, PassEnds, ChildDies
  <2> QED
    BY <1>5, <2>1, <2>3, <2>4, <2>5, <2>6 DEF ChildNext
<1>6. CASE ~ChildBegins
  <2>1. child'.of = child.of /\ child'.options = child.options /\ child'.stage # "parse"
    BY <1>4, <1>6
  <2>2. Begun' => Begun
    <3>1. CASE lines' = lines
      BY <3>1 DEF Begun
    <3>2. ASSUME NEW x \in LineType, lines' = lines \o <<x>>, x.kind # "runStart" PROVE Begun' => Begun
      <4>1. CASE lines = <<>>
        <5>1. lines'[1] = x
          <6>1. Len(lines) = 0 /\ lines'[Len(lines) + 1] = x
            BY <3>2, <4>1, LineSaid
          <6> QED
            BY <6>1
        <5> QED
          BY <3>2, <5>1 DEF Begun
      <4>2. CASE lines # <<>>
        BY <3>2, <4>2, EndedStays
      <4> QED
        BY <4>1, <4>2
    <3> QED
      BY <1>5, <1>6, <3>1, <3>2
  <2>3. Catalog' = Catalog
    BY <2>1, OptionsKept
  <2>4. page.running = TRUE /\ child.of = page.of /\ Begun' => Asked(ToSet(Catalog'), Expected(child'.options))
    BY <2>1, <2>2, <2>3 DEF PageInv, AsAskedFor
  <2>5. lines' = lines \/ (child.alive = TRUE /\ \E x \in LineType : lines' = lines \o <<x>>)
    BY <1>1, <1>5, <1>6
  <2> QED
    BY <1>1, <1>2, <2>1, <2>4, <2>5, Undisturbed
<1> QED
  BY <1>3, <1>6

LEMMA PageButtons ==
    ASSUME Base, PageInv, ClickStop \/ ClickEmergency \/ ClickSafe
    PROVE  PageInv'
<1>1. page \in PageType
  BY DEF Base, Typed
<1>2. stream' = stream /\ child' = child /\ lines' = lines /\ replies' \subseteq replies
  BY DEF ClickStop, ClickEmergency, ClickSafe
<1>3. \A q \in requests' : q.kind = "run" => q \in requests
  <2>1. \E kind \in {"stop", "emergency", "safe"} : requests' = requests \cup {Request(kind, Blank)}
    BY DEF ClickStop, ClickEmergency, ClickSafe
  <2>2. \A kind : Request(kind, Blank).kind = kind
    BY DEF Request
  <2> QED
    BY <2>1, <2>2
<1>4. \/ page' = [page EXCEPT !.stopped = "stop", !.stopping = TRUE, !.status = "stopping"]
      \/ page' = [page EXCEPT !.stopped = "emergency", !.pressed = TRUE, !.status = "emergency"]
      \/ page' = [page EXCEPT !.status = "safing"]
  BY DEF ClickStop, ClickEmergency, ClickSafe
<1>5. /\ page'.of = page.of /\ page'.epoch = page.epoch /\ page'.running = page.running
      /\ page'.sawRunStart = page.sawRunStart /\ page'.passed = page.passed /\ page'.finished = page.finished
      /\ page'.failed = page.failed /\ page'.expected = page.expected /\ page'.ticked = page.ticked
      /\ page'.verdicts = page.verdicts /\ page'.status \notin Outcomes
  BY <1>1, <1>4 DEF PageType, Outcomes
<1> QED
  BY <1>2, <1>3, <1>5, Untouched

LEMMA PageClickRun ==
    ASSUME Base, PageInv, NEW f \in Forms, ClickRun(f)
    PROVE  PageInv'
<1>1. page \in PageType /\ starts \in Nat /\ page.of \in Nat /\ page.epoch \in Nat
  BY DEF Base, Typed, PageType
<1>2. child' = child /\ lines' = lines /\ replies' = replies /\ page.running = FALSE
  BY <1>1 DEF ClickRun, PageType
<1>3. CASE FormRefused(f)
  <2>1. page' = [page EXCEPT !.status = "form"] /\ requests' = requests /\ stream' = stream
    BY <1>3 DEF ClickRun
  <2>2. /\ page'.of = page.of /\ page'.epoch = page.epoch /\ page'.running = page.running
        /\ page'.sawRunStart = page.sawRunStart /\ page'.passed = page.passed /\ page'.finished = page.finished
        /\ page'.failed = page.failed /\ page'.expected = page.expected /\ page'.ticked = page.ticked
        /\ page'.verdicts = page.verdicts /\ page'.status \notin Outcomes
    BY <1>1, <2>1 DEF PageType, Outcomes
  <2> QED
    BY <1>2, <2>1, <2>2, Untouched
<1>4. CASE ~FormRefused(f)
  <2> DEFINE n == starts + 1
             q == [Request("run", f) EXCEPT !.of = n]
             v == [t \in Ids |-> ""]
             x == ExpectedTests(f)
  <2>1. /\ stream' = stream /\ requests' = requests \cup {q}
        /\ page' = [page EXCEPT !.running = TRUE, !.stopping = FALSE, !.status = "starting", !.of = n,
                        !.sawRunStart = FALSE, !.passed = None, !.finished = 0, !.failed = 0, !.stopped = None, !.pressed = FALSE,
                        !.expected = x, !.ticked = f.ticked, !.verdicts = v]
    BY <1>4 DEF ClickRun
  <2>2. n \in Nat /\ starts < n
    BY <1>1
  <2> HIDE DEF n
  <2>3. q.kind = "run" /\ q.of = n /\ q.epoch = page.epoch /\ q.form = f
    BY <1>1, <2>2 DEF Request
  <2> HIDE DEF q
  <2>4. \A t \in Ids : v[t] = ""
    OBVIOUS
  <2> HIDE DEF v, x
  <2>5. /\ page'.running = TRUE /\ page'.status = "starting" /\ page'.of = n /\ page'.epoch = page.epoch
        /\ page'.sawRunStart = FALSE /\ page'.passed = None /\ page'.finished = 0 /\ page'.failed = 0
        /\ page'.expected = x /\ page'.ticked = f.ticked /\ page'.verdicts = v
    BY <1>1, <2>1 DEF PageType
  <2>6. stream = None /\ (\A p \in requests : ~OfPage(p)) /\ (\A r \in replies : ~OfPage(r))
    BY <1>2 DEF PageInv, Waits
  <2>7. child.of # n /\ \A p \in requests : p.of # n
    BY <1>1, <2>2 DEF Base, Typed, Numbered, RequestType, IsChild
  <2>8. \A p : OfPage(p)' <=> OfPage(p)
    BY <2>5 DEF OfPage
  <2>9. Showing'
    BY <1>2, <2>1, <2>4, <2>5, <2>6 DEF Showing, Untold
  <2>10. Waits'
    BY <1>2, <2>1, <2>3, <2>5, <2>6, <2>8 DEF Waits, Outcomes
  <2>11. AsAskedFor'
    <3>1. \A p \in requests' : p.kind = "run" /\ p.of = n => p = q
      BY <2>1, <2>7
    <3>2. ExpectedTests(q.form) = x /\ q.form.ticked = f.ticked
      BY <2>3 DEF x
    <3> QED
      BY <1>2, <2>5, <2>7, <3>1, <3>2 DEF AsAskedFor, Asked
  <2>12. OverIsGone' /\ PageTellsTrue'
    BY <2>5 DEF OverIsGone, PageTellsTrue, PassedIsWhatWasAsked, OverMeansGone, Outcomes
  <2> QED
    BY <2>9, <2>10, <2>11, <2>12 DEF PageInv
<1> QED
  BY <1>3, <1>4

LEMMA PageTakeReply ==
    ASSUME Base, PageInv, NEW r \in replies, TakeReply(r)
    PROVE  PageInv'
<1> DEFINE ours == r.epoch = page.epoch
           refused == r.result = "409"
<1>0. page \in PageType /\ r \in ReplyType /\ page.running \in BOOLEAN
  BY DEF Base, Typed, PageType
<1>1. /\ requests' = requests /\ child' = child /\ lines' = lines /\ replies' = replies \ {r}
      /\ stream' = IF ours /\ r.kind = "run" /\ ~refused THEN 0 ELSE stream
      /\ r.kind = "run" \/ r.kind = "stop" \/ r.kind = "emergency" \/ r.kind = "safe"
      /\ page' =
              IF ~ours THEN page
              ELSE CASE r.kind = "run" /\ refused -> [page EXCEPT !.running = FALSE, !.stopping = FALSE, !.status = "active"]
                     [] r.kind = "run" /\ ~refused -> [page EXCEPT !.status = "running"]
                     [] r.kind = "stop" /\ refused ->
                          [page EXCEPT !.stopped = None, !.stopping = FALSE, !.status = IF page.running THEN "nothing" ELSE @]
                     [] r.kind = "emergency" -> [page EXCEPT !.status = CASE r.result = "failed" -> "emergencyFailed"
                                                                          [] r.result = "killed" -> "emergencyKilled"
                                                                          [] OTHER -> "emergencySafed"]
                     [] r.kind = "safe" -> [page EXCEPT !.status = IF r.result = "failed" THEN "safingFailed" ELSE "safed"]
                     [] OTHER -> page
  BY <1>0 DEF TakeReply, ReplyType, Kinds
<1>2. OfPage(r) <=> ours /\ r.kind = "run"
  BY DEF OfPage
<1> DEFINE Other ==
      /\ stream' = stream
      /\ page'.of = page.of /\ page'.epoch = page.epoch /\ page'.running = page.running
      /\ page'.sawRunStart = page.sawRunStart /\ page'.passed = page.passed /\ page'.finished = page.finished
      /\ page'.failed = page.failed /\ page'.expected = page.expected /\ page'.ticked = page.ticked
      /\ page'.verdicts = page.verdicts /\ (page'.status = page.status \/ page'.status \notin Outcomes)
<1> HIDE DEF ours
<1>3. ASSUME Other PROVE PageInv'
  BY <1>1, <1>3, Untouched
<1>4. CASE ~ours \/ (r.kind = "stop" /\ ~refused)
  <2>1. Other
    BY <1>1, <1>4
  <2> QED
    BY <1>3, <2>1
<1>5. CASE ours /\ r.kind = "stop" /\ refused
  <2> DEFINE status == IF page.running THEN "nothing" ELSE page.status
  <2>1. status = page.status \/ status \notin Outcomes
    BY DEF Outcomes
  <2>2. page' = [page EXCEPT !.stopped = None, !.stopping = FALSE, !.status = status]
    BY <1>1, <1>5
  <2> HIDE DEF status
  <2>3. Other
    BY <1>0, <1>1, <1>5, <2>1, <2>2 DEF PageType
  <2> QED
    BY <1>3, <2>3
<1>6. CASE ours /\ (r.kind = "emergency" \/ r.kind = "safe")
  <2>1. PICK status \in {"emergencyFailed", "emergencyKilled", "emergencySafed", "safingFailed", "safed"} :
          page' = [page EXCEPT !.status = status]
    BY <1>1, <1>6
  <2>2. status \notin Outcomes
    BY DEF Outcomes
  <2>3. Other
    BY <1>0, <1>1, <1>6, <2>1, <2>2 DEF PageType
  <2> QED
    BY <1>3, <2>3
<1>7. CASE ours /\ r.kind = "run"
  <2>1. /\ r.of = page.of /\ page.running = TRUE /\ stream = None /\ (\A q \in requests : ~OfPage(q))
        /\ (\A s \in replies' : ~OfPage(s)) /\ (r.result = "200" => NotAsked)
    BY <1>1, <1>2, <1>7 DEF PageInv, Waits
  <2>2. r.result \in {"200", "409"}
    BY <1>7 DEF Base, Safings
  <2>3. /\ page'.of = page.of /\ page'.epoch = page.epoch /\ page'.running = ~refused
        /\ page'.sawRunStart = page.sawRunStart /\ page'.passed = page.passed /\ page'.finished = page.finished
        /\ page'.failed = page.failed /\ page'.expected = page.expected /\ page'.ticked = page.ticked
        /\ page'.verdicts = page.verdicts /\ page'.status \notin Outcomes
        /\ stream' = IF refused THEN None ELSE 0
    <3>1. CASE refused
      <4>1. page' = [page EXCEPT !.running = FALSE, !.stopping = FALSE, !.status = "active"] /\ stream' = None
        BY <1>1, <1>7, <2>1, <3>1
      <4> QED
        BY <1>0, <3>1, <4>1 DEF PageType, Outcomes
    <3>2. CASE ~refused
      <4>1. page' = [page EXCEPT !.status = "running"] /\ stream' = 0
        BY <1>1, <1>7, <3>2
      <4> QED
        BY <1>0, <2>1, <3>2, <4>1 DEF PageType, Outcomes
    <3> QED
      BY <3>1, <3>2
  <2> HIDE DEF refused
  <2>4. (\A q : OfPage(q)' <=> OfPage(q)) /\ (NotAsked' <=> NotAsked)
    BY <1>1, <2>3 DEF OfPage, NotAsked
  <2>5. ~refused => NotAsked
    BY <2>1, <2>2 DEF refused
  <2>6. Waits'
    BY <1>1, <2>1, <2>3, <2>4, <2>5 DEF Waits
  <2>7. Untold(page) /\ Untold(page)'
    <3>1. Untold(page)
      BY <2>1 DEF PageInv, Showing
    <3> QED
      BY <2>3, <3>1 DEF Untold
  <2>8. Showing'
    <3>1. PICK p : p = page'
      OBVIOUS
    <3>2. Untold(p)
      BY <2>7, <3>1 DEF Untold
    <3>3. Len(lines) \in Nat
      BY LenProperties DEF Base, Typed
    <3>4. Told(0) = 0 /\ Len(lines) >= 0 /\ \A t : ~EndedBy(t, 0)
      BY <3>3 DEF Told, EndedBy
    <3>5. \A t : Shown(t, 0) = ""
      BY <3>4 DEF Shown, Under
    <3>6. Shows(p, 0)
      <4>1. p.sawRunStart = (0 > 0 /\ lines[1].kind = "runStart")
        <5>1. (0 > 0 /\ lines[1].kind = "runStart") = FALSE
          OBVIOUS
        <5>2. p.sawRunStart = FALSE
          BY <3>2, Zenon DEF Untold
        <5> QED
          BY <5>1, <5>2, Zenon
      <4>2. p.passed = IF 0 > 0 /\ lines[0].kind = "runEnd" THEN lines[0].ok ELSE None
        <5>1. (0 > 0 /\ lines[0].kind = "runEnd") = FALSE
          OBVIOUS
        <5>2. p.passed = None
          BY <3>2, Zenon DEF Untold
        <5> QED
          BY <5>1, <5>2, Zenon
      <4>3. IF Told(0) = 0 THEN p.finished = 0 ELSE Told(0) - 1 \in {2 * p.finished, 2 * p.finished + 1}
        BY <3>2, <3>4 DEF Untold
      <4>4. p.failed = 0 /\ \A t \in Ids : p.verdicts[t] = Shown(t, 0)
        BY <3>2, <3>5 DEF Untold
      <4>5. 0 <= Len(lines)
        BY <3>3
      <4> QED
        BY <4>1, <4>2, <4>3, <4>4, <4>5, Zenon DEF Shows
    <3>9. Shows(p, 0)'
      BY <1>1, <3>6, ShownStays
    <3>7. PICK s \in {0, None} : s = stream'
      BY <2>3
    <3>8. Shows(p, s)' \/ s = None
      BY <3>9, <3>7
    <3> QED
      BY <2>7, <3>1, <3>7, <3>8 DEF Showing
  <2>9. AsAskedFor'
    <3>1. Catalog' = Catalog /\ (Begun' <=> Begun)
      BY <1>1 DEF Catalog, Begun
    <3> QED
      BY <1>1, <2>1, <2>3, <3>1 DEF PageInv, AsAskedFor, Asked
  <2>10. OverIsGone' /\ PageTellsTrue'
    BY <2>3 DEF OverIsGone, PageTellsTrue, PassedIsWhatWasAsked, OverMeansGone, Outcomes
  <2> QED
    BY <2>6, <2>8, <2>9, <2>10 DEF PageInv
<1> QED
  BY <1>1, <1>4, <1>5, <1>6, <1>7

LEMMA PageWatch ==
    ASSUME Base, RunInv, PageInv, Watch
    PROVE  PageInv'
<1>1. page \in PageType /\ page.failed <= page.finished /\ page.epoch \in Nat
  BY DEF Base, Typed, Numbered, PageType
<1>2. child' = child /\ lines' = lines /\ requests' = requests /\ replies' = replies /\ stream # None
  BY DEF Watch
<1>3. /\ page.running = TRUE /\ page.status \notin Outcomes /\ NotAsked
      /\ (\A q \in requests : ~OfPage(q)) /\ (\A r \in replies : ~OfPage(r))
  BY <1>2 DEF PageInv, Waits
<1>4. PICK s \in Nat : s = stream
  BY <1>2 DEF Base, Typed
<1>5. s + 1 \in DOMAIN lines /\ lines[s + 1] \in LineType /\ stream' = s + 1
  BY <1>4, WatchApplies
<1>6. PICK n \in Nat : n = s + 1
  OBVIOUS
<1> DEFINE e == lines[s + 1]
           a == ApplyEvent(page, e)
<1>7. PICK status \in {page.status, "running"} : page' = [a EXCEPT !.status = status]
  BY <1>4, WatchApplies
<1>8. e \in LineType
  BY <1>5
<1> HIDE DEF e
<1>9. /\ a \in PageType /\ a.of = page.of /\ a.epoch = page.epoch /\ a.running = page.running
      /\ a.ticked = page.ticked /\ a.expected = page.expected
  BY <1>1, <1>8, EventApplied
<1> HIDE DEF a
<1>10. status \notin Outcomes /\ status \in Statuses
  BY <1>1, <1>3 DEF Outcomes, PageType, Statuses
<1>11. PICK q : q = page'
  OBVIOUS
<1>12. /\ q \in PageType /\ q.of = page.of /\ q.epoch = page.epoch /\ q.running = TRUE /\ q.status \notin Outcomes
       /\ q.ticked = page.ticked /\ q.expected = page.expected
       /\ q.sawRunStart = a.sawRunStart /\ q.passed = a.passed /\ q.finished = a.finished /\ q.failed = a.failed
       /\ q.verdicts = a.verdicts
  BY <1>3, <1>7, <1>9, <1>10, <1>11 DEF PageType
<1>13. Showing'
  <2>1. ASSUME child.of = page.of PROVE Shows(q, n)'
    <3>1. PICK p \in PageType : p = page
      BY <1>1
    <3>2. Shows(p, s)
      BY <1>2, <1>4, <2>1, <3>1 DEF PageInv, Showing
    <3>3. ApplyEvent(p, lines[s + 1]) = a
      BY <3>1 DEF a, e
    <3>4. \A field \in {"sawRunStart", "passed", "finished", "failed", "verdicts"} : q[field] = ApplyEvent(p, lines[s + 1])[field]
      BY <1>12, <3>3
    <3>5. Shows(q, s + 1)
      BY <1>5, <1>12, <3>2, <3>4, NextLineShows DEF RunInv
    <3>6. Shows(q, n)
      BY <1>6, <3>5
    <3> QED
      BY <1>2, <3>6, ShownStays
  <2>2. stream' = n /\ n # None
    BY <1>5, <1>6, PageAssumption DEF PageAssumption
  <2> QED
    BY <1>2, <1>11, <1>12, <2>1, <2>2 DEF Showing
<1>14. Waits'
  <2>1. (\A p : OfPage(p)' <=> OfPage(p)) /\ (NotAsked' <=> NotAsked)
    BY <1>2, <1>11, <1>12 DEF OfPage, NotAsked
  <2> QED
    BY <1>2, <1>3, <1>11, <1>12, <2>1 DEF Waits
<1>15. AsAskedFor'
  <2>1. Catalog' = Catalog /\ (Begun' <=> Begun)
    BY <1>2 DEF Catalog, Begun
  <2> QED
    BY <1>2, <1>3, <1>11, <1>12, <2>1 DEF PageInv, AsAskedFor, Asked
<1>16. OverIsGone' /\ PageTellsTrue'
  BY <1>11, <1>12 DEF OverIsGone, PageTellsTrue, PassedIsWhatWasAsked, OverMeansGone, Outcomes
<1> QED
  BY <1>13, <1>14, <1>15, <1>16 DEF PageInv

\* A test of the run's has ended exactly when it is one that was asked for.
LEMMA EndedWereAsked ==
    ASSUME Base, LinesInOrder, NEW t, Ended(t)
    PROVE  t \in ToSet(Catalog)
<1>1. PICK i \in DOMAIN lines : lines[i].kind = "testEnd" /\ lines[i].test = t
  BY DEF Ended
<1>2. i > 1 /\ lines[i - 1].kind = "testStart" /\ lines[i - 1].test = t
  BY <1>1 DEF LinesInOrder, InPlace
<1>3. i - 1 \in DOMAIN lines
  <2>1. DOMAIN lines = 1..Len(lines) /\ Len(lines) \in Nat
    BY LenProperties DEF Base, Typed
  <2> QED
    BY <1>1, <1>2, <2>1
<1>4. InPlace(i - 1)
  BY <1>3 DEF LinesInOrder
<1> QED
  BY <1>2, <1>4 DEF InPlace

\* A page with all of the lines of its run that says it passed counted what was asked.
LEMMA PassedWasAsked ==
    ASSUME Base, RunInv, PageInv, stream = Len(lines), stream # None, child.of = page.of,
           page.sawRunStart = TRUE, page.passed = TRUE
    PROVE  /\ page.failed = 0
           /\ page.expected # None /\ page.finished = page.expected
           /\ \A t \in Ids : page.verdicts[t] = (IF t \in page.ticked THEN "pass" ELSE "")
<1>1. PICK n \in Nat : n = Len(lines)
  BY LenProperties DEF Base, Typed
<1>2. Shows(page, n)
  BY <1>1 DEF PageInv, Showing
<1>3. n > 0 /\ lines[n].kind = "runEnd" /\ lines[n].ok = TRUE /\ lines[1].kind = "runStart"
  BY <1>2, PageAssumption DEF Shows, PageAssumption
<1>4. Begun
  BY <1>1, <1>3 DEF Begun
<1>5. Counted /\ AllSaid /\ Clean(n) /\ n = SaidAll(2) /\ lines[n - 1].kind # "testStart"
  BY <1>1, <1>3, <1>4 DEF RunInv, Stage, Passing
<1>6. page.running = TRUE
  BY DEF PageInv, Waits
<1>7. page.ticked = ToSet(Catalog) /\ page.expected = Expected(child.options)
  BY <1>4, <1>6 DEF PageInv, AsAskedFor, Asked
<1>8. page.finished \in Nat /\ PassesOf(child.options) \in Nat /\ Len(Catalog) \in Nat
  BY <1>5, CatalogFacts DEF Base, Typed, PageType, Counted
<1> DEFINE all == PassesOf(child.options) * Len(Catalog)
<1>9. all \in Nat /\ n = 2 * all + 2
  BY <1>5, <1>8 DEF SaidAll
<1>10. page.expected = all
  <2>1. page.expected = Len(Catalog) * PassesOf(child.options)
    BY <1>5, <1>7 DEF Expected, AllSaid, Catalog
  <2>2. \A a, b \in Nat : a * b = b * a
    OBVIOUS
  <2> QED
    BY <1>8, <2>1, <2>2
<1> HIDE DEF all
<1>11. Told(n) = n - 1 /\ Told(n) # 0
  BY <1>3, <1>9 DEF Told
<1>12. page.finished = all
  <2>1. Told(n) - 1 \in {2 * page.finished, 2 * page.finished + 1}
    BY <1>2, <1>11 DEF Shows
  <2>2. 2 * all \in {2 * page.finished, 2 * page.finished + 1}
    BY <1>9, <1>11, <2>1
  <2> QED
    BY <1>8, <1>9, <2>2
<1>13. page.failed = 0 /\ \A t \in Ids : page.verdicts[t] = Shown(t, n)
  BY <1>2, <1>5 DEF Shows
<1>14. ASSUME NEW t PROVE Shown(t, n) = (IF t \in page.ticked THEN "pass" ELSE "")
  <2>1. ~Under(t, n)
    BY <1>5, <1>11 DEF Under
  <2>2. EndedBy(t, n) <=> Ended(t)
    <3>1. DOMAIN lines = 1..n
      BY <1>1, LenProperties DEF Base, Typed
    <3> QED
      BY <3>1 DEF EndedBy, Ended
  <2>3. Ended(t) => t \in page.ticked
    BY <1>7, EndedWereAsked DEF RunInv
  <2>4. t \in page.ticked => Ended(t)
    <3> SUFFICES ASSUME t \in page.ticked PROVE Ended(t)
      OBVIOUS
    <3>1. PICK m \in DOMAIN Catalog : Catalog[m] = t
      BY <1>7, Zenon DEF ToSet
    <3>2. m \in 1..Len(Catalog)
      BY <3>1, CatalogFacts
    <3> QED
      BY <1>5, <3>1, <3>2 DEF AllSaid
  <2> QED
    BY <2>1, <2>2, <2>3, <2>4 DEF Shown
<1>15. page.expected # None
  BY <1>9, <1>10, PageAssumption DEF PageAssumption
<1> QED
  BY <1>10, <1>12, <1>13, <1>14, <1>15

\* One with all of them that saw no run begin has counted nothing.
LEMMA NeverStartedSawNone ==
    ASSUME Base, RunInv, PageInv, stream = Len(lines), stream # None, child.of = page.of, page.sawRunStart = FALSE
    PROVE  page.finished = 0
<1>1. PICK n \in Nat : n = Len(lines)
  BY LenProperties DEF Base, Typed
<1>2. Shows(page, n) /\ page.finished \in Nat
  BY <1>1 DEF PageInv, Showing, Base, Typed, PageType
<1>3. CASE n = 0
  <2>1. Told(n) = 0
    BY <1>3 DEF Told
  <2> QED
    BY <1>2, <2>1 DEF Shows
<1>4. CASE n > 0
  <2>1. lines[1].kind # "runStart"
    BY <1>2, <1>4 DEF Shows
  <2>2. 1 \in DOMAIN lines
    BY <1>1, <1>4, LenProperties DEF Base, Typed
  <2>3. lines[1].kind = "stderr" /\ n = 1
    BY <1>1, <2>1, <2>2 DEF RunInv, LinesInOrder, InPlace
  <2>4. Told(n) = 1
    BY <2>3 DEF Told
  <2>5. Told(n) - 1 \in {2 * page.finished, 2 * page.finished + 1}
    BY <1>2, <2>4 DEF Shows
  <2> QED
    BY <1>2, <2>4, <2>5
<1> QED
  BY <1>3, <1>4

LEMMA PageRunFinished ==
    ASSUME Base, RunInv, PageInv, RunFinished
    PROVE  PageInv'
<1>1. page \in PageType /\ IsChild(child)
  BY DEF Base, Typed
<1>2. /\ child' = child /\ lines' = lines /\ requests' = requests /\ replies' = replies
      /\ stream # None /\ stream' = None /\ stream = Len(lines) /\ child.alive = FALSE
  BY <1>1 DEF RunFinished, IsChild
<1>3. /\ page.running = TRUE /\ page.status \notin Outcomes /\ NotAsked
      /\ (\A q \in requests : ~OfPage(q)) /\ (\A r \in replies : ~OfPage(r))
  BY <1>2 DEF PageInv, Waits
<1>4. PICK status \in {page.status, Outcome(page)} :
        page' = [page EXCEPT !.running = FALSE, !.stopping = FALSE, !.status = status]
  <2>1. CASE page.stopped = "emergency"
    <3>1. page' = [page EXCEPT !.running = FALSE, !.stopping = FALSE]
      BY <2>1 DEF RunFinished
    <3>2. page' = [page EXCEPT !.running = FALSE, !.stopping = FALSE, !.status = page.status]
      BY <1>1, <3>1 DEF PageType
    <3> QED
      BY <3>2
  <2>2. CASE page.stopped # "emergency"
    <3>1. page' = [page EXCEPT !.running = FALSE, !.stopping = FALSE, !.status = Outcome(page)]
      BY <2>2 DEF RunFinished
    <3> QED
      BY <3>1
  <2> QED
    BY <2>1, <2>2
<1>5. /\ page'.of = page.of /\ page'.epoch = page.epoch /\ page'.running = FALSE /\ page'.status = status
      /\ page'.finished = page.finished /\ page'.failed = page.failed /\ page'.expected = page.expected
      /\ page'.ticked = page.ticked /\ page'.verdicts = page.verdicts
  BY <1>1, <1>4 DEF PageType
<1>6. Showing' /\ AsAskedFor' /\ OverIsGone'
  BY <1>2, <1>5 DEF Showing, AsAskedFor, OverIsGone
<1>7. Waits'
  <2>1. (\A p : OfPage(p)' <=> OfPage(p)) /\ (NotAsked' <=> NotAsked)
    BY <1>2, <1>5 DEF OfPage, NotAsked
  <2> QED
    BY <1>2, <1>3, <1>5, <2>1 DEF Waits
<1>8. /\ Outcome(page) = "PASSED" => page.sawRunStart = TRUE /\ page.passed = TRUE
      /\ Outcome(page) = "neverStarted" => page.sawRunStart = FALSE
      /\ Outcome(page) \in {"PASSED", "FAILED", "STOPPED", "STOPPED, failed"} => page.passed # None
  <2>1. page.sawRunStart \in BOOLEAN /\ None # FALSE /\ None # TRUE
    BY <1>1, PageAssumption DEF PageType, PageAssumption
  <2>2. CASE page.stopped = "stop" /\ page.passed = FALSE
    <3>1. Outcome(page) = "STOPPED" \/ Outcome(page) = "STOPPED, failed"
      BY <2>2 DEF Outcome
    <3>2. page.passed # None
      BY <2>1, <2>2
    <3> HIDE <2>2
    <3> QED
      BY <3>1, <3>2
  <2>3. CASE ~(page.stopped = "stop" /\ page.passed = FALSE)
    <3>1. Outcome(page) = IF ~page.sawRunStart THEN "neverStarted" ELSE IF page.passed = None THEN "crashed"
                          ELSE IF page.passed = TRUE THEN "PASSED" ELSE "FAILED"
      BY <2>3, Zenon DEF Outcome
    <3>2. CASE page.sawRunStart = FALSE
      BY <3>1, <3>2
    <3>3. CASE page.sawRunStart = TRUE /\ page.passed = None
      BY <3>1, <3>3
    <3>4. CASE page.sawRunStart = TRUE /\ page.passed # None
      BY <3>1, <3>4
    <3> QED
      BY <2>1, <3>2, <3>3, <3>4
  <2> QED
    BY <2>2, <2>3
<1>9. PassedIsWhatWasAsked'
  <2> SUFFICES ASSUME child.of = page.of PROVE PassedIsWhatWasAsked'
    BY <1>2, <1>5 DEF PassedIsWhatWasAsked
  <2>1. ASSUME status = "PASSED"
        PROVE  /\ page.failed = 0
               /\ page.expected # None /\ page.finished = page.expected
               /\ \A t \in Ids : page.verdicts[t] = (IF t \in page.ticked THEN "pass" ELSE "")
    <3>1. Outcome(page) = "PASSED"
      BY <1>3, <2>1 DEF Outcomes
    <3> QED
      BY <1>2, <1>8, <3>1, PassedWasAsked
  <2>2. ASSUME status = "neverStarted" PROVE page.finished = 0
    <3>1. Outcome(page) = "neverStarted"
      BY <1>3, <2>2 DEF Outcomes
    <3> QED
      BY <1>2, <1>8, <3>1, NeverStartedSawNone
  <2> QED
    BY <1>2, <1>5, <2>1, <2>2 DEF PassedIsWhatWasAsked
<1>10. OverMeansGone'
  <2> SUFFICES ASSUME child.of = page.of, status \in {"PASSED", "FAILED", "STOPPED", "STOPPED, failed"}
               PROVE  lines[Len(lines)].kind = "runEnd"
    BY <1>2, <1>5 DEF OverMeansGone
  <2>1. page.passed # None
    BY <1>3, <1>8 DEF Outcomes
  <2>2. Shows(page, Len(lines))
    BY <1>2 DEF PageInv, Showing
  <2> QED
    BY <2>1, <2>2 DEF Shows
<1> QED
  BY <1>6, <1>7, <1>9, <1>10 DEF PageInv, PageTellsTrue

LEMMA PageReload ==
    ASSUME Base, PageInv, Reload
    PROVE  PageInv'
<1>1. page \in PageType /\ page.epoch \in Nat
  BY DEF Base, Typed, PageType
<1> DEFINE n == page.epoch + 1
           v == [t \in Ids |-> ""]
<1>2. /\ page' = [page EXCEPT !.running = FALSE, !.stopping = FALSE, !.status = "idle", !.epoch = n, !.sawRunStart = FALSE,
                !.passed = None, !.finished = 0, !.failed = 0, !.expected = None, !.stopped = None, !.verdicts = v]
      /\ stream' = None /\ requests' = requests /\ replies' = replies
  BY DEF Reload
<1>3. n \in Nat /\ page.epoch < n
  BY <1>1
<1> HIDE DEF n, v
<1>4. page'.running = FALSE /\ page'.status = "idle" /\ page'.epoch = n
  BY <1>1, <1>2 DEF PageType
<1>5. (\A q \in requests : q.epoch # n) /\ (\A r \in replies : r.epoch # n)
  BY <1>1, <1>3 DEF Base, Typed, Numbered, RequestType, ReplyType
<1>6. (\A q \in requests' : ~OfPage(q)') /\ (\A r \in replies' : ~OfPage(r)')
  BY <1>2, <1>4, <1>5 DEF OfPage
<1>7. Waits'
  BY <1>2, <1>4, <1>6 DEF Waits, Outcomes
<1>8. Showing' /\ AsAskedFor' /\ OverIsGone' /\ PageTellsTrue'
  BY <1>2, <1>4 DEF Showing, AsAskedFor, OverIsGone, PageTellsTrue, PassedIsWhatWasAsked, OverMeansGone, Outcomes
<1> QED
  BY <1>7, <1>8 DEF PageInv

LEMMA PageBegins ==
    Init => RunInv /\ PageInv
<1> SUFFICES ASSUME Init PROVE RunInv /\ PageInv
  OBVIOUS
<1>1. lines = <<>> /\ requests = {} /\ replies = {} /\ stream = None
  BY DEF Init
<1>2. child.alive = FALSE /\ child.stage = "gone" /\ page.running = FALSE /\ page.status = "idle"
  BY DEF Init, Gone
<1>3. DOMAIN lines = {} /\ ~Begun
  BY <1>1 DEF Begun
<1>4. RunInv
  BY <1>1, <1>2, <1>3 DEF RunInv, LinesInOrder, Stage, Stepped, Passing
<1>5. Showing /\ Waits /\ AsAskedFor /\ OverIsGone
  BY <1>1, <1>2 DEF Showing, Waits, NotAsked, AsAskedFor, OverIsGone, Outcomes
<1>6. PageTellsTrue
  BY <1>2 DEF PageTellsTrue, PassedIsWhatWasAsked, OverMeansGone
<1> QED
  BY <1>4, <1>5, <1>6 DEF PageInv

LEMMA PageStep ==
    ASSUME Base, Asking, RunInv, PageInv, [Next]_vars
    PROVE  PageInv'
<1>1. ASSUME NEW r \in requests, ServeRun(r) \/ ServeStop(r) \/ ServeEmergency(r) \/ ServeSafe(r) PROVE PageInv'
  BY <1>1, PageServeRun, PageServes
<1>2. ASSUME NEW s \in safing, SafeEnds(s) PROVE PageInv'
  BY <1>2, PageSafeEnds
<1>3. CASE ChildNext
  BY <1>3, PageChild
<1>4. CASE PageNext
  BY <1>4, PageClickRun, PageButtons, PageTakeReply, PageWatch, PageRunFinished, PageReload DEF PageNext
<1>5. CASE Quiet \/ UNCHANGED vars
  BY <1>5, Untouched DEF Quiet, vars
<1> QED
  BY <1>1, <1>2, <1>3, <1>4, <1>5 DEF Next, ChildNext, PageNext

\* What a page says of a run is so, whatever was stopped, killed, clicked again or
\* loaded again on the way: while the run it started is the last one the server
\* had, it says PASSED only when every test it asked for has ended well in every
\* pass it asked for and no other has, an outcome only of a run that is gone, and
\* a result only of one that gave it (outcome and applyEvent of model/run.js, and
\* run.js's runFinished).
THEOREM PageIsTrue ==
    Spec => []PageTellsTrue
<1>1. Init => Asking
  <2> SUFFICES ASSUME child = Gone PROVE Asking
    BY DEF Init
  <2>1. child.stage = "gone"
    BY DEF Gone
  <2> QED
    BY <2>1 DEF Asking
<1>2. Init => RunInv /\ PageInv
  BY PageBegins
<1>3. Base /\ Asking /\ [Next]_vars => Asking'
  BY AskingStep
<1>4. Base /\ Asking /\ RunInv /\ [Next]_vars => RunInv'
  BY RunStep
<1>5. Base /\ Asking /\ RunInv /\ PageInv /\ [Next]_vars => PageInv'
  BY PageStep
<1>6. PageInv => PageTellsTrue
  BY DEF PageInv
<1> QED
  BY <1>1, <1>2, <1>3, <1>4, <1>5, <1>6, BaseAlways, PTL DEF Spec

\* Whatever is clicked, served, killed or reloaded, the page, its requests and
\* the run stay what they are meant to be; a page counts no more failures than ends.
THEOREM PageTyped ==
    Spec => []TypeOK
<1>1. Base => TypeOK
  <2> SUFFICES ASSUME Base PROVE TypeOK
    OBVIOUS
  <2>1. MaxStarts \in Nat /\ MaxTroubles \in Nat /\ starts \in 0..MaxStarts /\ troubles \in 0..MaxTroubles /\ starts \in Nat /\ troubles \in Nat
    BY PageAssumption DEF PageAssumption, Base, Typed
  <2>2. page \in PageType /\ IsChild(child)
    BY DEF Base, Typed
  <2>3. {page.running, page.stopping, page.sawRunStart, page.pressed, child.alive, child.stop, child.killed} \subseteq BOOLEAN
    BY <2>2 DEF PageType, IsChild
  <2>4. page.of \in 0..starts /\ page.epoch \in 0..troubles /\ page.failed \in 0..page.finished
    BY <2>1, <2>2 DEF Base, Numbered, PageType
  <2>5. /\ page.passed \in BOOLEAN \cup {None} /\ page.stopped \in {"stop", "emergency", None} /\ page.finished \in Nat
        /\ page.expected \in Nat \cup {None} /\ page.ticked \subseteq Ids /\ page.verdicts \in [Ids -> {"", "running", "pass", "fail"}]
    BY <2>2 DEF PageType, Verdict
  <2>6. \A r \in requests \cup {s.request : s \in safing} :
          r.kind \in {"run", "stop", "emergency", "safe"} /\ r.form \in Forms /\ r.of \in 0..starts
    <3>1. ASSUME NEW r \in requests PROVE r.kind \in {"run", "stop", "emergency", "safe"} /\ r.form \in Forms /\ r.of \in 0..starts
      BY <2>1 DEF Base, Typed, Numbered, RequestType, Kinds
    <3>2. ASSUME NEW s \in safing
          PROVE  s.request.kind \in {"run", "stop", "emergency", "safe"} /\ s.request.form \in Forms /\ s.request.of \in 0..starts
      <4>1. s.request \in RequestType /\ s.request.of <= starts
        BY DEF Base, Typed, Numbered, SafingType
      <4> QED
        BY <2>1, <4>1 DEF RequestType, Kinds
    <3> QED
      BY <3>1, <3>2
  <2>7. \A r \in replies : r.result \in {"200", "409", "failed", "killed", "safed"} /\ r.run \in 0..starts
    BY <2>1 DEF Base, Typed, Numbered, ReplyType
  <2>8. child.form \in Forms /\ child.of \in 0..starts /\ child.stage \in {"gone", "parse", "between", "test", "ending"}
    BY <2>1, <2>2 DEF Base, Numbered, IsChild, Stages
  <2>9. \A i \in DOMAIN lines : lines[i].kind \in {"stderr", "runStart", "testStart", "testEnd", "runEnd"}
    <3>1. \A i \in DOMAIN lines : lines[i] \in LineType
      BY ElementOfSeq, LenProperties DEF Base, Typed
    <3> QED
      BY <3>1 DEF LineType
  <2>10. stream \in Nat \cup {None}
    BY DEF Base, Typed
  <2> QED
    BY <2>1, <2>3, <2>4, <2>5, <2>6, <2>7, <2>8, <2>9, <2>10 DEF TypeOK
<1> QED
  BY <1>1, BaseAlways, PTL

-----------------------------------------------------------------------------
(* Places that are moved, and places that are added.                        *)

LEMMA CountShift ==
    ASSUME NEW S \in SUBSET Nat, IsFiniteSet(S), NEW T \in SUBSET Nat, NEW m \in Nat, NEW n \in Nat, m <= n,
           Moved(S, T, m, n)
    PROVE  /\ IsFiniteSet(T) /\ Cardinality(T) \in Nat
           /\ Cardinality(S) = Rank(S, n) + Cardinality(T)
<1> USE DEF Moved
<1> DEFINE A == UpTo(S, n)
           B == {s \in S : s > n}
           f == [b \in B |-> b - m]
<1>1. /\ IsFiniteSet(A) /\ Rank(S, n) = Cardinality(A)
      /\ Rank(S, n) \in Nat
  BY RankInRange
<1>2. IsFiniteSet(B)
  <2>1. B \in SUBSET S
    OBVIOUS
  <2> QED
    BY <2>1, FS_Subset, Zenon
<1>3. A \cup B = S /\ A \cap B = {}
  <2>1. \A s \in S : s \in Nat
    OBVIOUS
  <2>2. \A s : /\ s \in A <=> s \in S /\ s <= n
               /\ s \in B <=> s \in S /\ s > n
    BY DEF UpTo
  <2>3. \A s \in S : s <= n <=> ~(s > n)
    BY <2>1
  <2> HIDE DEF A, B
  <2> QED
    BY <2>2, <2>3, Zenon
<1>4. Cardinality(S) = Cardinality(A) + Cardinality(B)
  <2>1. Cardinality({}) = 0
    BY FS_EmptySet
  <2>2. Cardinality(A \cup B) = Cardinality(A) + Cardinality(B) - Cardinality(A \cap B)
    BY <1>1, <1>2, FS_Union, Zenon
  <2>3. Cardinality(A) \in Nat /\ Cardinality(B) \in Nat
    BY <1>1, <1>2, FS_CardinalityType, Zenon
  <2> HIDE DEF A, B
  <2> QED
    BY <1>3, <2>1, <2>2, <2>3
<1>5. IsFiniteSet(T) /\ Cardinality(T) = Cardinality(B)
  <2>1. f \in [B -> T]
    <3>1. ASSUME NEW b \in B PROVE b - m \in T
      <4>1. b \in Nat /\ b > n /\ b \in S
        OBVIOUS
      <4>2. b - m \in Nat /\ (b - m) + m = b
        BY <4>1
      <4> QED
        BY <4>1, <4>2
    <3> QED
      BY <3>1
  <2>2. \A b, c \in B : f[b] = f[c] => b = c
    <3>1. ASSUME NEW b \in B, NEW c \in B, f[b] = f[c] PROVE b = c
      <4>1. b \in Nat /\ c \in Nat /\ b - m = c - m
        BY <3>1
      <4> QED
        BY <4>1
    <3> QED
      BY <3>1
  <2>3. \A t \in T : \E b \in B : f[b] = t
    <3>1. ASSUME NEW t \in T PROVE t + m \in B /\ f[t + m] = t
      <4>1. t \in Nat /\ t + m \in S /\ t + m > n
        OBVIOUS
      <4>2. t + m \in B
        BY <4>1
      <4> QED
        BY <4>1, <4>2
    <3> QED
      BY <3>1
  <2>4. f \in Bijection(B, T)
    BY <2>1, <2>2, <2>3, Zenon DEF Bijection, Injection, Surjection, IsInjective
  <2> QED
    BY <2>4, <1>2, FS_Bijection, Zenon DEF ExistsBijection
<1> QED
  <2>1. Cardinality(T) \in Nat
    BY <1>5, FS_CardinalityType, Zenon
  <2> QED
    BY <1>1, <1>4, <1>5, <2>1

(* Ranks move with their places.                                            *)
LEMMA RankShift ==
    ASSUME NEW S \in SUBSET Nat, IsFiniteSet(S), NEW T \in SUBSET Nat, NEW m \in Nat, NEW n \in Nat, m <= n,
           Moved(S, T, m, n),
           NEW t \in T
    PROVE  Rank(T, t) \in Nat /\ Rank(S, n) \in Nat /\ Rank(S, t + m) = Rank(S, n) + Rank(T, t)
<1> DEFINE U == UpTo(S, t + m)
           V == UpTo(T, t)
<1>1. t \in Nat /\ t + m \in Nat /\ t + m > n
  BY DEF Moved
<1>2. U \in SUBSET Nat /\ IsFiniteSet(U) /\ Cardinality(U) = Rank(S, t + m) /\ Rank(S, t + m) \in Nat
  <2>1. U \in SUBSET Nat
    BY DEF UpTo
  <2> QED
    BY <2>1, <1>1, RankInRange
<1>3. V \in SUBSET Nat
  BY DEF UpTo
<1>4. Moved(U, V, m, n)
  BY <1>1 DEF UpTo, Moved
<1>5. UpTo(U, n) = UpTo(S, n)
  <2>1. \A s \in S : s <= n => s <= t + m
    <3>1. \A s \in S : s \in Nat
      OBVIOUS
    <3> QED
      BY <3>1, <1>1
  <2> QED
    BY <2>1, Zenon DEF UpTo
<1>6. Rank(U, n) = Rank(S, n) /\ Rank(S, n) \in Nat
  <2>1. Rank(U, n) = Cardinality(UpTo(U, n))
    BY <1>2, RankInRange
  <2>2. Rank(S, n) = Cardinality(UpTo(S, n)) /\ Rank(S, n) \in Nat
    BY RankInRange
  <2> QED
    BY <2>1, <2>2, <1>5, Zenon
<1>7. Rank(T, t) = Cardinality(V)
  BY Zenon DEF Rank, UpTo
<1> HIDE DEF U, V
<1>8. Cardinality(V) \in Nat /\ Cardinality(U) = Rank(U, n) + Cardinality(V)
  <2>1. IsFiniteSet(U) /\ U \in SUBSET Nat /\ m \in Nat /\ n \in Nat /\ m <= n
    BY <1>2
  <2>2. \A A, B : IsFiniteSet(A) /\ A \in SUBSET Nat /\ B \in SUBSET Nat /\ Moved(A, B, m, n) =>
                Cardinality(B) \in Nat /\ Cardinality(A) = Rank(A, n) + Cardinality(B)
    BY CountShift
  <2> QED
    BY <2>1, <2>2, <1>3, <1>4, Zenon
<1> QED
  BY <1>2, <1>6, <1>7, <1>8

(* A number beyond the others is the last place.                            *)
LEMMA RankAdd ==
    ASSUME NEW S \in SUBSET Nat, IsFiniteSet(S), NEW x \in Nat, \A s \in S : s < x
    PROVE  /\ IsFiniteSet(S \cup {x}) /\ Cardinality(S) \in Nat
           /\ Cardinality(S \cup {x}) = Cardinality(S) + 1
           /\ Rank(S \cup {x}, x) = Cardinality(S) + 1
           /\ \A s \in S : Rank(S \cup {x}, s) = Rank(S, s)
<1>1. x \notin S
  OBVIOUS
<1>2. /\ IsFiniteSet(S \cup {x}) /\ Cardinality(S) \in Nat
      /\ Cardinality(S \cup {x}) = Cardinality(S) + 1
  BY <1>1, FS_AddElement, FS_CardinalityType
<1>3. {m \in S \cup {x} : m <= x} = S \cup {x}
  <2>1. \A m \in S \cup {x} : m <= x
    OBVIOUS
  <2> QED
    BY <2>1, Zenon
<1>4. Rank(S \cup {x}, x) = Cardinality(S \cup {x})
  BY <1>3, Zenon DEF Rank
<1>5. ASSUME NEW s \in S PROVE Rank(S \cup {x}, s) = Rank(S, s)
  <2>1. s \in Nat /\ s < x
    OBVIOUS
  <2>2. {m \in S \cup {x} : m <= s} = {m \in S : m <= s}
    BY <2>1
  <2> QED
    BY <2>2, Zenon DEF Rank
<1> QED
  BY <1>2, <1>4, <1>5

(* The place after a number, when the next is one of them, and when not.    *)
LEMMA RankNext ==
    ASSUME NEW S \in SUBSET Nat, IsFiniteSet(S), NEW n \in Nat
    PROVE  /\ Rank(S, n) \in Nat
           /\ Rank(S, n + 1) = IF n + 1 \in S THEN Rank(S, n) + 1 ELSE Rank(S, n)
<1> DEFINE A == {m \in S : m <= n}
           B == {m \in S : m <= n + 1}
<1>1. /\ IsFiniteSet(A) /\ Rank(S, n) = Cardinality(A) /\ Rank(S, n + 1) = Cardinality(B)
      /\ Rank(S, n) \in Nat
  BY RankInRange DEF UpTo, Rank
<1>2. \A m \in Nat : m <= n + 1 <=> m <= n \/ m = n + 1
  OBVIOUS
<1>3. B = IF n + 1 \in S THEN A \cup {n + 1} ELSE A
  BY <1>2, Zenon
<1>4. n + 1 \notin A
  OBVIOUS
<1> HIDE DEF A, B
<1> QED
  BY <1>1, <1>3, <1>4, FS_AddElement

LEMMA GreatestOf ==
    ASSUME NEW S \in SUBSET Nat, IsFiniteSet(S), S # {}
    PROVE  Max(S) \in S /\ \A i \in S : Max(S) >= i
<1>1. Cardinality(S) \in Nat /\ Cardinality(S) # 0
  BY FS_CardinalityType, FS_EmptySet
<1>2. Cardinality(S) \in 1..Cardinality(S)
  BY <1>1
<1>3. PICK m \in S : Rank(S, m) = Cardinality(S)
  BY <1>2, RankOnto
<1>4. ASSUME NEW i \in S PROVE m >= i
  <2>1. m <= i <=> Rank(S, m) <= Rank(S, i)
    BY RankOrder
  <2>2. m \in Nat /\ i \in Nat /\ Rank(S, i) \in 1..Cardinality(S)
    BY RankOrder
  <2>3. m < i <=> Rank(S, m) < Rank(S, i)
    BY RankOrder
  <2> QED
    BY <1>1, <1>3, <2>2, <2>3
<1> QED
  BY <1>4, Zenon DEF Max

LEMMA SomePlaces ==
    ASSUME NEW S, NEW n \in Nat, S \subseteq 1..n
    PROVE  S \in SUBSET Nat /\ IsFiniteSet(S) /\ Cardinality(S) \in Nat
<1>1. S \in SUBSET Nat
  OBVIOUS
<1>2. IsFiniteSet(S)
  <2>1. IsFiniteSet(1..n)
    BY FS_Interval
  <2> QED
    BY <2>1, FS_Subset
<1> QED
  BY <1>1, <1>2, FS_CardinalityType

(* The filter and the greatest of RunLogs, seen through its instance.       *)
LEMMA SamePlaces ==
    ASSUME NEW seq, NEW S
    PROVE  G!At(seq, S) = At(seq, S) /\ G!Max(S) = Max(S)
<1>1. G!InOrder(S) = InOrder(S)
  <2>0. \A T : G!Cardinality(T) = Cardinality(T)
    BY Zenon DEF G!Cardinality, Cardinality
  <2>1. \A n : G!Rank(S, n) = Rank(S, n)
    BY <2>0, Zenon DEF G!Rank, Rank
  <2> QED
    BY <2>0, <2>1, SMT DEF G!InOrder, InOrder
<1> QED
  BY <1>1, Zenon DEF G!At, At, G!Max, Max

-----------------------------------------------------------------------------
(* The stream: what comes through the pipe in pieces.                       *)

LEMMA PartOf ==
    ASSUME NEW X, NEW s \in Seq(X), NEW m \in Nat \ {0}, NEW n \in Nat, n <= Len(s), m <= n + 1
    PROVE  /\ SubSeq(s, m, n) \in Seq(X) /\ Len(SubSeq(s, m, n)) = n - m + 1
           /\ \A i \in 1..(n - m + 1) : SubSeq(s, m, n)[i] = s[m + i - 1]
<1>1. Len(s) \in Nat /\ m \in Int /\ n \in Int
  BY LenProperties
<1>2. \A i \in m..n : i \in 1..Len(s)
  BY <1>1
<1>3. \A i \in m..n : s[i] \in X
  BY <1>2, ElementOfSeq
<1>4. /\ SubSeq(s, m, n) \in Seq(X)
      /\ Len(SubSeq(s, m, n)) = IF m <= n THEN n - m + 1 ELSE 0
      /\ \A i \in 1..(n - m + 1) : SubSeq(s, m, n)[i] = s[m + i - 1]
  BY <1>1, <1>3, SubSeqProperties
<1>5. ~(m <= n) => n - m + 1 = 0
  OBVIOUS
<1> QED
  BY <1>4, <1>5

LEMMA TupleIsSeq ==
    ASSUME NEW X, NEW n \in Nat, NEW f \in [1..n -> X]
    PROVE  f \in Seq(X) /\ Len(f) = n
  OBVIOUS

LEMMA DropOf ==
    ASSUME NEW X, NEW s \in Seq(X), NEW m \in 0..Len(s)
    PROVE  LET v == SubSeq(s, m + 1, Len(s)) IN
           /\ v \in Seq(X) /\ Len(v) = Len(s) - m /\ DOMAIN v = 1..(Len(s) - m)
           /\ \A i \in 1..(Len(s) - m) : i \in Nat /\ i + m \in 1..Len(s) /\ v[i] = s[i + m]
<1> DEFINE k == m + 1
           v == SubSeq(s, k, Len(s))
<1>1. Len(s) \in Nat /\ DOMAIN s = 1..Len(s) /\ m \in Nat /\ m <= Len(s)
  BY LenProperties
<1>2. m + 1 \in Nat \ {0} /\ Len(s) <= Len(s) /\ m + 1 <= Len(s) + 1
  BY <1>1
<1>3. /\ v \in Seq(X) /\ Len(v) = Len(s) - k + 1
      /\ \A i \in 1..(Len(s) - k + 1) : v[i] = s[k + i - 1]
  <2>1. k \in Nat \ {0} /\ Len(s) \in Nat /\ Len(s) <= Len(s) /\ k <= Len(s) + 1
    BY <1>1, <1>2
  <2> HIDE DEF k
  <2> QED
    BY <2>1, PartOf, Zenon
<1>4. \A i \in 1..(Len(s) - (m + 1) + 1) : v[i] = s[(m + 1) + i - 1]
  BY <1>3, Zenon
<1>5. Len(s) - (m + 1) + 1 = Len(s) - m
  BY <1>1
<1>6. ASSUME NEW i \in 1..(Len(s) - m) PROVE i \in Nat /\ i + m \in 1..Len(s) /\ v[i] = s[i + m]
  <2>1. i \in 1..(Len(s) - (m + 1) + 1) /\ (m + 1) + i - 1 = i + m /\ i + m \in 1..Len(s) /\ i \in Nat
    BY <1>1
  <2> QED
    BY <2>1, <1>4, Zenon
<1>7. DOMAIN v = 1..Len(v)
  BY <1>3, LenProperties
<1> QED
  BY <1>3, <1>5, <1>6, <1>7, Zenon

LEMMA JsonPlaces ==
    ASSUME NEW w \in Seq(Piece)
    PROVE  /\ Len(w) \in Nat /\ DOMAIN w = 1..Len(w)
           /\ JsonEnds(w) \in SUBSET (1..Len(w)) /\ JsonEnds(w) \in SUBSET Nat /\ IsFiniteSet(JsonEnds(w))
           /\ Cardinality(JsonEnds(w)) \in Nat
           /\ \A i \in DOMAIN w : w[i] \in Piece /\ w[i].newline \in BOOLEAN /\ w[i].of \in Hook
<1>1. Len(w) \in Nat /\ DOMAIN w = 1..Len(w)
  BY LenProperties
<1>2. JsonEnds(w) \in SUBSET (1..Len(w))
  BY <1>1 DEF JsonEnds
<1>3. JsonEnds(w) \in SUBSET Nat
  BY <1>2
<1>4. IsFiniteSet(JsonEnds(w))
  <2>1. IsFiniteSet(1..Len(w))
    BY <1>1, FS_Interval
  <2> QED
    BY <2>1, <1>2, FS_Subset, Zenon
<1>5. Cardinality(JsonEnds(w)) \in Nat
  BY <1>4, FS_CardinalityType
<1>6. \A i \in DOMAIN w : w[i] \in Piece
  BY <1>1, ElementOfSeq
<1>7. \A p \in Piece : p.newline \in BOOLEAN /\ p.of \in Hook
  BY DEF Piece
<1> QED
  BY <1>1, <1>2, <1>3, <1>4, <1>5, <1>6, <1>7

(* The line that ends at a newline is its two pieces.                       *)
LEMMA LineIsPair ==
    ASSUME NEW w \in Seq(Piece), InPairs(w), NEW e \in DOMAIN w, w[e].newline
    PROVE  e - 1 \in DOMAIN w /\ G!LineTo(w, e) = SubSeq(w, e - 1, e)
<1> DEFINE Begins(b) == (b > 1 => w[b - 1].newline) /\ \A i \in b..(e - 1) : ~w[i].newline
<1>1. Len(w) \in Nat /\ DOMAIN w = 1..Len(w) /\ e \in Nat
  BY LenProperties
<1>2. e > 1 /\ ~w[e - 1].newline
  BY <1>1 DEF InPairs
<1>3. e - 1 \in 1..e /\ e - 1 \in DOMAIN w
  BY <1>1, <1>2
<1>4. Begins(e - 1)
  <2>1. ASSUME e - 1 > 1 PROVE w[e - 2].newline
    <3>1. e - 2 \in DOMAIN w /\ e - 2 < Len(w) /\ (e - 2) + 1 = e - 1
      BY <2>1, <1>1, <1>3
    <3>2. ~w[e - 2].newline => w[(e - 2) + 1].newline
      BY <3>1 DEF InPairs
    <3> QED
      BY <3>1, <3>2, <1>2
  <2>2. (e - 1) - 1 = e - 2
    BY <1>1
  <2>3. \A i \in (e - 1)..(e - 1) : i = e - 1
    BY <1>1
  <2> QED
    BY <2>1, <2>2, <2>3, <1>2
<1>5. ASSUME NEW b \in 1..e, Begins(b) PROVE b = e - 1
  <2>1. b # e
    BY <1>5, <1>1, <1>2
  <2>2. ASSUME b < e - 1 PROVE FALSE
    <3>1. e - 2 \in b..(e - 1) /\ e - 1 > 1
      BY <2>2, <1>1
    <3>2. ~w[e - 2].newline
      BY <3>1, <1>5
    <3>3. w[(e - 1) - 1].newline /\ (e - 1) - 1 = e - 2
      BY <3>1, <1>4, <1>1
    <3> QED
      BY <3>2, <3>3
  <2> QED
    BY <2>1, <2>2, <1>1
<1>6. (CHOOSE b \in 1..e : Begins(b)) = e - 1
  BY <1>3, <1>4, <1>5
<1> QED
  BY <1>3, <1>6, Zenon DEF G!LineTo

(* A line is a hook when its kind is, and it can be read.                   *)
LEMMA PairParses ==
    ASSUME NEW w \in Seq(Piece), InPairs(w), NEW e \in DOMAIN w, w[e].newline
    PROVE  G!ParseEvent(G!LineTo(w, e)) <=> w[e].text = "json" /\ G!Parses(w[e].of)
<1> DEFINE line == G!LineTo(w, e)
<1>1. e - 1 \in DOMAIN w /\ line = SubSeq(w, e - 1, e)
  BY LineIsPair
<1>2. Len(w) \in Nat /\ DOMAIN w = 1..Len(w) /\ e \in Nat
  BY LenProperties
<1>4. Len(line) = 2 /\ line[1] = w[e - 1] /\ line[2] = w[e]
  <2>1. e - 1 \in Nat \ {0} /\ e <= Len(w) /\ e - 1 <= e + 1
    BY <1>1, <1>2
  <2> DEFINE sub == SubSeq(w, e - 1, e)
  <2>2. Len(sub) = e - (e - 1) + 1 /\ \A i \in 1..(e - (e - 1) + 1) : sub[i] = w[(e - 1) + i - 1]
    BY <2>1, <1>2, PartOf
  <2>3. e - (e - 1) + 1 = 2 /\ (e - 1) + 1 - 1 = e - 1 /\ (e - 1) + 2 - 1 = e
    BY <1>2
  <2> HIDE DEF sub
  <2>4. Len(sub) = 2 /\ \A i \in 1..2 : sub[i] = w[(e - 1) + i - 1]
    BY <2>2, <2>3
  <2>5. Len(sub) = 2 /\ sub[1] = w[e - 1] /\ sub[2] = w[e]
    BY <2>4, <2>3
  <2> QED
    BY <2>5, <1>1 DEF sub
<1>5. ~w[e - 1].newline /\ w[e] = [w[e - 1] EXCEPT !.newline = TRUE]
  BY DEF InPairs
<1>6. w[e - 1] \in Piece /\ w[e] \in Piece
  BY <1>1, JsonPlaces
<1>7. w[e - 1].text = w[e].text /\ w[e - 1].of = w[e].of
  <2>1. \A p \in Piece : LET q == [p EXCEPT !.newline = TRUE] IN q.text = p.text /\ q.of = p.of
    BY DEF Piece
  <2> QED
    BY <1>5, <1>6, <2>1
<1> HIDE DEF line
<1>8. G!ParseEvent(line) <=> w[e].text = "json" /\ G!Parses(w[e].of)
  BY <1>4, <1>5, <1>7 DEF G!ParseEvent
<1> QED
  BY <1>8 DEF line

(* What is left after the last whole line.                                  *)
LEMMA TailOf ==
    ASSUME NEW w \in Seq(Piece), InPairs(w), NEW m \in 0..Len(w), m = 0 \/ w[m].newline
    PROVE  LET v == SubSeq(w, m + 1, Len(w)) IN
           /\ v \in Seq(Piece) /\ Len(v) = Len(w) - m /\ \A i \in DOMAIN v : v[i] = w[i + m]
           /\ InPairs(v) /\ (WholeLines(w) => WholeLines(v))
<1> DEFINE v == SubSeq(w, m + 1, Len(w))
<1>1. Len(w) \in Nat /\ DOMAIN w = 1..Len(w) /\ m \in Nat /\ m <= Len(w)
  BY LenProperties
<1>2. v \in Seq(Piece) /\ Len(v) = Len(w) - m /\ DOMAIN v = 1..(Len(w) - m)
  BY DropOf
<1>3. \A i \in DOMAIN v : i \in Nat /\ i + m \in DOMAIN w /\ v[i] = w[i + m]
  BY <1>1, DropOf
<1> HIDE DEF v
<1>4. InPairs(v)
  <2> SUFFICES ASSUME NEW i \in DOMAIN v
               PROVE  IF v[i].newline THEN i > 1 /\ ~v[i - 1].newline /\ v[i] = [v[i - 1] EXCEPT !.newline = TRUE]
                      ELSE i < Len(v) => v[i + 1].newline
    BY Zenon DEF InPairs
  <2>1. i \in Nat /\ i >= 1 /\ i + m \in DOMAIN w /\ v[i] = w[i + m]
    BY <1>2, <1>3
  <2>2. CASE v[i].newline
    <3>1. /\ i + m > 1 /\ ~w[(i + m) - 1].newline
          /\ w[i + m] = [w[(i + m) - 1] EXCEPT !.newline = TRUE]
      BY <2>1, <2>2 DEF InPairs
    <3>2. i > 1
      <4>1. i = 1 => (i + m) - 1 = m /\ m # 0
        BY <1>1, <2>1, <3>1
      <4> QED
        BY <4>1, <2>1, <3>1
    <3>3. i - 1 \in DOMAIN v /\ (i - 1) + m = (i + m) - 1
      BY <3>2, <2>1, <1>1, <1>2
    <3>4. v[i - 1] = w[(i + m) - 1]
      BY <3>3, <1>3
    <3> QED
      BY <2>1, <2>2, <3>1, <3>2, <3>4
  <2>3. CASE ~v[i].newline
    <3>1. ASSUME i < Len(v) PROVE v[i + 1].newline
      <4>0. \A k, q, n0 \in Nat : q <= n0 /\ k < n0 - q => k + q < n0 /\ k + 1 \in 1..(n0 - q) /\ (k + 1) + q = (k + q) + 1
        OBVIOUS
      <4>1. i + m < Len(w) /\ i + 1 \in DOMAIN v /\ (i + 1) + m = (i + m) + 1
        BY <4>0, <3>1, <1>1, <1>2, <2>1
      <4>2. w[(i + m) + 1].newline
        BY <4>1, <2>1, <2>3 DEF InPairs
      <4> QED
        BY <4>1, <4>2, <1>3
    <3> QED
      BY <2>3, <3>1
  <2> QED
    BY <2>2, <2>3
<1>5. ASSUME WholeLines(w) PROVE WholeLines(v)
  <2> SUFFICES ASSUME v # <<>> PROVE v[Len(v)].newline
    BY Zenon DEF WholeLines
  <2>1. Len(v) # 0
    BY <1>2, EmptySeq
  <2>2. Len(v) \in DOMAIN v /\ Len(v) + m = Len(w) /\ Len(w) # 0
    <3>1. Len(w) - m # 0
      BY <2>1, <1>2
    <3>2. \A l \in Nat : m <= l /\ l - m # 0 => l - m \in 1..(l - m) /\ (l - m) + m = l /\ l # 0
      BY <1>1
    <3>3. Len(w) - m \in 1..(Len(w) - m) /\ (Len(w) - m) + m = Len(w) /\ Len(w) # 0
      BY <3>1, <3>2, <1>1, Zenon
    <3> QED
      BY <3>3, <1>2, Zenon
  <2>3. w # <<>>
    BY <2>2, EmptySeq
  <2> QED
    BY <2>2, <2>3, <1>3, <1>5 DEF WholeLines
<1> QED
  BY <1>2, <1>3, <1>4, <1>5 DEF v

(* The first pieces are pairs too, and their lines are the first.           *)
LEMMA HeadOf ==
    ASSUME NEW w \in Seq(Piece), InPairs(w), NEW n \in 0..Len(w)
    PROVE  LET t == SubSeq(w, 1, n) IN
           /\ t \in Seq(Piece) /\ Len(t) = n /\ DOMAIN t = 1..n /\ \A i \in 1..n : t[i] = w[i]
           /\ InPairs(t) /\ JsonEnds(t) = UpTo(JsonEnds(w), n)
           /\ Cardinality(JsonEnds(t)) = Rank(JsonEnds(w), n)
           /\ \A k \in JsonEnds(t) : Rank(JsonEnds(t), k) = Rank(JsonEnds(w), k)
<1> DEFINE t == SubSeq(w, 1, n)
<1>1. Len(w) \in Nat /\ DOMAIN w = 1..Len(w) /\ n \in Nat /\ n <= Len(w)
  BY LenProperties
<1>2. t \in Seq(Piece) /\ Len(t) = n /\ DOMAIN t = 1..n /\ \A i \in 1..n : t[i] = w[i]
  <2>1. t \in Seq(Piece) /\ Len(t) = n - 1 + 1 /\ \A i \in 1..(n - 1 + 1) : t[i] = w[1 + i - 1]
    BY <1>1, PartOf
  <2>2. n - 1 + 1 = n /\ \A i \in 1..n : 1 + i - 1 = i
    BY <1>1
  <2> HIDE DEF t
  <2>3. Len(t) = n /\ \A i \in 1..n : t[i] = w[i]
    BY <2>1, <2>2
  <2> QED
    BY <2>1, <2>3, LenProperties
<1> HIDE DEF t
<1>3. InPairs(t)
  <2> SUFFICES ASSUME NEW i \in DOMAIN t
               PROVE  IF t[i].newline THEN i > 1 /\ ~t[i - 1].newline /\ t[i] = [t[i - 1] EXCEPT !.newline = TRUE]
                      ELSE i < Len(t) => t[i + 1].newline
    BY Zenon DEF InPairs
  <2>1. i \in Nat /\ i >= 1 /\ i <= n /\ i \in DOMAIN w /\ t[i] = w[i]
    BY <1>1, <1>2
  <2>2. /\ i > 1 => i - 1 \in 1..n
        /\ i < n => i + 1 \in 1..n /\ i < Len(w)
    BY <1>1, <2>1
  <2>3. IF w[i].newline THEN i > 1 /\ ~w[i - 1].newline /\ w[i] = [w[i - 1] EXCEPT !.newline = TRUE]
        ELSE i < Len(w) => w[i + 1].newline
    BY <2>1 DEF InPairs
  <2> QED
    BY <1>2, <2>1, <2>2, <2>3
<1>4. JsonEnds(t) = UpTo(JsonEnds(w), n)
  <2>1. \A i : i \in 1..n <=> i \in 1..Len(w) /\ i <= n
    BY <1>1
  <2> QED
    BY <2>1, <1>1, <1>2 DEF JsonEnds, UpTo
<1>5. JsonEnds(w) \in SUBSET Nat /\ IsFiniteSet(JsonEnds(w))
  BY JsonPlaces
<1>6. Cardinality(JsonEnds(t)) = Rank(JsonEnds(w), n)
  BY <1>1, <1>4, <1>5, RankInRange
<1>7. ASSUME NEW k \in JsonEnds(t) PROVE Rank(JsonEnds(t), k) = Rank(JsonEnds(w), k)
  <2>1. k \in JsonEnds(w) /\ k <= n /\ k \in Nat
    BY <1>4, <1>5, <1>7 DEF UpTo
  <2>2. {i \in UpTo(JsonEnds(w), n) : i <= k} = {i \in JsonEnds(w) : i <= k}
    <3>1. \A i \in JsonEnds(w) : i <= k => i <= n
      <4>1. \A i \in JsonEnds(w) : i \in Nat
        BY <1>5
      <4> QED
        BY <4>1, <2>1, <1>1
    <3> QED
      BY <3>1, Zenon DEF UpTo
  <2> QED
    BY <2>2, <1>4, Zenon DEF Rank
<1> QED
  BY <1>2, <1>3, <1>4, <1>6, <1>7 DEF t

(* What the page takes of the pieces it has: every hook it can read, in the *)
(* order they came, and the rest is left as it is.                          *)
LEMMA TakenPieces ==
    ASSUME NEW w \in Seq(Piece), InPairs(w), NEW n \in 0..Len(w), NEW events \in Seq(Hook)
    PROVE  LET t == G!Taken(SubSeq(w, 1, n), events)
               v == t.partial \o SubSeq(w, n + 1, Len(w))
           IN
           Takes(w, n, events, t, v)
<1> DEFINE text == SubSeq(w, 1, n)
           J == JsonEnds(text)
           at == At(text, J)
           got == [i \in DOMAIN at |-> at[i].of]
           last == Max(G!EndOf(text) \cup {0})
           v == SubSeq(w, last + 1, Len(w))
<1>1. Len(w) \in Nat /\ DOMAIN w = 1..Len(w) /\ n \in Nat /\ n <= Len(w)
  BY LenProperties
<1>2. text \in Seq(Piece) /\ Len(text) = n /\ DOMAIN text = 1..n /\ \A i \in 1..n : text[i] = w[i]
  BY HeadOf
<1>3. InPairs(text) /\ J = UpTo(JsonEnds(w), n) /\ Cardinality(J) = Rank(JsonEnds(w), n)
  BY HeadOf
<1>4. \A k \in J : Rank(J, k) = Rank(JsonEnds(w), k)
  BY HeadOf
<1>5. /\ JsonEnds(w) \in SUBSET (1..Len(w)) /\ JsonEnds(w) \in SUBSET Nat /\ IsFiniteSet(JsonEnds(w))
      /\ J \in SUBSET Nat /\ IsFiniteSet(J) /\ J \in SUBSET (DOMAIN text)
  <2> HIDE DEF text
  <2> QED
    BY <1>2, JsonPlaces
<1> HIDE DEF text
<1>6. {e \in G!EndOf(text) : G!ParseEvent(G!LineTo(text, e))} = J
  <2>1. ASSUME NEW e \in DOMAIN text, text[e].newline
        PROVE  G!ParseEvent(G!LineTo(text, e)) <=> text[e].text = "json" /\ G!Parses(text[e].of)
    BY <2>1, <1>2, <1>3, PairParses
  <2> QED
    BY <2>1, Zenon DEF G!EndOf, JsonEnds
<1>7. G!Taken(text, events) = [partial |-> SubSeq(text, last + 1, Len(text)), events |-> events \o got]
  BY <1>6, SamePlaces, Zenon DEF G!Taken
<1>8. last \in 0..n /\ (last = 0 \/ w[last].newline) /\ \A i \in (last + 1)..n : ~text[i].newline
  <2> DEFINE E == G!EndOf(text) \cup {0}
  <2>1. E \in SUBSET Nat /\ \A i \in E : i <= n
    BY <1>1, <1>2 DEF G!EndOf
  <2>2. IsFiniteSet(E) /\ E # {}
    <3>1. IsFiniteSet(0..n)
      BY <1>1, FS_Interval
    <3>2. E \in SUBSET (0..n)
      <4>1. \A i \in E : i \in 0..n
        <5>1. \A i \in Nat : i <= n => i \in 0..n
          BY <1>1
        <5> HIDE DEF E
        <5> QED
          BY <5>1, <2>1
      <4> QED
        BY <4>1, Zenon
    <3>3. 0 \in E
      OBVIOUS
    <3> HIDE DEF E
    <3> QED
      BY <3>1, <3>2, <3>3, FS_Subset
  <2>3. last \in E /\ \A i \in E : last >= i
    BY <2>1, <2>2, GreatestOf, Zenon
  <2> HIDE DEF last
  <2>4. last \in Nat /\ last <= n
    BY <2>1, <2>3
  <2>5. last = 0 \/ w[last].newline
    BY <1>2, <2>3 DEF G!EndOf
  <2>6. ASSUME NEW i \in (last + 1)..n PROVE ~text[i].newline
    <3>1. i \in 1..n /\ i > last
      BY <2>4, <1>1
    <3>2. text[i].newline => i \in E
      BY <3>1, <1>2 DEF G!EndOf
    <3>3. ~(last >= i)
      BY <3>1, <2>4
    <3> QED
      BY <3>2, <3>3, <2>3
  <2> QED
    BY <1>1, <2>4, <2>5, <2>6
<1> HIDE DEF last
<1>9. last \in Nat /\ last <= n /\ last + 1 \in Nat \ {0} /\ last \in 0..Len(w) /\ last + 1 <= n + 1
  BY <1>1, <1>8
<1>10. /\ v \in Seq(Piece) /\ Len(v) = Len(w) - last /\ \A i \in DOMAIN v : v[i] = w[i + last]
       /\ InPairs(v) /\ (WholeLines(w) => WholeLines(v)) /\ DOMAIN v = 1..(Len(w) - last)
  <2>1. /\ v \in Seq(Piece) /\ Len(v) = Len(w) - last /\ \A i \in DOMAIN v : v[i] = w[i + last]
        /\ InPairs(v) /\ (WholeLines(w) => WholeLines(v))
    BY <1>8, <1>9, TailOf
  <2>2. DOMAIN v = 1..Len(v)
    BY <2>1, LenProperties
  <2> QED
    BY <2>1, <2>2, Zenon
<1> DEFINE left == SubSeq(text, last + 1, Len(text))
           rest == SubSeq(w, n + 1, Len(w))
<1>11. left \in Seq(Piece) /\ left \o rest = v
  <2>1. left \in Seq(Piece) /\ Len(left) = n - last /\ \A i \in 1..(n - last) : left[i] = w[i + last]
    <3>1. left \in Seq(Piece) /\ Len(left) = n - (last + 1) + 1 /\ \A i \in 1..(n - (last + 1) + 1) : left[i] = text[(last + 1) + i - 1]
      <4>1. text \in Seq(Piece) /\ last + 1 \in Nat \ {0} /\ n \in Nat /\ n <= Len(text) /\ last + 1 <= n + 1
        BY <1>1, <1>2, <1>9
      <4>2. /\ SubSeq(text, last + 1, n) \in Seq(Piece) /\ Len(SubSeq(text, last + 1, n)) = n - (last + 1) + 1
            /\ \A i \in 1..(n - (last + 1) + 1) : SubSeq(text, last + 1, n)[i] = text[(last + 1) + i - 1]
        BY <4>1, PartOf
      <4> QED
        BY <1>2, <4>2, Zenon
    <3>2. n - (last + 1) + 1 = n - last
      BY <1>1, <1>9
    <3>3. \A i \in 1..(n - last) : (last + 1) + i - 1 = i + last /\ i + last \in 1..n
      BY <1>1, <1>9
    <3> HIDE DEF left
    <3> QED
      BY <3>1, <3>2, <3>3, <1>2
  <2>2. rest \in Seq(Piece) /\ Len(rest) = Len(w) - n /\ \A i \in 1..(Len(w) - n) : rest[i] = w[i + n]
    BY DropOf
  <2> HIDE DEF left, rest
  <2>3. /\ left \o rest \in Seq(Piece) /\ Len(left \o rest) = Len(left) + Len(rest)
        /\ \A i \in 1..(Len(left) + Len(rest)) :
             (left \o rest)[i] = IF i <= Len(left) THEN left[i] ELSE rest[i - Len(left)]
    BY <2>1, <2>2, ConcatProperties
  <2>4. Len(left) + Len(rest) = Len(w) - last
    BY <2>1, <2>2, <1>1, <1>9
  <2>5. ASSUME NEW i \in 1..(Len(w) - last) PROVE (left \o rest)[i] = v[i]
    <3>1. (left \o rest)[i] = IF i <= n - last THEN left[i] ELSE rest[i - (n - last)]
      BY <2>1, <2>3, <2>4
    <3>2. v[i] = w[i + last]
      BY <1>10
    <3>3. CASE i <= n - last
      <4>1. i \in 1..(n - last)
        BY <3>3, <1>1, <1>9
      <4> QED
        BY <3>1, <3>2, <3>3, <4>1, <2>1
    <3>4. CASE ~(i <= n - last)
      <4>1. i - (n - last) \in 1..(Len(w) - n) /\ (i - (n - last)) + n = i + last
        BY <3>4, <1>1, <1>9
      <4>2. rest[i - (n - last)] = w[i + last]
        BY <4>1, <2>2
      <4> QED
        BY <3>1, <3>2, <3>4, <4>2
    <3> QED
      BY <3>3, <3>4
  <2>6. left \o rest = v
    <3> DEFINE c == left \o rest
    <3> HIDE DEF c, v
    <3>1. c \in Seq(Piece) /\ v \in Seq(Piece) /\ Len(c) = Len(v) /\ \A i \in 1..Len(c) : c[i] = v[i]
      BY <2>3, <2>4, <2>5, <1>10 DEF c
    <3>2. c = v
      BY <3>1, SeqEqual
    <3> QED
      BY <3>2 DEF c
  <2> QED
    BY <2>1, <2>6
<1>12. /\ at \in Seq(Piece) /\ Cardinality(J) \in Nat /\ Len(at) = Cardinality(J) /\ DOMAIN at = 1..Cardinality(J)
       /\ \A i \in DOMAIN at : InOrder(J)[i] \in J /\ at[i] = text[InOrder(J)[i]] /\ Rank(J, InOrder(J)[i]) = i
  <2>1. /\ at \in Seq(Piece) /\ Cardinality(J) \in Nat /\ Len(at) = Cardinality(J)
        /\ \A i \in DOMAIN at : InOrder(J)[i] \in J /\ at[i] = text[InOrder(J)[i]]
    BY <1>2, <1>5, AtPlaces
  <2>2. DOMAIN at = 1..Cardinality(J)
    BY <2>1, LenProperties
  <2>3. \A i \in 1..Cardinality(J) : Rank(J, InOrder(J)[i]) = i
    BY <1>5, InOrderPlaces
  <2> QED
    BY <2>1, <2>2, <2>3, Zenon
<1> HIDE DEF J
<1>13. got \in Seq(Hook) /\ Len(got) = Cardinality(J) /\ \A i \in 1..Cardinality(J) : got[i] = at[i].of
  <2>1. \A i \in 1..Cardinality(J) : at[i].of \in Hook
    <3>1. \A p \in Piece : p.of \in Hook
      BY DEF Piece
    <3> QED
      BY <3>1, <1>12, ElementOfSeq
  <2>2. got = [i \in 1..Cardinality(J) |-> at[i].of]
    BY <1>12, Zenon
  <2>3. got \in [1..Cardinality(J) -> Hook]
    BY <2>1, <2>2, Zenon
  <2>4. \A i \in 1..Cardinality(J) : got[i] = at[i].of
    BY <2>2, Zenon
  <2> HIDE DEF got
  <2>5. got \in Seq(Hook) /\ Len(got) = Cardinality(J)
    BY <2>3, <1>12, TupleIsSeq, Zenon
  <2> QED
    BY <2>4, <2>5
<1> HIDE DEF at, got
<1>14. /\ events \o got \in Seq(Hook) /\ Len(events \o got) = Len(events) + Cardinality(J)
       /\ Len(events) \in Nat /\ DOMAIN events = 1..Len(events) /\ DOMAIN (events \o got) = 1..(Len(events) + Cardinality(J))
       /\ \A i \in 1..(Len(events) + Cardinality(J)) :
            (events \o got)[i] = IF i <= Len(events) THEN events[i] ELSE got[i - Len(events)]
  <2>1. /\ events \o got \in Seq(Hook) /\ Len(events \o got) = Len(events) + Len(got)
        /\ \A i \in 1..(Len(events) + Len(got)) :
             (events \o got)[i] = IF i <= Len(events) THEN events[i] ELSE got[i - Len(events)]
    BY <1>13, ConcatProperties
  <2>2. DOMAIN (events \o got) = 1..Len(events \o got) /\ Len(events) \in Nat /\ DOMAIN events = 1..Len(events)
    BY <2>1, LenProperties
  <2> QED
    BY <2>1, <2>2, <1>13
<1>15. ASSUME NEW i \in DOMAIN (events \o got)
       PROVE  \/ i \in DOMAIN events /\ (events \o got)[i] = events[i]
              \/ \E k \in JsonEnds(w) : (events \o got)[i] = w[k].of /\ i = Len(events) + Rank(JsonEnds(w), k)
  <2>1. CASE i <= Len(events)
    BY <2>1, <1>14
  <2>2. CASE ~(i <= Len(events))
    <3> DEFINE r == i - Len(events)
               k == InOrder(J)[r]
    <3>1. r \in 1..Cardinality(J) /\ i = Len(events) + r
      BY <2>2, <1>12, <1>14
    <3>2. (events \o got)[i] = got[r]
      BY <2>2, <1>14
    <3> HIDE DEF r
    <3>3. got[r] = text[k].of /\ k \in J /\ Rank(J, k) = r
      BY <3>1, <1>12, <1>13
    <3> HIDE DEF k
    <3>4. k \in JsonEnds(w) /\ text[k] = w[k] /\ Rank(JsonEnds(w), k) = r
      <4>1. k \in JsonEnds(w) /\ k \in 1..n
        BY <3>3, <1>2, <1>3, <1>5 DEF UpTo
      <4>2. text[k] = w[k]
        BY <4>1, <1>2
      <4> QED
        BY <4>1, <4>2, <3>3, <1>4
    <3> QED
      BY <3>1, <3>2, <3>3, <3>4
  <2> QED
    BY <2>1, <2>2
<1>16. JsonEnds(v) \in SUBSET Nat /\ Moved(JsonEnds(w), JsonEnds(v), last, n)
  <2>1. JsonEnds(v) \in SUBSET Nat
    BY <1>10, JsonPlaces
  <2>2. ASSUME NEW i \in Nat PROVE i \in JsonEnds(v) <=> i + last \in JsonEnds(w) /\ i + last > n
    <3>1. i \in JsonEnds(v) <=> i \in 1..(Len(w) - last) /\ w[i + last].newline /\ w[i + last].text = "json" /\ G!Parses(w[i + last].of)
      BY <1>10 DEF JsonEnds
    <3>2. i + last \in JsonEnds(w) <=> i + last \in 1..Len(w) /\ w[i + last].newline /\ w[i + last].text = "json" /\ G!Parses(w[i + last].of)
      BY <1>1 DEF JsonEnds
    <3>3. i + last > n => (i \in 1..(Len(w) - last) <=> i + last \in 1..Len(w))
      BY <1>1, <1>9
    <3>4. ASSUME i \in 1..(Len(w) - last), w[i + last].newline PROVE i + last > n
      <4>1. ASSUME ~(i + last > n) PROVE i + last \in (last + 1)..n
        BY <4>1, <3>4, <1>1, <1>9
      <4>2. i + last \in 1..n => text[i + last] = w[i + last]
        BY <1>2
      <4>3. i + last \in (last + 1)..n => i + last \in 1..n /\ ~text[i + last].newline
        BY <1>8, <1>9, <1>1
      <4> QED
        BY <4>1, <4>2, <4>3, <3>4
    <3> QED
      BY <3>1, <3>2, <3>3, <3>4
  <2> QED
    BY <2>1, <2>2 DEF Moved
<1>17. Rank(JsonEnds(w), n) \in Nat /\ Cardinality(JsonEnds(w)) = Rank(JsonEnds(w), n) + Cardinality(JsonEnds(v))
  <2>1. Cardinality(JsonEnds(w)) = Rank(JsonEnds(w), n) + Cardinality(JsonEnds(v))
    BY <1>5, <1>9, <1>16, <1>1, CountShift
  <2> QED
    BY <2>1, <1>3, <1>12, Zenon
<1>18. ASSUME NEW j \in JsonEnds(v)
       PROVE  \E k \in JsonEnds(w) :
                v[j].of = w[k].of /\ Rank(JsonEnds(w), k) = Rank(JsonEnds(w), n) + Rank(JsonEnds(v), j)
  <2>1. Rank(JsonEnds(w), j + last) = Rank(JsonEnds(w), n) + Rank(JsonEnds(v), j)
    BY <1>5, <1>9, <1>16, <1>1, RankShift
  <2>2. j + last \in JsonEnds(w)
    BY <1>16 DEF Moved
  <2>3. v[j] = w[j + last]
    BY <1>10 DEF JsonEnds
  <2> QED
    BY <2>1, <2>2, <2>3
<1> DEFINE t == G!Taken(text, events)
<1>19. t.partial = left /\ t.events = events \o got
  <2>1. \A a, b : LET r == [partial |-> a, events |-> b] IN r.partial = a /\ r.events = b
    OBVIOUS
  <2> HIDE DEF got
  <2> QED
    BY <1>7, <2>1, Zenon
<1>20. t \in [partial : Seq(Piece), events : Seq(Hook)]
  <2>1. \A a \in Seq(Piece), b \in Seq(Hook) : [partial |-> a, events |-> b] \in [partial : Seq(Piece), events : Seq(Hook)]
    OBVIOUS
  <2> HIDE DEF got
  <2> QED
    BY <1>7, <1>11, <1>14, <2>1, Zenon
<1> HIDE DEF left, rest, v, t
<1>21. Len(t.events) = Len(events) + Rank(JsonEnds(w), n)
  BY <1>3, <1>14, <1>19
<1>22. t.partial \o rest = v
  BY <1>11, <1>19
<1>23. \A i \in DOMAIN t.events :
         \/ i \in DOMAIN events /\ t.events[i] = events[i]
         \/ \E k \in JsonEnds(w) : t.events[i] = w[k].of /\ i = Len(events) + Rank(JsonEnds(w), k)
  BY <1>15, <1>19, Zenon
<1> QED
  BY <1>10, <1>17, <1>18, <1>20, <1>21, <1>22, <1>23, Zenon DEF rest, text, t, Takes

-----------------------------------------------------------------------------
(* The run's hooks.                                                         *)

LEMMA SinksAre ==
    ASSUME opt \in [quiet : BOOLEAN, logs : BOOLEAN, events : BOOLEAN]
    PROVE  LET c == IF opt.quiet THEN 0 ELSE 1
               l == IF opt.logs THEN 2 ELSE 0
           IN  /\ Len(G!Sinks) = c + l + (IF opt.events THEN 1 ELSE 0)
               /\ \A k \in 1..Len(G!Sinks) :
                    G!Sinks[k] = IF k <= c THEN "Console"
                                 ELSE IF k <= c + l THEN (IF k = c + 1 THEN "Sarif" ELSE "Rtf")
                                 ELSE "Events"
<1> DEFINE c == IF opt.quiet THEN 0 ELSE 1
           l == IF opt.logs THEN 2 ELSE 0
           e == IF opt.events THEN 1 ELSE 0
<1>1. c \in Nat /\ l \in {0, 2} /\ e \in Nat
  OBVIOUS
<1>2. G!Console \in Seq(SinkNames) /\ Len(G!Console) = c /\ \A k \in 1..c : G!Console[k] = "Console"
  <2>1. <<"Console">> \in Seq(SinkNames) /\ <<>> \in Seq(SinkNames)
    BY DEF SinkNames
  <2> QED
    BY <2>1 DEF G!Console
<1>3. G!Logs \in Seq(SinkNames) /\ Len(G!Logs) = l /\ \A k \in 1..l : G!Logs[k] = IF k = 1 THEN "Sarif" ELSE "Rtf"
  <2>1. <<"Sarif", "Rtf">> \in Seq(SinkNames) /\ <<>> \in Seq(SinkNames)
    BY DEF SinkNames
  <2> QED
    BY <2>1 DEF G!Logs
<1>4. G!Events \in Seq(SinkNames) /\ Len(G!Events) = e /\ \A k \in 1..e : G!Events[k] = "Events"
  <2>1. <<"Events">> \in Seq(SinkNames) /\ <<>> \in Seq(SinkNames)
    BY DEF SinkNames
  <2> QED
    BY <2>1 DEF G!Events
<1> HIDE DEF c, l, e
<1> DEFINE sc == G!Console
           sl == G!Logs
           se == G!Events
           cl == sc \o sl
<1>. HIDE DEF sc, sl, se
<1>20. sc \in Seq(SinkNames) /\ Len(sc) = c /\ \A k \in 1..c : sc[k] = "Console"
  BY <1>2, Zenon DEF sc
<1>30. sl \in Seq(SinkNames) /\ Len(sl) = l /\ \A k \in 1..l : sl[k] = IF k = 1 THEN "Sarif" ELSE "Rtf"
  BY <1>3, Zenon DEF sl
<1>40. se \in Seq(SinkNames) /\ Len(se) = e /\ \A k \in 1..e : se[k] = "Events"
  BY <1>4, Zenon DEF se
<1>5. /\ cl \in Seq(SinkNames) /\ Len(cl) = c + l
      /\ \A k \in 1..(c + l) : cl[k] = IF k <= c THEN sc[k] ELSE sl[k - c]
  <2>1. /\ cl \in Seq(SinkNames) /\ Len(cl) = Len(sc) + Len(sl)
        /\ \A k \in 1..(Len(sc) + Len(sl)) :
             cl[k] = IF k <= Len(sc) THEN sc[k] ELSE sl[k - Len(sc)]
    <3>1. sc \in Seq(SinkNames) /\ sl \in Seq(SinkNames)
      BY <1>20, <1>30, Zenon
    <3> QED
      BY <3>1, ConcatProperties
  <2> HIDE DEF cl
  <2> QED
    BY <2>1, <1>20, <1>30
<1> HIDE DEF cl
<1>6. /\ Len(cl \o se) = (c + l) + e
      /\ \A k \in 1..((c + l) + e) : (cl \o se)[k] = IF k <= c + l THEN cl[k] ELSE se[k - (c + l)]
  <2>1. /\ Len(cl \o se) = Len(cl) + Len(se)
        /\ \A k \in 1..(Len(cl) + Len(se)) :
             (cl \o se)[k] = IF k <= Len(cl) THEN cl[k] ELSE se[k - Len(cl)]
    <3>1. cl \in Seq(SinkNames) /\ se \in Seq(SinkNames)
      BY <1>40, <1>5, Zenon
    <3> QED
      BY <3>1, ConcatProperties
  <2> QED
    BY <2>1, <1>40, <1>5
<1>7. G!Sinks = cl \o se
  BY Zenon DEF G!Sinks, cl, sc, sl, se
<1>8. ASSUME NEW k \in 1..((c + l) + e)
      PROVE  G!Sinks[k] = IF k <= c THEN "Console"
                          ELSE IF k <= c + l THEN (IF k = c + 1 THEN "Sarif" ELSE "Rtf") ELSE "Events"
  <2>1. k \in Nat /\ c + l \in Nat
    BY <1>1
  <2>2. CASE k <= c
    <3>1. k \in 1..c /\ k <= c + l /\ k \in 1..(c + l)
      BY <2>2, <2>1, <1>1
    <3> QED
      BY <3>1, <2>2, <1>20, <1>5, <1>6, <1>7
  <2>3. CASE ~(k <= c) /\ k <= c + l
    <3>1. k - c \in 1..l /\ k \in 1..(c + l) /\ (k - c = 1 <=> k = c + 1)
      BY <2>3, <2>1, <1>1
    <3> QED
      BY <3>1, <2>3, <1>30, <1>5, <1>6, <1>7
  <2>4. CASE ~(k <= c + l)
    <3>1. k - (c + l) \in 1..e /\ ~(k <= c)
      BY <2>4, <2>1, <1>1
    <3> QED
      BY <3>1, <2>4, <1>40, <1>6, <1>7
  <2> QED
    BY <2>2, <2>3, <2>4
<1> QED
  BY <1>6, <1>7, <1>8 DEF c, l, e

(* The events go out last.                                                  *)
LEMMA EventsLast ==
    ASSUME opt \in [quiet : BOOLEAN, logs : BOOLEAN, events : BOOLEAN]
    PROVE  /\ Len(G!Sinks) \in Nat /\ (opt.events => Len(G!Sinks) >= 1)
           /\ \A k \in 1..Len(G!Sinks) : G!Sinks[k] = "Events" <=> opt.events /\ k = Len(G!Sinks)
<1> DEFINE c == IF opt.quiet THEN 0 ELSE 1
           l == IF opt.logs THEN 2 ELSE 0
           e == IF opt.events THEN 1 ELSE 0
<1>1. /\ Len(G!Sinks) = c + l + e
      /\ \A k \in 1..Len(G!Sinks) :
           G!Sinks[k] = IF k <= c THEN "Console"
                        ELSE IF k <= c + l THEN (IF k = c + 1 THEN "Sarif" ELSE "Rtf") ELSE "Events"
  BY SinksAre
<1>2. c \in Nat /\ l \in Nat /\ (opt.events => e = 1) /\ (~opt.events => e = 0)
  OBVIOUS
<1> HIDE DEF c, l, e
<1>3. Len(G!Sinks) \in Nat /\ (opt.events => Len(G!Sinks) >= 1)
  BY <1>1, <1>2
<1>4. ASSUME NEW k \in 1..Len(G!Sinks) PROVE G!Sinks[k] = "Events" <=> ~(k <= c + l)
  <2>1. k <= c => k <= c + l
    BY <1>1, <1>2
  <2> QED
    BY <2>1, <1>1
<1>5. ASSUME NEW k \in 1..Len(G!Sinks) PROVE ~(k <= c + l) <=> opt.events /\ k = Len(G!Sinks)
  <2>1. opt \in [quiet : BOOLEAN, logs : BOOLEAN, events : BOOLEAN] => opt.events \in BOOLEAN
    OBVIOUS
  <2> QED
    BY <2>1, <1>1, <1>2
<1> QED
  BY <1>3, <1>4, <1>5

LEMMA HooksTyped ==
    /\ G!Plain \in Hook
    /\ \A kind \in HookKinds : G!Hook(kind) \in Hook
    /\ \A h \in Hook :
         /\ \A g \in Groups \cup {NoGroup} : [h EXCEPT !.group = g] \in Hook
         /\ \A t \in LogTests \cup {NoTest} : [h EXCEPT !.test = t] \in Hook
         /\ \A p \in {"setup", "teardown", NoPhase} : [h EXCEPT !.phase = p] \in Hook
         /\ \A k \in HookKinds : [h EXCEPT !.hook = k] \in Hook
         /\ \A b \in BOOLEAN : [h EXCEPT !.ok = b] \in Hook
<1>1. G!Plain \in Hook
  BY DEF G!Plain, Hook, HookKinds
<1> QED
  BY <1>1 DEF Hook, G!Hook

LEMMA RecordsTyped ==
    ASSUME NEW r \in G!Postable \cup {G!Unchecked}
    PROVE  /\ r.verb \in {"Measure", "Verify", "Note"} /\ r.rule \in {"Measure", "Criterion", "Note", Adhoc}
           /\ r.ok \in BOOLEAN /\ r.number \in Numbers \cup {"absent"}
<1>1. CASE r = G!Unchecked
  BY <1>1 DEF G!Unchecked
<1>2. CASE r \in G!Postable
  <2>1. r \in G!Records
    BY <1>2 DEF G!Postable
  <2> QED
    <3> DEFINE A == {[verb |-> "Measure", rule |-> "Measure", ok |-> TRUE, number |-> n] : n \in Numbers}
               B == {[verb |-> "Verify", rule |-> "Criterion", ok |-> ok, number |-> n] : ok \in BOOLEAN, n \in Numbers}
               a == [verb |-> "Verify", rule |-> Adhoc, ok |-> TRUE, number |-> "absent"]
               b == [verb |-> "Note", rule |-> "Note", ok |-> TRUE, number |-> "absent"]
    <3>1. r \in A \/ r \in B \/ r = a \/ r = b
      BY <2>1 DEF G!Records
    <3>2. CASE r \in A
      <4>1. PICK n \in Numbers : r = [verb |-> "Measure", rule |-> "Measure", ok |-> TRUE, number |-> n]
        BY <3>2
      <4> QED
        BY <4>1
    <3>3. CASE r \in B
      <4>1. PICK n \in Numbers, ok \in BOOLEAN : r = [verb |-> "Verify", rule |-> "Criterion", ok |-> ok, number |-> n]
        BY <3>3
      <4> QED
        BY <4>1
    <3>4. CASE r = a
      BY <3>4
    <3>5. CASE r = b
      BY <3>5
    <3> QED
      BY <3>1, <3>2, <3>3, <3>4, <3>5
<1> QED
  BY <1>1, <1>2

LEMMA StampedTyped ==
    ASSUME NEW j \in Journals, NEW r \in G!Postable \cup {G!Unchecked}
    PROVE  G!Stamped(j, 0, r) \in Hook /\ G!Counted(j, r) \in Journals
<1>1. /\ r.verb \in {"Measure", "Verify", "Note"} /\ r.rule \in {"Measure", "Criterion", "Note", Adhoc}
      /\ r.ok \in BOOLEAN /\ r.number \in Numbers \cup {"absent"}
  BY RecordsTyped
<1>2. /\ j.group \in Groups \cup {NoGroup} /\ j.test \in LogTests \cup {NoTest}
      /\ j.phase \in {"setup", "teardown", NoPhase} /\ j.next \in Nat /\ j.next + 0 \in Nat
  BY DEF Journals
<1>3. G!Stamped(j, 0, r) \in Hook
  <2>1. "event" \in HookKinds
    BY DEF HookKinds
  <2> QED
    BY <1>1, <1>2, <2>1 DEF G!Stamped, G!Plain, Hook
<1>4. G!Counted(j, r) \in Journals
  <2> DEFINE counts == j.open /\ r.verb = "Verify"
             a == IF counts THEN j.checks + 1 ELSE j.checks
             b == IF counts /\ ~r.ok THEN j.failures + 1 ELSE j.failures
             n == j.next + 1
  <2>1. G!Counted(j, r) = [j EXCEPT !.next = n, !.checks = a, !.failures = b]
    BY DEF G!Counted
  <2>2. a \in Nat /\ b \in Nat /\ n \in Nat
    BY DEF Journals
  <2> HIDE DEF a, b, n
  <2> QED
    BY <2>1, <2>2 DEF Journals
<1> QED
  BY <1>3, <1>4

-----------------------------------------------------------------------------
(* A step that hands out new hooks, and the rest that stays as it is.       *)

LEMMA SinksStay ==
    ASSUME opt' = opt
    PROVE  G!Sinks' = G!Sinks
  BY DEF G!Sinks, G!Console, G!Logs, G!Events

LEMMA ToldIsPlace ==
    ASSUME LogTyped, QueueIsRest, NEW n \in Nat
    PROVE  /\ Len(hooks) \in Nat /\ DOMAIN hooks = 1..Len(hooks) /\ Len(queue) \in Nat /\ DOMAIN queue = 1..Len(queue)
           /\ Len(queue) <= Len(hooks) /\ (queue = <<>> <=> Len(queue) = 0)
           /\ ToldTo(n) \in Nat /\ ToldTo(n) <= Len(hooks)
           /\ Len(hooks) - Len(queue) <= ToldTo(n) /\ ToldTo(n) <= Len(hooks) - Len(queue) + 1
<1>1. hooks \in Seq(Hook) /\ queue \in Seq(Hook)
  BY DEF LogTyped
<1>2. Len(hooks) \in Nat /\ DOMAIN hooks = 1..Len(hooks) /\ Len(queue) \in Nat /\ DOMAIN queue = 1..Len(queue)
  BY <1>1, LenProperties
<1>3. queue = <<>> <=> Len(queue) = 0
  BY <1>1, EmptySeq
<1>4. Len(queue) <= Len(hooks)
  BY DEF QueueIsRest
<1>5. \A h, q \in Nat : q <= h /\ q # 0 => /\ h - q + 1 \in Nat /\ h - q + 1 <= h /\ h - q <= h - q + 1
  OBVIOUS
<1>6. \A h, q \in Nat : q <= h => /\ h - q + 0 \in Nat /\ h - q + 0 <= h /\ h - q <= h - q + 0 /\ h - q + 0 <= h - q + 1
  OBVIOUS
<1>7. (ToldTo(n) = Len(hooks) - Len(queue) + 1 /\ Len(queue) # 0) \/ ToldTo(n) = Len(hooks) - Len(queue) + 0
  BY <1>3, Zenon DEF ToldTo
<1>8. \A h, q \in Nat : h - q + 1 <= h - q + 1
  OBVIOUS
<1>9. /\ ToldTo(n) \in Nat /\ ToldTo(n) <= Len(hooks)
      /\ Len(hooks) - Len(queue) <= ToldTo(n) /\ ToldTo(n) <= Len(hooks) - Len(queue) + 1
  <2>1. CASE ToldTo(n) = Len(hooks) - Len(queue) + 1 /\ Len(queue) # 0
    BY <2>1, <1>2, <1>4, <1>5, <1>8, Zenon
  <2>2. CASE ToldTo(n) = Len(hooks) - Len(queue) + 0
    BY <2>2, <1>2, <1>4, <1>6, Zenon
  <2> QED
    BY <2>1, <2>2, <1>7
<1> QED
  BY <1>2, <1>3, <1>4, <1>9, Zenon

LEMMA Appended ==
    ASSUME LogTyped, QueueIsRest, NEW new, Appends(new)
    PROVE  /\ hooks' \in Seq(Hook) /\ queue' \in Seq(Hook) /\ Len(new) \in Nat /\ Len(new) >= 1
           /\ Len(hooks) \in Nat /\ Len(hooks') = Len(hooks) + Len(new)
           /\ DOMAIN hooks = 1..Len(hooks) /\ DOMAIN hooks' = 1..(Len(hooks) + Len(new)) /\ DOMAIN new = 1..Len(new)
           /\ \A i \in 1..Len(hooks) : hooks'[i] = hooks[i]
           /\ \A i \in 1..Len(new) : hooks'[Len(hooks) + i] = new[i] /\ new[i] \in Hook
           /\ \A n \in Nat \ {0} : ToldTo(n) = Len(hooks) /\ ToldTo(n)' = Len(hooks)
<1>1. hooks \in Seq(Hook) /\ new \in Seq(Hook) /\ queue = <<>> /\ queue' = new /\ hooks' = hooks \o new /\ turn' = 1
  BY DEF LogTyped, Appends
<1>2. Len(new) \in Nat /\ Len(hooks) \in Nat /\ DOMAIN hooks = 1..Len(hooks) /\ DOMAIN new = 1..Len(new)
  BY <1>1, LenProperties
<1>3. Len(new) # 0 /\ Len(queue) = 0
  BY <1>1, EmptySeq DEF Appends
<1>4. /\ hooks \o new \in Seq(Hook) /\ Len(hooks \o new) = Len(hooks) + Len(new)
      /\ \A i \in 1..(Len(hooks) + Len(new)) : (hooks \o new)[i] = IF i <= Len(hooks) THEN hooks[i] ELSE new[i - Len(hooks)]
  BY <1>1, ConcatProperties
<1>5. DOMAIN hooks' = 1..(Len(hooks) + Len(new))
  BY <1>1, <1>4, LenProperties
<1>6. \A i \in 1..Len(hooks) : hooks'[i] = hooks[i]
  BY <1>1, <1>2, <1>4
<1>7. ASSUME NEW i \in 1..Len(new) PROVE hooks'[Len(hooks) + i] = new[i] /\ new[i] \in Hook
  <2>1. Len(hooks) + i \in 1..(Len(hooks) + Len(new)) /\ ~(Len(hooks) + i <= Len(hooks)) /\ (Len(hooks) + i) - Len(hooks) = i
    BY <1>2
  <2>2. new[i] \in Hook
    BY <1>1, ElementOfSeq
  <2> QED
    BY <2>1, <2>2, <1>1, <1>4
<1>8. ASSUME NEW n \in Nat \ {0} PROVE ToldTo(n) = Len(hooks) /\ ToldTo(n)' = Len(hooks)
  <2>1. ToldTo(n) = Len(hooks)
    BY <1>1, <1>2, <1>3 DEF ToldTo
  <2>2. ToldTo(n)' = Len(hooks') - Len(queue') + (IF queue' # <<>> /\ turn' > n THEN 1 ELSE 0)
    BY DEF ToldTo
  <2>3. ~(1 > n)
    OBVIOUS
  <2>4. Len(hooks') - Len(queue') + 0 = Len(hooks)
    BY <1>1, <1>2, <1>4
  <2> QED
    BY <2>1, <2>2, <2>3, <2>4, <1>1
<1> QED
  BY <1>1, <1>2, <1>3, <1>4, <1>5, <1>6, <1>7, <1>8

(* The hooks that can be read, of those there are.                          *)
LEMMA ReadablePlaces ==
    ASSUME NEW hs \in Seq(Hook)
    PROVE  LET R == Readable(hs)
               s == At(hs, R) IN
           /\ R \in SUBSET (DOMAIN hs) /\ R \in SUBSET Nat /\ IsFiniteSet(R) /\ Cardinality(R) \in Nat
           /\ s \in Seq(Hook) /\ Len(s) = Cardinality(R) /\ DOMAIN s = 1..Len(s)
           /\ \A k \in R : s[Rank(R, k)] = hs[k]
<1> DEFINE R == Readable(hs)
           s == At(hs, R)
<1>1. Len(hs) \in Nat /\ DOMAIN hs = 1..Len(hs)
  BY LenProperties
<1>2. R \in SUBSET (DOMAIN hs)
  BY Zenon DEF Readable
<1>3. R \in SUBSET Nat /\ IsFiniteSet(R) /\ Cardinality(R) \in Nat
  BY <1>1, <1>2, SomePlaces
<1> HIDE DEF R
<1>4. s \in Seq(Hook) /\ Len(s) = Cardinality(R) /\ \A k \in R : s[Rank(R, k)] = hs[k]
  BY <1>2, AtPlaces
<1> QED
  BY <1>2, <1>3, <1>4, LenProperties DEF R

LEMMA SaidPlaces ==
    ASSUME hooks \in Seq(Hook)
    PROVE  /\ Readable(hooks) \in SUBSET (DOMAIN hooks) /\ Readable(hooks) \in SUBSET Nat
           /\ IsFiniteSet(Readable(hooks)) /\ Cardinality(Readable(hooks)) \in Nat
           /\ Said \in Seq(Hook) /\ Len(Said) = Cardinality(Readable(hooks)) /\ DOMAIN Said = 1..Len(Said)
           /\ \A k \in Readable(hooks) : Said[Rank(Readable(hooks), k)] = hooks[k]
  BY ReadablePlaces, Zenon DEF Said

(* More hooks leave those that could be read at their places.               *)
LEMMA SaidStays ==
    ASSUME hooks \in Seq(Hook), hooks' \in Seq(Hook), Len(hooks) <= Len(hooks'),
           \A i \in 1..Len(hooks) : hooks'[i] = hooks[i]
    PROVE  /\ Len(Said) <= Len(Said') /\ \A i \in 1..Len(Said) : Said'[i] = Said[i]
           /\ \A n \in Nat : n <= Len(hooks) => Rank(Readable(hooks'), n) = Rank(Readable(hooks), n)
<1> DEFINE R == Readable(hooks)
           T == Readable(hooks')
<1>1. /\ R \in SUBSET (DOMAIN hooks) /\ R \in SUBSET Nat /\ IsFiniteSet(R)
      /\ Len(Said) = Cardinality(R) /\ \A k \in R : Said[Rank(R, k)] = hooks[k]
  BY SaidPlaces
<1>2. /\ T \in SUBSET Nat /\ IsFiniteSet(T) /\ Len(Said') = Cardinality(T)
      /\ \A k \in T : Said'[Rank(T, k)] = hooks'[k]
  <2> HIDE DEF T
  <2>1. Said' = At(hooks', T)
    BY Zenon DEF Said, T
  <2> QED
    BY <2>1, ReadablePlaces, Zenon DEF T
<1>3. /\ Len(hooks) \in Nat /\ DOMAIN hooks = 1..Len(hooks)
      /\ Len(hooks') \in Nat /\ DOMAIN hooks' = 1..Len(hooks')
  BY LenProperties
<1>4. \A k \in Nat : k <= Len(hooks) => (k \in T <=> k \in R)
  BY <1>3 DEF Readable
<1> HIDE DEF R, T
<1>5. ASSUME NEW n \in Nat, n <= Len(hooks) PROVE Rank(T, n) = Rank(R, n)
  <2>1. \A k \in Nat : k <= n => k <= Len(hooks)
    BY <1>3, <1>5
  <2>2. {k \in T : k <= n} = {k \in R : k <= n}
    BY <2>1, <1>1, <1>2, <1>4, Zenon
  <2> QED
    BY <2>2, Zenon DEF Rank
<1>6. Cardinality(R) <= Cardinality(T)
  <2>1. R \in SUBSET T
    BY <1>1, <1>3, <1>4
  <2> QED
    BY <2>1, <1>2, FS_Subset
<1>7. ASSUME NEW i \in 1..Cardinality(R) PROVE Said'[i] = Said[i]
  <2>1. PICK k \in R : Rank(R, k) = i
    BY <1>1, RankOnto
  <2>2. k \in Nat /\ k <= Len(hooks) /\ k \in 1..Len(hooks)
    BY <1>1, <1>3
  <2>3. k \in T /\ Rank(T, k) = i
    BY <2>1, <2>2, <1>4, <1>5
  <2> QED
    BY <2>1, <2>2, <2>3, <1>1, <1>2
<1> QED
  BY <1>1, <1>2, <1>5, <1>6, <1>7 DEF R, T

LEMMA ToldIsSaid ==
    ASSUME LogBase
    PROVE  Len(Said) \in Nat /\ SaidTo \in Nat /\ SaidTo <= Len(Said)
<1>1. Len(G!Sinks) \in Nat /\ hooks \in Seq(Hook)
  BY EventsLast DEF LogBase, LogTyped
<1>2. ToldTo(Len(G!Sinks)) \in Nat
  BY <1>1, ToldIsPlace DEF LogBase
<1>3. /\ Readable(hooks) \in SUBSET Nat /\ IsFiniteSet(Readable(hooks)) /\ Cardinality(Readable(hooks)) \in Nat
      /\ Len(Said) = Cardinality(Readable(hooks))
  BY <1>1, SaidPlaces
<1>4. SaidTo \in 0..Cardinality(Readable(hooks))
  BY <1>2, <1>3, RankInRange DEF SaidTo
<1> QED
  BY <1>3, <1>4

(* Without another hook told, they stay as they are.                        *)
LEMMA SaidSame ==
    ASSUME hooks' = hooks, opt.events => ToldTo(Len(G!Sinks))' = ToldTo(Len(G!Sinks))
    PROVE  Said' = Said /\ (opt.events => SaidTo' = SaidTo)
  BY DEF Said, SaidTo

(* Where the hooks on the wire are among those that can be read.            *)
LEMMA WirePlaces ==
    ASSUME LogBase
    PROVE  /\ Wire \in Seq(Piece) /\ Len(reader.events) \in Nat /\ DOMAIN reader.events = 1..Len(reader.events)
           /\ Len(reader.events) <= Len(Said)
           /\ \A j \in JsonEnds(Wire) : /\ Rank(JsonEnds(Wire), j) \in Nat
                                        /\ Len(reader.events) + Rank(JsonEnds(Wire), j) \in 1..Len(Said)
<1>1. pipe \in Seq(Piece) /\ reader.partial \in Seq(Piece) /\ reader.events \in Seq(Hook)
  BY DEF LogBase, LogTyped
<1>2. Wire \in Seq(Piece)
  BY <1>1, ConcatProperties DEF Wire
<1>3. Len(reader.events) \in Nat /\ DOMAIN reader.events = 1..Len(reader.events)
  BY <1>1, LenProperties
<1>4. JsonEnds(Wire) \in SUBSET Nat /\ IsFiniteSet(JsonEnds(Wire)) /\ Cardinality(JsonEnds(Wire)) \in Nat
  BY <1>2, JsonPlaces
<1>5. ASSUME NEW j \in JsonEnds(Wire)
      PROVE  Rank(JsonEnds(Wire), j) \in Nat /\ Len(reader.events) + Rank(JsonEnds(Wire), j) \in 1..Len(Said)
  <2>1. Rank(JsonEnds(Wire), j) \in 1..Cardinality(JsonEnds(Wire))
    BY <1>4, RankInRange
  <2>2. opt.events
    <3>1. Wire = <<>> => JsonEnds(Wire) = {}
      BY DEF JsonEnds
    <3> QED
      BY <3>1 DEF LogBase, WireIsRest
  <2>3. Len(reader.events) + Cardinality(JsonEnds(Wire)) = SaidTo
    BY <2>2 DEF LogBase, WireIsRest
  <2>4. SaidTo <= Len(Said) /\ Len(Said) \in Nat /\ SaidTo \in Nat
    BY ToldIsSaid
  <2> QED
    BY <2>1, <2>3, <2>4, <1>3, <1>4
<1> QED
  BY <1>2, <1>3, <1>5 DEF LogBase, WireIsRest

LEMMA AppendKeeps ==
    ASSUME LogBase, NEW new, Appends(new), journal' \in Journals, thrown' \in BOOLEAN, passed' \in BOOLEAN,
           stage \notin {"dead", "exited"}, stage' \in {"run", "ending"}
    PROVE  LogBase'
<1>1. LogTyped /\ QueueIsRest /\ WireIsRest
  BY DEF LogBase
<1>2. /\ hooks' \in Seq(Hook) /\ queue' \in Seq(Hook) /\ Len(new) \in Nat /\ Len(new) >= 1
      /\ Len(hooks) \in Nat /\ Len(hooks') = Len(hooks) + Len(new)
      /\ DOMAIN hooks = 1..Len(hooks) /\ DOMAIN new = 1..Len(new)
      /\ \A i \in 1..Len(hooks) : hooks'[i] = hooks[i]
      /\ \A i \in 1..Len(new) : hooks'[Len(hooks) + i] = new[i]
      /\ \A n \in Nat \ {0} : ToldTo(n) = Len(hooks) /\ ToldTo(n)' = Len(hooks)
  BY <1>1, Appended
<1>3. opt' = opt /\ pipe' = pipe /\ reader' = reader /\ queue' = new /\ turn' = 1
  BY DEF Appends
<1>4. G!Sinks' = G!Sinks /\ Wire' = Wire
  BY <1>3, SinksStay DEF Wire
<1>5. LogTyped'
  <2>1. Len(G!Sinks) \in Nat
    BY EventsLast DEF LogBase, LogTyped
  <2>2. turn' \in Nat \ {0} /\ turn' <= Len(G!Sinks) + 1
    BY <2>1, <1>3
  <2> QED
    BY <1>2, <1>3, <1>4, <2>2 DEF LogBase, LogTyped
<1>6. QueueIsRest'
  <2>1. Len(queue') <= Len(hooks') /\ Len(hooks') - Len(queue') = Len(hooks)
    BY <1>2, <1>3
  <2>2. \A i \in DOMAIN queue' : queue'[i] = hooks'[Len(hooks') - Len(queue') + i]
    BY <2>1, <1>2, <1>3
  <2> QED
    BY <2>1, <2>2 DEF QueueIsRest
<1>7. WireIsRest'
  <2>1. InPairs(Wire) /\ WholeLines(Wire) /\ (~opt.events => Wire = <<>> /\ reader.events = <<>>)
    BY <1>1 DEF WireIsRest
  <2>0. /\ Len(Said) <= Len(Said') /\ \A i \in 1..Len(Said) : Said'[i] = Said[i]
        /\ Rank(Readable(hooks'), Len(hooks)) = Rank(Readable(hooks), Len(hooks))
    <3>1. Len(hooks) <= Len(hooks') /\ hooks \in Seq(Hook)
      BY <1>1, <1>2 DEF LogTyped
    <3> QED
      BY <3>1, <1>2, SaidStays
  <2>2. opt.events => Len(reader.events) + Cardinality(JsonEnds(Wire)) = SaidTo'
    <3>1. ASSUME opt.events PROVE Len(G!Sinks) \in Nat \ {0}
      BY <3>1, EventsLast DEF LogBase, LogTyped
    <3>2. opt.events => ToldTo(Len(G!Sinks))' = Len(hooks) /\ ToldTo(Len(G!Sinks)) = Len(hooks)
      <4>1. ToldTo(Len(G!Sinks))' = Len(hooks') - Len(queue') + (IF queue' # <<>> /\ turn' > Len(G!Sinks) THEN 1 ELSE 0)
        BY <1>4 DEF ToldTo
      <4> DEFINE n == Len(G!Sinks)
      <4>2. ToldTo(n) = Len(hooks) - Len(queue) + (IF queue # <<>> /\ turn > n THEN 1 ELSE 0)
        BY DEF ToldTo
      <4>3. queue = <<>> /\ Len(queue) = 0
        BY EmptySeq DEF Appends
      <4>4. opt.events => ~(1 > n)
        BY <3>1
      <4>5. Len(hooks') - Len(queue') + 0 = Len(hooks)
        BY <1>2, <1>3
      <4> QED
        BY <4>1, <4>2, <4>3, <4>4, <4>5, <1>2, <1>3
    <3> QED
      BY <3>2, <2>0, <1>1 DEF WireIsRest, SaidTo
  <2>3. \A j \in JsonEnds(Wire) : Wire[j].of = Said'[Len(reader.events) + Rank(JsonEnds(Wire), j)]
    BY <1>1, <2>0, WirePlaces DEF WireIsRest
  <2>4. \A i \in DOMAIN reader.events : reader.events[i] = Said'[i]
    <3>1. \A i \in DOMAIN reader.events : i \in 1..Len(Said)
      <4> DEFINE e == Len(reader.events)
                 h == Len(Said)
      <4>1. DOMAIN reader.events = 1..e /\ e \in Nat /\ e <= h
        BY WirePlaces, Zenon
      <4>2. h \in Nat
        BY ToldIsSaid
      <4> HIDE DEF e, h
      <4>3. \A i \in 1..e : i \in 1..h
        BY <4>1, <4>2
      <4> QED
        BY <4>1, <4>3, Zenon DEF h
    <3> QED
      BY <3>1, <1>1, <2>0 DEF WireIsRest
  <2>5. Len(reader.events) <= Len(Said')
    <3>1. Len(Said') \in Nat /\ Len(Said) \in Nat /\ Len(reader.events) \in Nat /\ Len(reader.events) <= Len(Said)
      BY <1>2, SaidPlaces, WirePlaces, ToldIsSaid
    <3> QED
      BY <3>1, <2>0
  <2> QED
    BY <1>3, <1>4, <2>1, <2>2, <2>3, <2>4, <2>5 DEF WireIsRest
<1> QED
  BY <1>5, <1>6, <1>7 DEF LogBase

-----------------------------------------------------------------------------
(* The journal's steps hand out hooks.                                      *)

LEMMA OneHook ==
    ASSUME NEW h \in Hook
    PROVE  <<h>> \in Seq(Hook) /\ <<h>> # <<>> /\ Len(<<h>>) = 1 /\ <<h>>[1] = h
  OBVIOUS

LEMMA OneHookTold ==
    ASSUME NEW h \in Hook, queue = <<>>, G!Tell(<<h>>), UNCHANGED <<opt, sarif, rtf, pipe, reader>>
    PROVE  Appends(<<h>>)
  BY OneHook, Zenon DEF Appends, G!Tell

LEMMA TypedParts ==
    ASSUME LogTyped
    PROVE  /\ journal \in Journals /\ journal.group \in Groups \cup {NoGroup} /\ journal.test \in LogTests \cup {NoTest}
           /\ journal.phase \in {"setup", "teardown", NoPhase} /\ journal.open \in BOOLEAN
           /\ journal.checks \in Nat /\ journal.failures \in Nat /\ thrown \in BOOLEAN /\ passed \in BOOLEAN
  BY DEF LogTyped, Journals

(* What each step of the journal makes of it, and the hooks it hands out.   *)
LEMMA JournalMoves ==
    ASSUME LogTyped, QueueIsRest,
           \/ G!Begin \/ \E g \in Groups : G!BeginGroup(g)
           \/ G!EndGroup \/ \E t \in LogTests : G!BeginTest(t)
           \/ G!EndTest \/ G!BeginPhase \/ G!EndPhase
           \/ \E r \in G!Postable : G!Post(r)
           \/ (G!Throw /\ journal.phase = "setup") \/ G!End
    PROVE  /\ journal' \in Journals /\ thrown' \in BOOLEAN /\ passed' \in BOOLEAN
           /\ \E new : Appends(new)
           /\ stage \notin {"starting", "dead", "exited"} /\ stage' \in {"run", "ending"}
<1> DEFINE Goal == /\ journal' \in Journals /\ thrown' \in BOOLEAN /\ passed' \in BOOLEAN
                   /\ \E new : Appends(new)
                   /\ stage \notin {"starting", "dead", "exited"} /\ stage' \in {"run", "ending"}
<1>1. /\ journal \in Journals /\ journal.group \in Groups \cup {NoGroup} /\ journal.test \in LogTests \cup {NoTest}
      /\ journal.phase \in {"setup", "teardown", NoPhase} /\ thrown \in BOOLEAN /\ passed \in BOOLEAN
  BY TypedParts
<1>2. /\ G!Plain \in Hook
      /\ \A kind \in HookKinds : G!Hook(kind) \in Hook
      /\ \A h \in Hook :
           /\ \A g \in Groups \cup {NoGroup} : [h EXCEPT !.group = g] \in Hook
           /\ \A t \in LogTests \cup {NoTest} : [h EXCEPT !.test = t] \in Hook
           /\ \A p \in {"setup", "teardown", NoPhase} : [h EXCEPT !.phase = p] \in Hook
           /\ \A k \in HookKinds : [h EXCEPT !.hook = k] \in Hook
           /\ \A b \in BOOLEAN : [h EXCEPT !.ok = b] \in Hook
  BY HooksTyped
<1>3. /\ "groupStart" \in HookKinds /\ "groupEnd" \in HookKinds /\ "testStart" \in HookKinds /\ "testEnd" \in HookKinds
      /\ "phaseStart" \in HookKinds /\ "phaseEnd" \in HookKinds /\ "runEnd" \in HookKinds
  BY DEF HookKinds
<1>4. CASE G!Begin
  <2>1. queue = <<>>
    BY <1>4 DEF G!Begin, QueueIsRest
  <2>2. Appends(<<G!Plain>>)
    BY <1>4, <1>2, <2>1, OneHookTold DEF G!Begin, G!sinkVars
  <2> QED
    BY <1>1, <1>4, <2>2 DEF G!Begin
<1>5. CASE \E g \in Groups : G!BeginGroup(g)
  <2>1. PICK g \in Groups : G!BeginGroup(g)
    BY <1>5
  <2> DEFINE h == [G!Hook("groupStart") EXCEPT !.group = g]
  <2>2. h \in Hook
    BY <1>2, <1>3
  <2>3. Appends(<<h>>)
    BY <2>1, <2>2, OneHookTold DEF G!BeginGroup, G!Ready, G!sinkVars
  <2>4. [journal EXCEPT !.group = g] \in Journals
    BY <1>1 DEF Journals
  <2> HIDE DEF h
  <2> QED
    BY <1>1, <2>1, <2>3, <2>4 DEF G!BeginGroup, G!Ready
<1>6. CASE G!EndGroup
  <2> DEFINE h == [G!Hook("groupEnd") EXCEPT !.group = journal.group]
  <2>1. h \in Hook
    BY <1>1, <1>2, <1>3
  <2>2. Appends(<<h>>)
    BY <1>6, <2>1, OneHookTold DEF G!EndGroup, G!Ready, G!sinkVars
  <2>3. [journal EXCEPT !.group = NoGroup] \in Journals
    BY <1>1 DEF Journals
  <2> HIDE DEF h
  <2> QED
    BY <1>1, <1>6, <2>2, <2>3 DEF G!EndGroup, G!Ready
<1>7. CASE \E t \in LogTests : G!BeginTest(t)
  <2>1. PICK t \in LogTests : G!BeginTest(t)
    BY <1>7
  <2> DEFINE h == [G!Hook("testStart") EXCEPT !.test = t]
  <2>2. h \in Hook
    BY <1>2, <1>3
  <2>3. Appends(<<h>>)
    BY <2>1, <2>2, OneHookTold DEF G!BeginTest, G!Ready, G!sinkVars
  <2>4. [journal EXCEPT !.test = t, !.open = TRUE, !.checks = 0, !.failures = 0] \in Journals
    BY <1>1 DEF Journals
  <2> HIDE DEF h
  <2> QED
    BY <1>1, <2>1, <2>3, <2>4 DEF G!BeginTest, G!Ready
<1>8. CASE G!EndTest
  <2> DEFINE none == journal.open /\ journal.checks = 0
             j == IF none THEN G!Counted(journal, G!Unchecked) ELSE journal
             ok == G!Verdict(j)
             h == [G!Hook("testEnd") EXCEPT !.ok = ok, !.group = journal.group, !.test = journal.test]
             first == IF none THEN <<G!Stamped(journal, 0, G!Unchecked)>> ELSE <<>>
  <2>1. /\ G!Ready /\ journal' = [j EXCEPT !.open = FALSE, !.test = NoTest] /\ passed' = (passed /\ ok)
        /\ G!Tell(first \o <<h>>)
    <3>1. CASE none
      <4>1. G!Closing(journal) = <<G!Unchecked>> /\ <<G!Unchecked>> # <<>> /\ <<G!Unchecked>>[1] = G!Unchecked
        BY <3>1 DEF G!Closing
      <4> QED
        BY <3>1, <4>1, <1>8 DEF G!EndTest
    <3>2. CASE ~none
      <4>1. G!Closing(journal) = <<>>
        BY <3>2 DEF G!Closing
      <4> QED
        BY <3>2, <4>1, <1>8 DEF G!EndTest
    <3> QED
      BY <3>1, <3>2
  <2>2. j \in Journals /\ G!Stamped(journal, 0, G!Unchecked) \in Hook
    <3>1. G!Unchecked \in G!Postable \cup {G!Unchecked}
      OBVIOUS
    <3> QED
      BY <3>1, <1>1, StampedTyped
  <2>3. ok \in BOOLEAN
    BY DEF G!Verdict
  <2> HIDE DEF ok
  <2>4. h \in Hook
    <3>1. [[G!Hook("testEnd") EXCEPT !.ok = ok] EXCEPT !.group = journal.group] \in Hook
      BY <1>1, <1>2, <1>3, <2>3
    <3> QED
      BY <3>1, <1>1, <1>2
  <2> HIDE DEF h, j
  <2>5. first \o <<h>> \in Seq(Hook) /\ first \o <<h>> # <<>>
    <3>1. first \in Seq(Hook) /\ <<h>> \in Seq(Hook) /\ Len(<<h>>) = 1
      BY <2>2, <2>4
    <3> HIDE DEF first
    <3>2. first \o <<h>> \in Seq(Hook) /\ Len(first \o <<h>>) = Len(first) + 1 /\ Len(first) \in Nat
      BY <3>1, ConcatProperties, LenProperties
    <3>3. Len(first \o <<h>>) # 0
      BY <3>2
    <3> QED
      BY <3>2, <3>3, EmptySeq
  <2> HIDE DEF first
  <2>6. Appends(first \o <<h>>)
    BY <1>8, <2>1, <2>5 DEF Appends, G!Tell, G!Ready, G!EndTest, G!sinkVars
  <2>7. [j EXCEPT !.open = FALSE, !.test = NoTest] \in Journals
    BY <2>2 DEF Journals
  <2>8. stage' = stage /\ thrown' = thrown /\ stage = "run"
    BY <1>8 DEF G!EndTest, G!Ready
  <2>9. (passed /\ ok) \in BOOLEAN
    BY <2>3, <1>1
  <2> QED
    BY <1>1, <2>1, <2>6, <2>7, <2>8, <2>9
<1>9. CASE G!BeginPhase
  <2>1. PICK p \in {"setup", "teardown"} :
          /\ journal' = [journal EXCEPT !.phase = p]
          /\ G!Tell(<<[G!Hook("phaseStart") EXCEPT !.group = journal.group, !.phase = p]>>)
    BY <1>9 DEF G!BeginPhase
  <2> DEFINE h == [G!Hook("phaseStart") EXCEPT !.group = journal.group, !.phase = p]
  <2>2. h \in Hook
    <3>1. p \in {"setup", "teardown", NoPhase}
      OBVIOUS
    <3>2. [G!Hook("phaseStart") EXCEPT !.group = journal.group] \in Hook
      BY <1>1, <1>2, <1>3
    <3> QED
      BY <3>1, <3>2, <1>2
  <2>3. Appends(<<h>>)
    BY <1>9, <2>1, <2>2, OneHookTold DEF G!BeginPhase, G!Ready, G!sinkVars
  <2>4. [journal EXCEPT !.phase = p] \in Journals
    BY <1>1 DEF Journals
  <2> HIDE DEF h
  <2> QED
    BY <1>1, <1>9, <2>1, <2>3, <2>4 DEF G!BeginPhase, G!Ready
<1>10. CASE G!EndPhase \/ (G!Throw /\ journal.phase = "setup")
  <2> DEFINE h == [G!Hook("phaseEnd") EXCEPT !.phase = journal.phase]
  <2>1. h \in Hook
    BY <1>1, <1>2, <1>3
  <2>2. [journal EXCEPT !.phase = NoPhase] \in Journals
    BY <1>1 DEF Journals
  <2>3. G!Tell(<<h>>) /\ journal' = [journal EXCEPT !.phase = NoPhase] /\ UNCHANGED <<opt, stage, sarif, rtf, pipe, reader>>
    <3>1. CASE G!EndPhase
      BY <3>1 DEF G!EndPhase, G!sinkVars
    <3>2. CASE G!Throw /\ journal.phase = "setup"
      BY <3>2, LogsAssumption DEF G!Throw, G!sinkVars
    <3> QED
      BY <3>1, <3>2, <1>10
  <2>4. queue = <<>> /\ stage = "run"
    BY <1>10 DEF G!EndPhase, G!Throw, G!Ready
  <2>5. Appends(<<h>>)
    BY <2>1, <2>3, <2>4, OneHookTold
  <2>6. thrown' \in BOOLEAN /\ passed' \in BOOLEAN
    BY <1>1, <1>10 DEF G!EndPhase, G!Throw
  <2> HIDE DEF h
  <2> QED
    BY <2>2, <2>3, <2>4, <2>5, <2>6
<1>11. CASE \E r \in G!Postable : G!Post(r)
  <2>1. PICK r \in G!Postable : G!Post(r)
    BY <1>11
  <2>2. G!Stamped(journal, 0, r) \in Hook /\ G!Counted(journal, r) \in Journals
    BY <1>1, StampedTyped
  <2>3. Appends(<<G!Stamped(journal, 0, r)>>)
    BY <2>1, <2>2, OneHookTold DEF G!Post, G!Ready, G!sinkVars
  <2> QED
    BY <1>1, <2>1, <2>2, <2>3 DEF G!Post, G!Ready
<1>12. CASE G!End
  <2>1. PICK ok \in {FALSE, passed} : passed' = ok /\ G!Tell(<<[G!Plain EXCEPT !.hook = "runEnd", !.ok = ok]>>)
    BY <1>12 DEF G!End
  <2> DEFINE h == [G!Plain EXCEPT !.hook = "runEnd", !.ok = ok]
  <2>2. ok \in BOOLEAN
    BY <1>1
  <2>3. h \in Hook
    <3>1. [G!Plain EXCEPT !.hook = "runEnd"] \in Hook
      BY <1>2, <1>3
    <3> QED
      BY <3>1, <2>2, <1>2
  <2>4. Appends(<<h>>)
    BY <1>12, <2>1, <2>3, OneHookTold DEF G!End, G!Ready, G!sinkVars
  <2> HIDE DEF h
  <2> QED
    BY <1>1, <1>12, <2>1, <2>2, <2>4 DEF G!End, G!Ready
<1> QED
  BY <1>4, <1>5, <1>6, <1>7, <1>8, <1>9, <1>10, <1>11, <1>12

-----------------------------------------------------------------------------
(* The steps that hand out no hook.                                         *)

LEMMA BaseParts ==
    ASSUME LogBase
    PROVE  /\ opt \in [quiet : BOOLEAN, logs : BOOLEAN, events : BOOLEAN] /\ Len(G!Sinks) \in Nat
           /\ hooks \in Seq(Hook) /\ queue \in Seq(Hook) /\ turn \in Nat \ {0} /\ turn <= Len(G!Sinks) + 1
           /\ pipe \in Seq(Piece) /\ reader.partial \in Seq(Piece) /\ reader.events \in Seq(Hook)
           /\ reader \in [partial : Seq(Piece), events : Seq(Hook)]
           /\ Wire \in Seq(Piece)
           /\ Len(hooks) \in Nat /\ DOMAIN hooks = 1..Len(hooks) /\ Len(queue) \in Nat /\ DOMAIN queue = 1..Len(queue)
           /\ Len(queue) <= Len(hooks) /\ (queue = <<>> <=> Len(queue) = 0)
           /\ opt.events \in BOOLEAN /\ opt.logs \in BOOLEAN
<1>1. /\ opt \in [quiet : BOOLEAN, logs : BOOLEAN, events : BOOLEAN] /\ hooks \in Seq(Hook) /\ queue \in Seq(Hook)
      /\ turn \in Nat \ {0} /\ turn <= Len(G!Sinks) + 1 /\ pipe \in Seq(Piece)
      /\ reader \in [partial : Seq(Piece), events : Seq(Hook)]
  BY DEF LogBase, LogTyped
<1>2. reader.partial \in Seq(Piece) /\ reader.events \in Seq(Hook) /\ opt.events \in BOOLEAN /\ opt.logs \in BOOLEAN
  BY <1>1
<1>3. Len(G!Sinks) \in Nat
  BY <1>1, EventsLast
<1>4. Wire \in Seq(Piece)
  BY WirePlaces
<1>5. /\ Len(hooks) \in Nat /\ DOMAIN hooks = 1..Len(hooks) /\ Len(queue) \in Nat /\ DOMAIN queue = 1..Len(queue)
      /\ Len(queue) <= Len(hooks) /\ (queue = <<>> <=> Len(queue) = 0)
  BY ToldIsPlace DEF LogBase
<1> QED
  BY <1>1, <1>2, <1>3, <1>4, <1>5

LEMMA StillKeeps ==
    ASSUME LogBase, Still, StageMoves, journal' \in Journals, thrown' \in BOOLEAN, passed' \in BOOLEAN
    PROVE  LogBase'
<1>1. G!Sinks' = G!Sinks /\ Wire' = Wire
  BY SinksStay DEF Still, Wire
<1>2. Said' = Said /\ (opt.events => SaidTo' = SaidTo)
  BY <1>1, SaidSame DEF ToldTo, Still
<1>3. LogTyped'
  BY <1>1 DEF LogBase, LogTyped, Still, StageMoves
<1>4. QueueIsRest'
  BY DEF LogBase, QueueIsRest, Still, StageMoves
<1>5. WireIsRest'
  <2>1. WireIsRest
    BY DEF LogBase
  <2>2. stage' # "dead" => stage # "dead"
    BY DEF StageMoves
  <2>3. opt' = opt /\ hooks' = hooks /\ reader' = reader
    BY DEF Still
  <2> QED
    BY <2>1, <2>2, <2>3, <1>1, <1>2 DEF WireIsRest
<1> QED
  BY <1>3, <1>4, <1>5 DEF LogBase

\* A sink that is not the stream has been told.
LEMMA TellKeeps ==
    ASSUME LogBase, G!Telling, G!Sinks[turn] # "Events", turn' = turn + 1,
           UNCHANGED <<opt, stage, journal, thrown, passed, queue, hooks, pipe, reader>>
    PROVE  LogBase'
<1>1. /\ Len(G!Sinks) \in Nat /\ turn \in Nat \ {0} /\ turn <= Len(G!Sinks)
      /\ opt \in [quiet : BOOLEAN, logs : BOOLEAN, events : BOOLEAN] /\ opt.events \in BOOLEAN
  BY BaseParts DEF G!Telling
<1>2. turn \in 1..Len(G!Sinks)
  BY <1>1
<1>3. opt.events => turn < Len(G!Sinks)
  BY <1>1, <1>2, EventsLast
<1>4. G!Sinks' = G!Sinks /\ Wire' = Wire
  BY SinksStay DEF Wire
<1>5. opt.events => ToldTo(Len(G!Sinks))' = ToldTo(Len(G!Sinks))
  <2>1. opt.events => (turn' > Len(G!Sinks)) = (turn > Len(G!Sinks))
    BY <1>1, <1>3
  <2> QED
    BY <2>1, <1>4 DEF ToldTo
<1>6. LogTyped'
  <2>1. turn' \in Nat \ {0} /\ turn' <= Len(G!Sinks) + 1
    BY <1>1
  <2> QED
    BY <2>1, <1>4 DEF LogBase, LogTyped
<1>7. QueueIsRest'
  BY DEF LogBase, QueueIsRest
<1>8. WireIsRest'
  BY <1>4, <1>5, SaidSame DEF LogBase, WireIsRest
<1> QED
  BY <1>6, <1>7, <1>8 DEF LogBase

LEMMA DoneKeeps ==
    ASSUME LogBase, G!HookDone
    PROVE  LogBase'
<1>1. /\ stage \in {"run", "ending"} /\ queue # <<>> /\ turn > Len(G!Sinks) /\ queue' = Tail(queue) /\ turn' = 1
      /\ UNCHANGED <<opt, stage, journal, thrown, passed, hooks, pipe, reader>>
  BY DEF G!HookDone, G!runVars, G!sinkVars
<1>2. /\ hooks \in Seq(Hook) /\ queue \in Seq(Hook) /\ Len(hooks) \in Nat /\ Len(queue) \in Nat
      /\ Len(queue) <= Len(hooks) /\ (queue = <<>> <=> Len(queue) = 0) /\ Len(G!Sinks) \in Nat /\ DOMAIN queue = 1..Len(queue)
      /\ opt \in [quiet : BOOLEAN, logs : BOOLEAN, events : BOOLEAN]
  BY BaseParts
<1>3. /\ queue' \in Seq(Hook) /\ Len(queue') = Len(queue) - 1 /\ DOMAIN queue' = 1..(Len(queue) - 1)
      /\ \A i \in 1..(Len(queue) - 1) : queue'[i] = queue[i + 1]
  <2>1. Tail(queue) \in Seq(Hook) /\ Len(Tail(queue)) = Len(queue) - 1 /\ \A i \in 1..(Len(queue) - 1) : Tail(queue)[i] = queue[i + 1]
    BY <1>1, <1>2, HeadTailProperties
  <2>2. DOMAIN Tail(queue) = 1..Len(Tail(queue))
    BY <2>1, LenProperties
  <2> QED
    BY <2>1, <2>2, <1>1
<1>4. G!Sinks' = G!Sinks /\ Wire' = Wire
  BY <1>1, SinksStay DEF Wire
<1>5. LogTyped'
  <2>1. turn' \in Nat \ {0} /\ turn' <= Len(G!Sinks) + 1
    BY <1>1, <1>2
  <2> QED
    BY <2>1, <1>1, <1>3, <1>4 DEF LogBase, LogTyped
<1>6. QueueIsRest'
  <2>1. Len(queue') <= Len(hooks')
    BY <1>1, <1>2, <1>3
  <2>2. ASSUME NEW i \in DOMAIN queue' PROVE queue'[i] = hooks'[Len(hooks') - Len(queue') + i]
    <3>0. i \in 1..(Len(queue) - 1)
      BY <1>3
    <3>1. i \in 1..(Len(queue) - 1) /\ i + 1 \in 1..Len(queue) /\ Len(hooks) - Len(queue) + (i + 1) = Len(hooks) - (Len(queue) - 1) + i
      <4>1. \A h, q \in Nat : \A k \in 1..(q - 1) : k + 1 \in 1..q /\ h - q + (k + 1) = h - (q - 1) + k
        OBVIOUS
      <4> QED
        BY <4>1, <3>0, <1>2, Zenon
    <3>2. queue[i + 1] = hooks[Len(hooks) - Len(queue) + (i + 1)]
      BY <3>1, <1>2 DEF LogBase, QueueIsRest
    <3> QED
      BY <3>1, <3>2, <1>1, <1>3
  <2> QED
    BY <2>1, <2>2, <1>1 DEF QueueIsRest
<1>7. WireIsRest'
  <2>1. WireIsRest
    BY DEF LogBase
  <2>2. opt.events => ToldTo(Len(G!Sinks))' = ToldTo(Len(G!Sinks))
    <3>1. ToldTo(Len(G!Sinks)) = Len(hooks) - Len(queue) + 1
      BY <1>1 DEF ToldTo
    <3>2. ToldTo(Len(G!Sinks))' = Len(hooks) - (Len(queue) - 1) + (IF queue' # <<>> /\ 1 > Len(G!Sinks) THEN 1 ELSE 0)
      BY <1>1, <1>3, <1>4 DEF ToldTo
    <3>3. opt.events => ~(1 > Len(G!Sinks))
      BY <1>2, EventsLast
    <3>4. Len(hooks) - (Len(queue) - 1) + 0 = Len(hooks) - Len(queue) + 1
      BY <1>2
    <3> QED
      BY <3>1, <3>2, <3>3, <3>4
  <2> QED
    BY <2>1, <2>2, <1>1, <1>4, SaidSame DEF WireIsRest
<1> QED
  BY <1>5, <1>6, <1>7 DEF LogBase

-----------------------------------------------------------------------------
(* What is written to the stream and what is read of it.                    *)

LEMMA WholeOfHalf ==
    ASSUME NEW half \in Piece, NEW whole \in Piece, whole.text = half.text, whole.of = half.of, whole.newline = TRUE
    PROVE  whole = [half EXCEPT !.newline = TRUE]
<1> DEFINE c == [half EXCEPT !.newline = TRUE]
<1>1. c \in Piece /\ c.text = half.text /\ c.of = half.of /\ c.newline = TRUE
  BY DEF Piece
<1> HIDE DEF c
<1>2. c = whole
  BY <1>1 DEF Piece
<1> QED
  BY <1>2 DEF c

(* The first of two.                                                        *)
LEMMA FirstOfTwo ==
    ASSUME NEW S, NEW a \in S, NEW b \in S
    PROVE  SubSeq(<<a, b>>, 1, 1) = <<a>>
<1> DEFINE s == SubSeq(<<a, b>>, 1, 1)
<1>1. <<a, b>> \in Seq(S) /\ \A i \in 1..1 : <<a, b>>[i] \in S
  OBVIOUS
<1>2. s \in Seq(S) /\ Len(s) = 1 /\ s[1] = <<a, b>>[1]
  BY <1>1, SubSeqProperties
<1>3. <<a>> \in Seq(S) /\ Len(<<a>>) = 1 /\ <<a>>[1] = a
  OBVIOUS
<1> HIDE DEF s
<1>4. \A i \in 1..1 : s[i] = <<a>>[i]
  BY <1>2, <1>3
<1>5. s = <<a>>
  BY <1>2, <1>3, <1>4, SeqEqual
<1> QED
  BY <1>5 DEF s

LEMMA LineTyped ==
    ASSUME NEW kind \in {"json", "text"}, NEW h \in Hook
    PROVE  LET half == [text |-> kind, of |-> h, newline |-> FALSE]
               whole == [text |-> kind, of |-> h, newline |-> TRUE]
           IN  /\ G!Line(kind, h) = <<half, whole>> /\ half \in Piece /\ whole \in Piece
               /\ whole = [half EXCEPT !.newline = TRUE]
               /\ SubSeq(G!Line(kind, h), 1, 1) = <<half>>
               /\ G!Line(kind, h) \in Seq(Piece) /\ <<half>> \in Seq(Piece)
<1> DEFINE half == [text |-> kind, of |-> h, newline |-> FALSE]
           whole == [text |-> kind, of |-> h, newline |-> TRUE]
<1>1. G!Line(kind, h) = <<half, whole>>
  BY DEF G!Line
<1>2. half \in Piece /\ whole \in Piece
  BY DEF Piece
<1>3. whole = [half EXCEPT !.newline = TRUE]
  <2>1. whole.text = half.text /\ whole.of = half.of /\ whole.newline = TRUE
    OBVIOUS
  <2> HIDE DEF half, whole
  <2> QED
    BY <1>2, <2>1, WholeOfHalf
<1>4. SubSeq(G!Line(kind, h), 1, 1) = <<half>>
  <2> HIDE DEF half, whole
  <2>1. SubSeq(<<half, whole>>, 1, 1) = <<half>>
    BY <1>2, FirstOfTwo
  <2> QED
    BY <1>1, <2>1
<1>5. <<half, whole>> \in Seq(Piece) /\ <<half>> \in Seq(Piece)
  <2> HIDE DEF half, whole
  <2> QED
    BY <1>2
<1> QED
  BY <1>1, <1>2, <1>3, <1>4, <1>5, Zenon

LEMMA InARow == \A r, p, l \in Seq(Piece) : (r \o p) \o l = r \o (p \o l)
  BY ConcatAssociative

(* Pieces after others.                                                     *)
LEMMA PiecesAfter ==
    ASSUME NEW w \in Seq(Piece), NEW a \in Piece, NEW b \in Piece
    PROVE  /\ Len(w) \in Nat /\ DOMAIN w = 1..Len(w)
           /\ w \o <<a>> \in Seq(Piece) /\ Len(w \o <<a>>) = Len(w) + 1 /\ DOMAIN (w \o <<a>>) = 1..(Len(w) + 1)
           /\ (w \o <<a>>)[Len(w) + 1] = a /\ \A i \in 1..Len(w) : (w \o <<a>>)[i] = w[i]
           /\ w \o <<a, b>> \in Seq(Piece) /\ Len(w \o <<a, b>>) = Len(w) + 2 /\ DOMAIN (w \o <<a, b>>) = 1..(Len(w) + 2)
           /\ (w \o <<a, b>>)[Len(w) + 1] = a /\ (w \o <<a, b>>)[Len(w) + 2] = b
           /\ \A i \in 1..Len(w) : (w \o <<a, b>>)[i] = w[i]
<1>1. Len(w) \in Nat /\ DOMAIN w = 1..Len(w)
  BY LenProperties
<1>2. ASSUME NEW s \in Seq(Piece), NEW n \in Nat, Len(s) = n
      PROVE  /\ w \o s \in Seq(Piece) /\ Len(w \o s) = Len(w) + n /\ DOMAIN (w \o s) = 1..(Len(w) + n)
             /\ \A i \in 1..Len(w) : (w \o s)[i] = w[i]
             /\ \A i \in 1..n : (w \o s)[Len(w) + i] = s[i]
  <2>1. /\ w \o s \in Seq(Piece) /\ Len(w \o s) = Len(w) + Len(s)
        /\ \A i \in 1..(Len(w) + Len(s)) : (w \o s)[i] = IF i <= Len(w) THEN w[i] ELSE s[i - Len(w)]
    BY ConcatProperties
  <2>2. DOMAIN (w \o s) = 1..Len(w \o s)
    BY <2>1, LenProperties
  <2> DEFINE v == w \o s
  <2> HIDE DEF v
  <2>3. Len(v) = Len(w) + n /\ \A i \in 1..(Len(w) + n) : v[i] = IF i <= Len(w) THEN w[i] ELSE s[i - Len(w)]
    BY <2>1, <1>2 DEF v
  <2>4. \A i \in 1..Len(w) : v[i] = w[i]
    BY <2>3, <1>1
  <2>5. \A i \in 1..n : v[Len(w) + i] = s[i]
    BY <2>3, <1>1
  <2> QED
    BY <2>1, <2>2, <2>3, <2>4, <2>5 DEF v
<1>3. <<a>> \in Seq(Piece) /\ Len(<<a>>) = 1 /\ <<a>>[1] = a
  OBVIOUS
<1>4. <<a, b>> \in Seq(Piece) /\ Len(<<a, b>>) = 2 /\ <<a, b>>[1] = a /\ <<a, b>>[2] = b
  OBVIOUS
<1> DEFINE s == <<a>>
           t == <<a, b>>
<1> HIDE DEF s, t
<1>5. /\ w \o s \in Seq(Piece) /\ Len(w \o s) = Len(w) + 1 /\ DOMAIN (w \o s) = 1..(Len(w) + 1)
      /\ \A i \in 1..Len(w) : (w \o s)[i] = w[i]
      /\ \A i \in 1..1 : (w \o s)[Len(w) + i] = s[i]
  BY <1>2, <1>3 DEF s
<1>6. /\ w \o t \in Seq(Piece) /\ Len(w \o t) = Len(w) + 2 /\ DOMAIN (w \o t) = 1..(Len(w) + 2)
      /\ \A i \in 1..Len(w) : (w \o t)[i] = w[i]
      /\ \A i \in 1..2 : (w \o t)[Len(w) + i] = t[i]
  BY <1>2, <1>4 DEF t
<1>7. (w \o s)[Len(w) + 1] = s[1] /\ (w \o t)[Len(w) + 1] = t[1] /\ (w \o t)[Len(w) + 2] = t[2]
  <2>1. 1 \in 1..1 /\ 1 \in 1..2 /\ 2 \in 1..2
    OBVIOUS
  <2> QED
    BY <2>1, <1>5, <1>6, Zenon
<1> QED
  BY <1>1, <1>3, <1>4, <1>5, <1>6, <1>7, Zenon DEF s, t

(* A line after whole lines.                                                *)
LEMMA WrittenLine ==
    ASSUME NEW w \in Seq(Piece), InPairs(w), WholeLines(w), NEW kind \in {"json", "text"}, NEW h \in Hook
    PROVE  LET v == w \o G!Line(kind, h) IN
           /\ v \in Seq(Piece) /\ InPairs(v) /\ WholeLines(v)
           /\ JsonEnds(v) = IF kind = "json" /\ G!Parses(h) THEN JsonEnds(w) \cup {Len(w) + 2} ELSE JsonEnds(w)
           /\ v[Len(w) + 2].of = h /\ \A i \in JsonEnds(w) : v[i] = w[i] /\ i < Len(w) + 2
<1> DEFINE a == [text |-> kind, of |-> h, newline |-> FALSE]
           b == [text |-> kind, of |-> h, newline |-> TRUE]
<1>1. G!Line(kind, h) = <<a, b>> /\ a \in Piece /\ b \in Piece /\ b = [a EXCEPT !.newline = TRUE]
  BY LineTyped
<1>2. ~a.newline /\ b.newline /\ b.text = kind /\ b.of = h
  OBVIOUS
<1> HIDE DEF a, b
<1> DEFINE v == w \o <<a, b>>
           n == Len(w)
           added == kind = "json" /\ G!Parses(h)
<1>3. /\ n \in Nat /\ DOMAIN w = 1..n
      /\ v \in Seq(Piece) /\ Len(v) = n + 2 /\ DOMAIN v = 1..(n + 2)
      /\ v[n + 1] = a /\ v[n + 2] = b /\ \A i \in 1..n : v[i] = w[i]
  BY <1>1, PiecesAfter
<1>4. n # 0 => n \in 1..n /\ w[n].newline
  <2>1. w = <<>> <=> n = 0
    BY EmptySeq
  <2> QED
    BY <2>1, <1>3 DEF WholeLines
<1> HIDE DEF v, n
<1>5. InPairs(v)
  <2> SUFFICES ASSUME NEW i \in DOMAIN v
               PROVE  IF v[i].newline THEN i > 1 /\ ~v[i - 1].newline /\ v[i] = [v[i - 1] EXCEPT !.newline = TRUE]
                      ELSE i < Len(v) => v[i + 1].newline
    BY Zenon DEF InPairs
  <2>1. i \in Nat /\ (i \in 1..n \/ i = n + 1 \/ i = n + 2)
    BY <1>3
  <2>2. CASE i \in 1..n
    <3>1. IF w[i].newline THEN i > 1 /\ ~w[i - 1].newline /\ w[i] = [w[i - 1] EXCEPT !.newline = TRUE]
          ELSE i < n => w[i + 1].newline
      BY <2>2, <1>3 DEF InPairs, n
    <3>2. CASE v[i].newline
      <4>1. w[i].newline
        BY <3>2, <2>2, <1>3
      <4>2. i > 1 /\ i - 1 \in 1..n
        BY <3>1, <4>1, <2>2, <1>3
      <4> QED
        BY <3>1, <3>2, <4>1, <4>2, <2>2, <1>3
    <3>3. CASE ~v[i].newline
      <4>1. ~w[i].newline
        BY <3>3, <2>2, <1>3
      <4>2. i # n
        BY <4>1, <1>4, <2>2
      <4>3. i < n /\ i + 1 \in 1..n
        BY <4>2, <2>2, <1>3
      <4> QED
        BY <3>1, <3>3, <4>1, <4>3, <1>3
    <3> QED
      BY <3>2, <3>3
  <2>3. CASE i = n + 1
    <3>1. (n + 1) + 1 = n + 2
      BY <1>3
    <3> QED
      BY <2>3, <3>1, <1>2, <1>3
  <2>4. CASE i = n + 2
    <3>1. (n + 2) - 1 = n + 1 /\ n + 2 > 1
      BY <1>3
    <3> QED
      BY <2>4, <3>1, <1>1, <1>2, <1>3
  <2> QED
    BY <2>1, <2>2, <2>3, <2>4
<1>6. WholeLines(v)
  BY <1>2, <1>3 DEF WholeLines
<1>7. \A i : i \in JsonEnds(v) <=> i \in JsonEnds(w) \/ (added /\ i = n + 2)
  <2>1. \A i \in 1..n : i \in JsonEnds(v) <=> i \in JsonEnds(w)
    <3>1. \A i \in 1..n : i \in 1..(n + 2)
      BY <1>3
    <3> QED
      BY <3>1, <1>3 DEF JsonEnds
  <2>2. n + 1 \notin JsonEnds(v) /\ (n + 2 \in JsonEnds(v) <=> added)
    <3>1. n + 2 \in 1..(n + 2)
      BY <1>3
    <3> QED
      BY <3>1, <1>2, <1>3 DEF JsonEnds
  <2>3. \A i \in JsonEnds(v) : i \in 1..n \/ i = n + 1 \/ i = n + 2
    <3>1. \A i \in JsonEnds(v) : i \in 1..(n + 2)
      BY <1>3, Zenon DEF JsonEnds
    <3> QED
      BY <3>1, <1>3
  <2>4. \A i \in JsonEnds(w) : i \in 1..n
    BY <1>3 DEF JsonEnds
  <2> HIDE DEF added
  <2>5. \A i : i \in JsonEnds(v) => i \in JsonEnds(w) \/ (added /\ i = n + 2)
    BY <2>1, <2>2, <2>3, Zenon
  <2>6. \A i : i \in JsonEnds(w) \/ (added /\ i = n + 2) => i \in JsonEnds(v)
    BY <2>1, <2>2, <2>4, Zenon
  <2> QED
    BY <2>5, <2>6, Zenon
<1>8. \A i \in JsonEnds(w) : v[i] = w[i] /\ i < n + 2
  <2>1. \A i \in JsonEnds(w) : i \in 1..n
    BY <1>3 DEF JsonEnds
  <2> QED
    BY <2>1, <1>3
<1>9. JsonEnds(v) = IF added THEN JsonEnds(w) \cup {n + 2} ELSE JsonEnds(w)
  BY <1>7, Zenon
<1> QED
  BY <1>1, <1>2, <1>3, <1>5, <1>6, <1>8, <1>9, Zenon DEF v, n

(* Half a line after whole lines.                                           *)
LEMMA WrittenHalf ==
    ASSUME NEW w \in Seq(Piece), InPairs(w), WholeLines(w), NEW h \in Hook
    PROVE  LET v == w \o SubSeq(G!Line("json", h), 1, 1) IN
           /\ v \in Seq(Piece) /\ InPairs(v) /\ v # <<>>
           /\ JsonEnds(v) = JsonEnds(w) /\ \A i \in JsonEnds(w) : v[i] = w[i]
<1> DEFINE a == [text |-> "json", of |-> h, newline |-> FALSE]
<1>1. SubSeq(G!Line("json", h), 1, 1) = <<a>> /\ a \in Piece
  BY LineTyped
<1>2. ~a.newline
  OBVIOUS
<1> HIDE DEF a
<1> DEFINE v == w \o <<a>>
           n == Len(w)
<1>3. /\ n \in Nat /\ DOMAIN w = 1..n
      /\ v \in Seq(Piece) /\ Len(v) = n + 1 /\ DOMAIN v = 1..(n + 1)
      /\ v[n + 1] = a /\ \A i \in 1..n : v[i] = w[i]
  BY <1>1, PiecesAfter
<1>4. n # 0 => w[n].newline
  <2>1. w = <<>> <=> n = 0
    BY EmptySeq
  <2> QED
    BY <2>1, <1>3 DEF WholeLines
<1> HIDE DEF v, n
<1>5. InPairs(v)
  <2> SUFFICES ASSUME NEW i \in DOMAIN v
               PROVE  IF v[i].newline THEN i > 1 /\ ~v[i - 1].newline /\ v[i] = [v[i - 1] EXCEPT !.newline = TRUE]
                      ELSE i < Len(v) => v[i + 1].newline
    BY Zenon DEF InPairs
  <2>1. i \in Nat /\ (i \in 1..n \/ i = n + 1)
    BY <1>3
  <2>2. CASE i \in 1..n
    <3>1. IF w[i].newline THEN i > 1 /\ ~w[i - 1].newline /\ w[i] = [w[i - 1] EXCEPT !.newline = TRUE]
          ELSE i < n => w[i + 1].newline
      BY <2>2, <1>3 DEF InPairs, n
    <3>2. CASE v[i].newline
      <4>1. w[i].newline
        BY <3>2, <2>2, <1>3
      <4>2. i > 1 /\ i - 1 \in 1..n
        BY <3>1, <4>1, <2>2, <1>3
      <4> QED
        BY <3>1, <3>2, <4>1, <4>2, <2>2, <1>3
    <3>3. CASE ~v[i].newline
      <4>1. ~w[i].newline
        BY <3>3, <2>2, <1>3
      <4>2. i # n
        BY <4>1, <1>4, <2>2, <1>3
      <4>3. i < n /\ i + 1 \in 1..n
        BY <4>2, <2>2, <1>3
      <4> QED
        BY <3>1, <3>3, <4>1, <4>3, <1>3
    <3> QED
      BY <3>2, <3>3
  <2>3. CASE i = n + 1
    BY <2>3, <1>2, <1>3
  <2> QED
    BY <2>1, <2>2, <2>3
<1>6. v # <<>>
  <2>1. Len(v) # 0
    BY <1>3
  <2> QED
    BY <2>1, <1>3, EmptySeq
<1>7. \A i : i \in JsonEnds(v) <=> i \in JsonEnds(w)
  <2>1. \A i \in 1..n : i \in JsonEnds(v) <=> i \in JsonEnds(w)
    <3>1. \A i \in 1..n : i \in 1..(n + 1)
      BY <1>3
    <3> QED
      BY <3>1, <1>3 DEF JsonEnds
  <2>2. n + 1 \notin JsonEnds(v)
    BY <1>2, <1>3 DEF JsonEnds
  <2>3. \A i \in JsonEnds(v) : i \in 1..n \/ i = n + 1
    <3>1. \A i \in JsonEnds(v) : i \in 1..(n + 1)
      BY <1>3, Zenon DEF JsonEnds
    <3> QED
      BY <3>1, <1>3
  <2>4. \A i \in JsonEnds(w) : i \in 1..n
    BY <1>3 DEF JsonEnds
  <2> QED
    BY <2>1, <2>2, <2>3, <2>4, Zenon
<1>8. \A i \in JsonEnds(w) : v[i] = w[i]
  BY <1>3 DEF JsonEnds
<1>9. JsonEnds(v) = JsonEnds(w)
  BY <1>7, Zenon
<1> QED
  BY <1>1, <1>3, <1>5, <1>6, <1>8, <1>9, Zenon DEF v

(* Nothing is lost on its way: what was kept and what was in the pipe.      *)
LEMMA EventsKeeps ==
    ASSUME LogBase, G!TellEvents
    PROVE  LogBase'
<1>1. /\ stage \in {"run", "ending"} /\ queue # <<>> /\ turn <= Len(G!Sinks) /\ G!Sinks[turn] = "Events"
      /\ pipe' = pipe \o G!Line("json", queue[1]) /\ turn' = turn + 1
      /\ UNCHANGED <<opt, stage, journal, thrown, passed, queue, hooks, reader>>
  BY DEF G!TellEvents, G!Telling, G!Told, G!runVars
<1>2. /\ opt \in [quiet : BOOLEAN, logs : BOOLEAN, events : BOOLEAN] /\ Len(G!Sinks) \in Nat
      /\ queue \in Seq(Hook) /\ turn \in Nat \ {0} /\ pipe \in Seq(Piece) /\ reader.partial \in Seq(Piece)
      /\ Wire \in Seq(Piece) /\ Len(hooks) \in Nat /\ Len(queue) \in Nat /\ DOMAIN queue = 1..Len(queue)
      /\ Len(queue) <= Len(hooks) /\ (queue = <<>> <=> Len(queue) = 0)
  BY BaseParts
<1>3. turn \in 1..Len(G!Sinks)
  BY <1>1, <1>2
<1>4. opt.events /\ turn = Len(G!Sinks)
  BY <1>1, <1>2, <1>3, EventsLast
<1>5. 1 \in 1..Len(queue)
  BY <1>1, <1>2
<1> DEFINE h == queue[1]
<1>6. h \in Hook
  BY <1>2, <1>5, ElementOfSeq
<1>7. InPairs(Wire) /\ WholeLines(Wire)
  BY <1>1 DEF LogBase, WireIsRest
<1> DEFINE v == Wire \o G!Line("json", h)
           J == JsonEnds(Wire)
           x == Len(Wire) + 2
<1>8. /\ v \in Seq(Piece) /\ InPairs(v) /\ WholeLines(v)
      /\ JsonEnds(v) = IF G!Parses(h) THEN J \cup {x} ELSE J
      /\ v[x].of = h /\ \A i \in J : v[i] = Wire[i] /\ i < x
  BY <1>2, <1>6, <1>7, WrittenLine
<1>9. G!Line("json", h) \in Seq(Piece)
  BY <1>6, LineTyped
<1>10. Wire' = v
  <2> DEFINE l == G!Line("json", h)
  <2> HIDE DEF l
  <2>1. (reader.partial \o pipe) \o l = reader.partial \o (pipe \o l)
    BY <1>2, <1>9, InARow, Zenon DEF l
  <2>2. Wire' = reader.partial \o (pipe \o l)
    BY <1>1, Zenon DEF Wire, l
  <2> QED
    BY <2>1, <2>2, Zenon DEF Wire, l
<1>11. pipe' \in Seq(Piece)
  BY <1>1, <1>2, <1>9, ConcatProperties
<1>12. /\ J \in SUBSET Nat /\ IsFiniteSet(J) /\ x \in Nat
  BY <1>2, JsonPlaces
<1> HIDE DEF v, J, x, h
<1>13. /\ Cardinality(J) \in Nat /\ Cardinality(J \cup {x}) = Cardinality(J) + 1 /\ Rank(J \cup {x}, x) = Cardinality(J) + 1
       /\ \A s \in J : Rank(J \cup {x}, s) = Rank(J, s)
  <2>1. \A s \in J : s < x
    BY <1>8
  <2> QED
    BY <1>12, <2>1, RankAdd
<1>14. G!Sinks' = G!Sinks
  BY <1>1, SinksStay
<1>15. /\ ToldTo(Len(G!Sinks)) = Len(hooks) - Len(queue)
       /\ ToldTo(Len(G!Sinks))' = Len(hooks) - Len(queue) + 1
  <2>1. ~(turn > Len(G!Sinks)) /\ turn + 1 > Len(G!Sinks)
    BY <1>2, <1>4
  <2> QED
    BY <2>1, <1>1, <1>2, <1>14 DEF ToldTo
<1> DEFINE R == Readable(hooks)
           n == Len(hooks) - Len(queue)
<1>16. /\ Len(reader.events) \in Nat /\ Len(reader.events) + Cardinality(J) = Rank(R, n)
       /\ n \in Nat /\ n + 1 \in DOMAIN hooks /\ hooks[n + 1] = h
  <2>1. Len(reader.events) + Cardinality(J) = Rank(R, n)
    BY <1>4, <1>15 DEF LogBase, WireIsRest, SaidTo, J
  <2>2. queue[1] = hooks[n + 1]
    BY <1>2, <1>5 DEF LogBase, QueueIsRest
  <2>3. n \in Nat /\ n + 1 \in 1..Len(hooks)
    BY <1>2, <1>5
  <2> QED
    BY <2>1, <2>2, <2>3, BaseParts, WirePlaces DEF h
<1> HIDE DEF n, R
<1>17. /\ SaidTo' = Rank(R, n + 1) /\ Said' = Said
       /\ G!Parses(h) => Rank(R, n + 1) = Rank(R, n) + 1 /\ Said[Rank(R, n + 1)] = h
       /\ ~G!Parses(h) => Rank(R, n + 1) = Rank(R, n)
  <2>1. R \in SUBSET Nat /\ IsFiniteSet(R) /\ (n + 1 \in R <=> G!Parses(h))
    BY <1>16, SaidPlaces, BaseParts DEF R, Readable
  <2>2. SaidTo' = Rank(R, n + 1) /\ Said' = Said
    BY <1>1, <1>15 DEF SaidTo, Said, R, n
  <2>3. G!Parses(h) => Said[Rank(R, n + 1)] = h
    BY <2>1, <1>16, SaidPlaces, BaseParts DEF R
  <2> QED
    BY <2>1, <2>2, <2>3, <1>16, RankNext
<1>18. LogTyped'
  <2>1. turn' \in Nat \ {0} /\ turn' <= Len(G!Sinks) + 1
    BY <1>1, <1>2
  <2> QED
    BY <2>1, <1>1, <1>11, <1>14 DEF LogBase, LogTyped
<1>19. QueueIsRest'
  BY <1>1 DEF LogBase, QueueIsRest
<1>20. WireIsRest'
  <2>1. InPairs(v) /\ (stage # "dead" => WholeLines(v))
    BY <1>8
  <2>0. G!Parses(h) => Len(reader.events) + (Cardinality(J) + 1) = Rank(R, n + 1)
    <3>1. \A e, c \in Nat : e + (c + 1) = (e + c) + 1
      OBVIOUS
    <3> QED
      BY <3>1, <1>13, <1>16, <1>17
  <2>2. Len(reader.events) + Cardinality(JsonEnds(v)) = SaidTo'
    BY <2>0, <1>8, <1>13, <1>16, <1>17, Zenon
  <2>3. ASSUME NEW j \in JsonEnds(v) PROVE v[j].of = Said[Len(reader.events) + Rank(JsonEnds(v), j)]
    <3>1. CASE j \in J
      <4>1. Rank(JsonEnds(v), j) = Rank(J, j)
        BY <3>1, <1>8, <1>13
      <4> QED
        BY <4>1, <3>1, <1>8 DEF LogBase, WireIsRest, J
    <3>2. CASE j = x /\ G!Parses(h)
      BY <2>0, <3>2, <1>8, <1>13, <1>17, Zenon
    <3> QED
      BY <3>1, <3>2, <1>8
  <2>4. (\A i \in DOMAIN reader.events : reader.events[i] = Said[i]) /\ Len(reader.events) <= Len(Said)
    BY DEF LogBase, WireIsRest
  <2> QED
    BY <1>1, <1>4, <1>10, <1>14, <1>17, <2>1, <2>2, <2>3, <2>4 DEF WireIsRest
<1> QED
  BY <1>18, <1>19, <1>20 DEF LogBase

(* A line a script prints is no hook.                                       *)
LEMMA PrintsKeeps ==
    ASSUME LogBase, G!ScriptPrints
    PROVE  LogBase'
<1>1. /\ stage = "run" /\ opt.events /\ pipe' = pipe \o G!Line("text", G!Plain)
      /\ UNCHANGED <<opt, stage, journal, thrown, passed, queue, turn, hooks, reader>>
  BY DEF G!ScriptPrints, G!Ready, G!runVars
<1>2. pipe \in Seq(Piece) /\ reader.partial \in Seq(Piece) /\ Wire \in Seq(Piece)
  BY BaseParts
<1>3. G!Plain \in Hook
  BY HooksTyped
<1>4. InPairs(Wire) /\ WholeLines(Wire)
  BY <1>1 DEF LogBase, WireIsRest
<1> DEFINE l == G!Line("text", G!Plain)
           v == Wire \o l
           J == JsonEnds(Wire)
<1>5. v \in Seq(Piece) /\ InPairs(v) /\ WholeLines(v) /\ JsonEnds(v) = J /\ \A i \in J : v[i] = Wire[i]
  BY <1>2, <1>3, <1>4, WrittenLine
<1>6. l \in Seq(Piece)
  BY <1>3, LineTyped
<1> HIDE DEF l
<1>7. Wire' = v
  <2>1. (reader.partial \o pipe) \o l = reader.partial \o (pipe \o l)
    BY <1>2, <1>6, InARow, Zenon
  <2>2. Wire' = reader.partial \o (pipe \o l)
    BY <1>1, Zenon DEF Wire, l
  <2> QED
    BY <2>1, <2>2, Zenon DEF Wire
<1>8. pipe' \in Seq(Piece)
  BY <1>1, <1>2, <1>6, ConcatProperties DEF l
<1> HIDE DEF v
<1>9. G!Sinks' = G!Sinks
  BY <1>1, SinksStay
<1>10. Said' = Said /\ (opt.events => SaidTo' = SaidTo)
  BY <1>1, <1>9, SaidSame DEF ToldTo
<1>11. LogTyped'
  BY <1>1, <1>8, <1>9 DEF LogBase, LogTyped
<1>12. QueueIsRest'
  BY <1>1 DEF LogBase, QueueIsRest
<1>13. WireIsRest'
  <2>1. WireIsRest
    BY DEF LogBase
  <2>2. \A j \in J : v[j].of = Said[Len(reader.events) + Rank(J, j)]
    BY <2>1, <1>5 DEF WireIsRest
  <2>3. opt.events => Len(reader.events) + Cardinality(J) = SaidTo'
    BY <2>1, <1>10 DEF WireIsRest
  <2> HIDE DEF J
  <2>4. (\A i \in DOMAIN reader.events : reader.events[i] = Said[i]) /\ Len(reader.events) <= Len(Said)
    BY <2>1 DEF WireIsRest
  <2> QED
    BY <2>2, <2>3, <2>4, <1>1, <1>10, <1>5, <1>7, <1>9 DEF WireIsRest
<1> QED
  BY <1>11, <1>12, <1>13 DEF LogBase

(* Killed in the middle of a line, nothing comes after it.                  *)
LEMMA KillKeeps ==
    ASSUME LogBase, G!Kill
    PROVE  LogBase'
<1>1. /\ stage \in {"open", "run", "ending"} /\ stage' = "dead"
      /\ UNCHANGED <<opt, journal, thrown, passed, queue, turn, hooks, reader>>
  BY DEF G!Kill
<1>2. /\ opt \in [quiet : BOOLEAN, logs : BOOLEAN, events : BOOLEAN] /\ Len(G!Sinks) \in Nat
      /\ queue \in Seq(Hook) /\ turn \in Nat \ {0} /\ pipe \in Seq(Piece) /\ reader.partial \in Seq(Piece)
      /\ Wire \in Seq(Piece) /\ Len(queue) \in Nat /\ (queue = <<>> <=> Len(queue) = 0)
      /\ journal \in Journals /\ thrown \in BOOLEAN /\ passed \in BOOLEAN
  BY BaseParts, TypedParts DEF LogBase
<1>3. CASE pipe' = pipe
  <2>1. Still
    BY <1>1, <1>3 DEF Still
  <2>2. StageMoves
    BY <1>1 DEF StageMoves
  <2>3. journal' \in Journals /\ thrown' \in BOOLEAN /\ passed' \in BOOLEAN
    BY <1>1, <1>2
  <2> QED
    BY <2>1, <2>2, <2>3, StillKeeps
<1>4. CASE G!Telling /\ G!Sinks[turn] = "Events" /\ pipe' = pipe \o SubSeq(G!Line("json", G!Told), 1, 1)
  <2>1. queue # <<>> /\ turn <= Len(G!Sinks)
    BY <1>4 DEF G!Telling
  <2>2. turn \in 1..Len(G!Sinks) /\ 1 \in 1..Len(queue)
    BY <1>2, <2>1
  <2>3. opt.events
    BY <1>2, <1>4, <2>2, EventsLast
  <2> DEFINE h == queue[1]
  <2>4. h \in Hook
    BY <1>2, <2>2, ElementOfSeq
  <2>5. InPairs(Wire) /\ WholeLines(Wire)
    BY <1>1 DEF LogBase, WireIsRest
  <2> DEFINE l == SubSeq(G!Line("json", h), 1, 1)
             v == Wire \o l
             J == JsonEnds(Wire)
  <2>6. v \in Seq(Piece) /\ InPairs(v) /\ JsonEnds(v) = J /\ \A i \in J : v[i] = Wire[i]
    BY <1>2, <2>4, <2>5, WrittenHalf
  <2>7. l \in Seq(Piece)
    <3> DEFINE half == [text |-> "json", of |-> h, newline |-> FALSE]
    <3>1. l = <<half>> /\ <<half>> \in Seq(Piece)
      BY <2>4, LineTyped
    <3> HIDE DEF half, l
    <3> QED
      BY <3>1
  <2>8. pipe' = pipe \o l
    BY <1>4 DEF G!Told
  <2> HIDE DEF l
  <2>9. Wire' = v
    <3>1. (reader.partial \o pipe) \o l = reader.partial \o (pipe \o l)
      BY <1>2, <2>7, InARow, Zenon
    <3>2. Wire' = reader.partial \o (pipe \o l)
      BY <1>1, <2>8, Zenon DEF Wire
    <3> QED
      BY <3>1, <3>2, Zenon DEF Wire
  <2>10. pipe' \in Seq(Piece)
    BY <2>8, <1>2, <2>7, ConcatProperties
  <2> HIDE DEF v
  <2>11. G!Sinks' = G!Sinks
    BY <1>1, SinksStay
  <2>12. Said' = Said /\ (opt.events => SaidTo' = SaidTo)
    BY <1>1, <2>11, SaidSame DEF ToldTo
  <2>13. LogTyped'
    BY <1>1, <2>10, <2>11 DEF LogBase, LogTyped
  <2>14. QueueIsRest'
    BY <1>1 DEF LogBase, QueueIsRest
  <2>15. WireIsRest'
    BY <1>1, <2>3, <2>6, <2>9, <2>11, <2>12 DEF LogBase, WireIsRest
  <2> QED
    BY <2>13, <2>14, <2>15 DEF LogBase
<1> QED
  BY <1>3, <1>4 DEF G!Kill

(* A cut in the second of two, at the sum.                                  *)
LEMMA CutOfTwo ==
    ASSUME NEW a \in Seq(Piece), NEW b \in Seq(Piece), NEW n \in 1..Len(b)
    PROVE  LET m == Len(a) + n IN
           /\ SubSeq(a \o b, 1, m) = a \o SubSeq(b, 1, n)
           /\ SubSeq(a \o b, m + 1, Len(a \o b)) = SubSeq(b, n + 1, Len(b))
<1> DEFINE w == a \o b
           p == Len(a)
           q == Len(b)
           m == p + n
<1>1. /\ w \in Seq(Piece) /\ Len(w) = p + q
      /\ \A i \in 1..(p + q) : w[i] = IF i <= p THEN a[i] ELSE b[i - p]
  BY ConcatProperties
<1>2. p \in Nat /\ q \in Nat /\ n \in Nat /\ n <= q /\ m \in Nat /\ m <= p + q /\ n >= 1
  BY LenProperties
<1> HIDE DEF w, m
<1>3. SubSeq(w, 1, m) = a \o SubSeq(b, 1, n)
  <2> DEFINE x == SubSeq(w, 1, m)
             y == SubSeq(b, 1, n)
             z == a \o y
  <2>1. x \in Seq(Piece) /\ Len(x) = m - 1 + 1 /\ \A i \in 1..(m - 1 + 1) : x[i] = w[1 + i - 1]
    BY <1>1, <1>2, PartOf
  <2>2. y \in Seq(Piece) /\ Len(y) = n - 1 + 1 /\ \A i \in 1..(n - 1 + 1) : y[i] = b[1 + i - 1]
    BY <1>2, PartOf
  <2> HIDE DEF x, y
  <2>3. Len(x) = m /\ \A i \in 1..m : x[i] = w[i]
    <3>1. m - 1 + 1 = m /\ \A i \in 1..m : 1 + i - 1 = i
      BY <1>2
    <3> QED
      BY <2>1, <3>1
  <2>4. Len(y) = n /\ \A i \in 1..n : y[i] = b[i]
    <3>1. n - 1 + 1 = n /\ \A i \in 1..n : 1 + i - 1 = i
      BY <1>2
    <3> QED
      BY <2>2, <3>1
  <2>5. /\ z \in Seq(Piece) /\ Len(z) = p + Len(y)
        /\ \A i \in 1..(p + Len(y)) : z[i] = IF i <= p THEN a[i] ELSE y[i - p]
    BY <2>2, ConcatProperties
  <2> HIDE DEF z
  <2>6. Len(z) = m
    BY <2>4, <2>5 DEF m
  <2>7. ASSUME NEW i \in 1..m PROVE x[i] = z[i]
    <3>1. i \in 1..(p + q) /\ i \in 1..(p + Len(y)) /\ i \in Nat
      BY <1>2, <2>4 DEF m
    <3>2. CASE i <= p
      BY <3>1, <3>2, <1>1, <2>3, <2>5
    <3>3. CASE ~(i <= p)
      <4>1. i - p \in 1..n
        BY <3>3, <1>2 DEF m
      <4> QED
        BY <4>1, <3>1, <3>3, <1>1, <2>3, <2>4, <2>5
    <3> QED
      BY <3>2, <3>3
  <2>8. x = z
    BY <2>1, <2>3, <2>5, <2>6, <2>7, SeqEqual
  <2> QED
    BY <2>8 DEF x, y, z
<1>4. SubSeq(w, m + 1, Len(w)) = SubSeq(b, n + 1, Len(b))
  <2> DEFINE x == SubSeq(w, m + 1, Len(w))
             y == SubSeq(b, n + 1, Len(b))
  <2>1. m \in 0..Len(w) /\ n \in 0..Len(b)
    BY <1>1, <1>2
  <2>2. x \in Seq(Piece) /\ Len(x) = Len(w) - m /\ \A i \in 1..(Len(w) - m) : i + m \in 1..Len(w) /\ x[i] = w[i + m]
    BY <1>1, <2>1, DropOf
  <2>3. y \in Seq(Piece) /\ Len(y) = Len(b) - n /\ \A i \in 1..(Len(b) - n) : i + n \in 1..Len(b) /\ y[i] = b[i + n]
    BY <2>1, DropOf
  <2> HIDE DEF x, y
  <2>4. Len(x) = q - n /\ Len(y) = q - n
    BY <1>1, <1>2, <2>2, <2>3 DEF m
  <2>5. ASSUME NEW i \in 1..(q - n) PROVE x[i] = y[i]
    <3>1. /\ i \in Nat /\ i \in 1..(Len(w) - m) /\ i + m \in 1..(p + q) /\ ~(i + m <= p) /\ (i + m) - p = i + n
      BY <1>1, <1>2 DEF m
    <3> QED
      BY <3>1, <1>1, <2>2, <2>3
  <2>6. x = y
    BY <2>2, <2>3, <2>4, <2>5, SeqEqual
  <2> QED
    BY <2>6 DEF x, y
<1> QED
  BY <1>3, <1>4 DEF w, m

(* What is read goes from the pipe to the page, or is kept.                 *)
LEMMA ReadKeeps ==
    ASSUME LogBase, G!Read
    PROVE  LogBase'
<1>1. /\ opt.events /\ pipe # <<>>
      /\ UNCHANGED <<opt, stage, journal, thrown, passed, queue, turn, hooks>>
  BY DEF G!Read, G!runVars
<1>2. PICK n \in 1..Len(pipe) :
        /\ reader' = G!Taken(reader.partial \o SubSeq(pipe, 1, n), reader.events)
        /\ pipe' = SubSeq(pipe, n + 1, Len(pipe))
  BY DEF G!Read, G!Consume
<1>3. /\ opt \in [quiet : BOOLEAN, logs : BOOLEAN, events : BOOLEAN]
      /\ pipe \in Seq(Piece) /\ reader.partial \in Seq(Piece) /\ reader.events \in Seq(Hook) /\ Wire \in Seq(Piece)
      /\ Len(hooks) \in Nat
  BY BaseParts
<1> DEFINE p == Len(reader.partial)
           m == p + n
           t == G!Taken(SubSeq(Wire, 1, m), reader.events)
           v == t.partial \o SubSeq(Wire, m + 1, Len(Wire))
           J == JsonEnds(Wire)
<1>4. /\ p \in Nat /\ Len(pipe) \in Nat /\ Len(Wire) = p + Len(pipe) /\ n \in Nat
      /\ m \in 0..Len(Wire)
  <2>1. p \in Nat /\ Len(pipe) \in Nat
    BY <1>3, LenProperties
  <2>2. Len(Wire) = p + Len(pipe)
    BY <1>3, ConcatProperties DEF Wire
  <2> QED
    BY <2>1, <2>2
<1>5. SubSeq(Wire, 1, m) = reader.partial \o SubSeq(pipe, 1, n) /\ SubSeq(Wire, m + 1, Len(Wire)) = SubSeq(pipe, n + 1, Len(pipe))
  BY <1>3, <1>4, CutOfTwo DEF Wire
<1>6. /\ t \in [partial : Seq(Piece), events : Seq(Hook)]
      /\ v \in Seq(Piece) /\ InPairs(v) /\ (WholeLines(Wire) => WholeLines(v))
      /\ Len(t.events) = Len(reader.events) + Rank(J, m) /\ Rank(J, m) \in Nat
      /\ Cardinality(J) = Rank(J, m) + Cardinality(JsonEnds(v))
      /\ \A j \in JsonEnds(v) : \E k \in J :
           v[j].of = Wire[k].of /\ Rank(J, k) = Rank(J, m) + Rank(JsonEnds(v), j)
      /\ \A i \in DOMAIN t.events :
           \/ i \in DOMAIN reader.events /\ t.events[i] = reader.events[i]
           \/ \E k \in J : t.events[i] = Wire[k].of /\ i = Len(reader.events) + Rank(J, k)
  <2>1. InPairs(Wire)
    BY DEF LogBase, WireIsRest
  <2> HIDE DEF p, m
  <2>2. Takes(Wire, m, reader.events, t, v)
    BY <2>1, <1>3, <1>4, TakenPieces, Zenon
  <2> QED
    BY <2>2, Zenon DEF Takes
<1>7. reader' = t
  BY <1>2, <1>5, Zenon
<1> HIDE DEF t
<1>8. Wire' = v
  BY <1>2, <1>5, <1>7, Zenon DEF Wire
<1>9. pipe' \in Seq(Piece)
  BY <1>2, <1>3, <1>4, DropOf
<1> HIDE DEF v, m, J
<1>10. G!Sinks' = G!Sinks
  BY <1>1, SinksStay
<1>11. Said' = Said /\ (opt.events => SaidTo' = SaidTo)
  BY <1>1, <1>10, SaidSame DEF ToldTo
<1>12. LogTyped'
  BY <1>1, <1>6, <1>7, <1>9, <1>10 DEF LogBase, LogTyped
<1>13. QueueIsRest'
  BY <1>1 DEF LogBase, QueueIsRest
<1>14. /\ Len(reader.events) \in Nat /\ DOMAIN reader.events = 1..Len(reader.events)
       /\ \A j \in J : Rank(J, j) \in Nat /\ Len(reader.events) + Rank(J, j) \in 1..Len(Said)
  BY WirePlaces DEF J
<1>15. J \in SUBSET Nat /\ IsFiniteSet(J) /\ Cardinality(J) \in Nat
  BY <1>3, JsonPlaces DEF J
<1>16. JsonEnds(v) \in SUBSET Nat /\ IsFiniteSet(JsonEnds(v)) /\ Cardinality(JsonEnds(v)) \in Nat
  BY <1>6, JsonPlaces
<1>17. /\ \A j \in J : Wire[j].of = Said[Len(reader.events) + Rank(J, j)]
       /\ \A i \in DOMAIN reader.events : reader.events[i] = Said[i]
       /\ Len(reader.events) + Cardinality(J) = SaidTo
  BY <1>1 DEF LogBase, WireIsRest, J
<1>18. SaidTo \in Nat /\ SaidTo <= Len(Said) /\ Len(Said) \in Nat
  BY ToldIsSaid
<1>19. WireIsRest'
  <2>1. InPairs(v) /\ (stage # "dead" => WholeLines(v))
    BY <1>6 DEF LogBase, WireIsRest
  <2>2. Len(t.events) + Cardinality(JsonEnds(v)) = SaidTo
    <3>1. \A e, r, c : e \in Nat /\ r \in Nat /\ c \in Nat => (e + r) + c = e + (r + c)
      OBVIOUS
    <3>2. Len(t.events) + Cardinality(JsonEnds(v)) = Len(reader.events) + Cardinality(J)
      BY <3>1, <1>6, <1>14, <1>16
    <3> QED
      BY <3>2, <1>17
  <2>3. ASSUME NEW j \in JsonEnds(v) PROVE v[j].of = Said[Len(t.events) + Rank(JsonEnds(v), j)]
    <3>1. PICK k \in J : v[j].of = Wire[k].of /\ Rank(J, k) = Rank(J, m) + Rank(JsonEnds(v), j)
      BY <1>6
    <3>2. Rank(JsonEnds(v), j) \in Nat
      BY <1>16, RankOrder
    <3>3. \A e, r, c \in Nat : (e + r) + c = e + (r + c)
      OBVIOUS
    <3>4. Len(t.events) + Rank(JsonEnds(v), j) = Len(reader.events) + Rank(J, k)
      BY <3>1, <3>2, <3>3, <1>6, <1>14
    <3> QED
      BY <3>1, <3>4, <1>17
  <2>4. ASSUME NEW i \in DOMAIN t.events PROVE t.events[i] = Said[i]
    BY <1>6, <1>17
  <2>5. Len(t.events) <= Len(Said)
    <3>1. \A e, c, d, h \in Nat : e + c = d /\ d <= h => e <= h
      OBVIOUS
    <3>2. Len(t.events) \in Nat
      BY <1>6, <1>14
    <3> QED
      BY <3>1, <3>2, <2>2, <1>16, <1>18
  <2> QED
    BY <2>1, <2>2, <2>3, <2>4, <2>5, <1>1, <1>7, <1>8, <1>10, <1>11 DEF WireIsRest
<1> QED
  BY <1>12, <1>13, <1>19 DEF LogBase

-----------------------------------------------------------------------------
(* The runs of RunLogs.                                                     *)

LEMMA LogInit ==
    ASSUME G!Init
    PROVE  LogBase
<1>1. /\ opt \in [quiet : BOOLEAN, logs : BOOLEAN, events : BOOLEAN]
      /\ stage = "starting" /\ thrown = FALSE /\ passed = TRUE
      /\ journal = [group |-> NoGroup, test |-> NoTest, phase |-> NoPhase,
                    open |-> FALSE, checks |-> 0, failures |-> 0, next |-> 0]
      /\ queue = <<>> /\ turn = 1 /\ hooks = <<>>
      /\ pipe = <<>> /\ reader = [partial |-> <<>>, events |-> <<>>]
  BY DEF G!Init
<1>2. Len(G!Sinks) \in Nat
  BY <1>1, EventsLast
<1>3. <<>> \in Seq(Hook) /\ <<>> \in Seq(Piece) /\ Len(<<>>) = 0 /\ DOMAIN <<>> = {}
  OBVIOUS
<1>4. journal \in Journals
  BY <1>1 DEF Journals
<1>5. LogTyped
  <2>1. turn \in Nat \ {0} /\ turn <= Len(G!Sinks) + 1
    BY <1>1, <1>2
  <2>2. reader \in [partial : Seq(Piece), events : Seq(Hook)]
    BY <1>1, <1>3
  <2> QED
    BY <2>1, <2>2, <1>1, <1>3, <1>4 DEF LogTyped
<1>6. QueueIsRest
  BY <1>1, <1>3 DEF QueueIsRest
<1>7. WireIsRest
  <2>1. Wire = <<>>
    <3>1. reader.partial = <<>>
      BY <1>1
    <3> QED
      BY <3>1, <1>1, <1>3, ConcatEmptySeq DEF Wire
  <2>2. JsonEnds(Wire) = {} /\ Cardinality({}) = 0
    BY <2>1, <1>3, FS_EmptySet DEF JsonEnds
  <2>3. reader.events = <<>>
    BY <1>1
  <2>4. SaidTo = 0 /\ Len(Said) = 0
    <3>1. Readable(hooks) = {}
      BY <1>1, <1>3 DEF Readable
    <3>2. Len(Said) = 0
      BY <3>1, <1>1, <1>3, <2>2, SaidPlaces
    <3>3. \A k : Rank({}, k) = 0
      BY <2>2 DEF Rank
    <3> QED
      BY <3>1, <3>2, <3>3 DEF SaidTo
  <2>5. InPairs(Wire) /\ WholeLines(Wire)
    BY <2>1, <1>3 DEF InPairs, WholeLines
  <2>6. JsonEnds(Wire) = {} /\ Cardinality(JsonEnds(Wire)) = 0 /\ Len(reader.events) = 0
    BY <2>2, <2>3, <1>3
  <2>7. \A i \in DOMAIN reader.events : FALSE
    BY <2>3, <1>3
  <2>8. Len(reader.events) + Cardinality(JsonEnds(Wire)) = SaidTo /\ Len(reader.events) <= Len(Said)
    BY <2>4, <2>6
  <2> QED
    BY <2>1, <2>3, <2>5, <2>6, <2>7, <2>8, Zenon DEF WireIsRest
<1> QED
  BY <1>5, <1>6, <1>7 DEF LogBase

LEMMA LogStep ==
    ASSUME LogBase, G!Next
    PROVE  LogBase'
<1>1. LogTyped /\ QueueIsRest /\ journal \in Journals /\ thrown \in BOOLEAN /\ passed \in BOOLEAN
  BY TypedParts DEF LogBase
<1>2. CASE G!OpenLogs \/ G!RefuseReadings \/ G!Exit \/ G!SarifThrows \/ G!Over
  <2>1. Still /\ journal' = journal /\ thrown' = thrown /\ passed' = passed
    BY <1>2 DEF Still, G!OpenLogs, G!RefuseReadings, G!Exit, G!SarifThrows, G!Over, G!vars
  <2>2. StageMoves
    <3>1. stage \in {"starting", "open", "run", "ending", "exited", "dead"}
      BY <1>1 DEF LogTyped
    <3>2. CASE G!OpenLogs
      BY <3>2 DEF G!OpenLogs, StageMoves
    <3>3. CASE G!RefuseReadings \/ G!Exit
      BY <3>3 DEF G!RefuseReadings, G!Exit, G!Destroy, StageMoves
    <3>4. CASE G!SarifThrows
      BY <3>4 DEF G!SarifThrows, StageMoves
    <3>5. CASE G!Over
      BY <3>1, <3>5 DEF G!Over, G!vars, StageMoves
    <3> QED
      BY <1>2, <3>2, <3>3, <3>4, <3>5
  <2> QED
    BY <1>1, <2>1, <2>2, StillKeeps
<1>3. CASE G!Throw /\ journal.phase # "setup"
  <2>1. Still /\ journal' = journal /\ thrown' \in BOOLEAN /\ passed' \in BOOLEAN /\ stage' = stage
    BY <1>3 DEF Still, G!Throw, G!sinkVars
  <2>2. StageMoves
    BY <2>1 DEF LogBase, LogTyped, StageMoves
  <2> QED
    BY <1>1, <2>1, <2>2, StillKeeps
<1>4. CASE \/ G!Begin \/ \E g \in Groups : G!BeginGroup(g)
           \/ G!EndGroup \/ \E t \in LogTests : G!BeginTest(t)
           \/ G!EndTest \/ G!BeginPhase \/ G!EndPhase
           \/ \E r \in G!Postable : G!Post(r)
           \/ (G!Throw /\ journal.phase = "setup") \/ G!End
  <2>1. /\ journal' \in Journals /\ thrown' \in BOOLEAN /\ passed' \in BOOLEAN
        /\ \E new : Appends(new)
        /\ stage \notin {"starting", "dead", "exited"} /\ stage' \in {"run", "ending"}
    BY <1>1, <1>4, JournalMoves
  <2>2. PICK new : Appends(new)
    BY <2>1
  <2> QED
    BY <2>1, <2>2, AppendKeeps
<1>5. CASE G!TellConsole \/ G!TellSarif \/ G!TellRtf
  <2>1. /\ G!Telling /\ G!Sinks[turn] # "Events" /\ turn' = turn + 1
        /\ UNCHANGED <<opt, stage, journal, thrown, passed, queue, hooks, pipe, reader>>
    BY <1>5 DEF G!TellConsole, G!TellSarif, G!TellRtf, G!runVars, G!sinkVars
  <2> QED
    BY <2>1, TellKeeps
<1>6. CASE G!TellEvents
  BY <1>6, EventsKeeps
<1>7. CASE G!ScriptPrints
  BY <1>7, PrintsKeeps
<1>8. CASE G!HookDone
  BY <1>8, DoneKeeps
<1>9. CASE G!Kill
  BY <1>9, KillKeeps
<1>10. CASE G!Read
  BY <1>10, ReadKeeps
<1> QED
  BY <1>2, <1>3, <1>4, <1>5, <1>6, <1>7, <1>8, <1>9, <1>10 DEF G!Next

LEMMA LogStays ==
    ASSUME LogBase, UNCHANGED logVars
    PROVE  LogBase'
<1>1. Still /\ StageMoves /\ journal' = journal /\ thrown' = thrown /\ passed' = passed
  BY DEF logVars, Still, StageMoves, LogBase, LogTyped
<1>2. journal' \in Journals /\ thrown' \in BOOLEAN /\ passed' \in BOOLEAN
  BY <1>1, TypedParts DEF LogBase
<1> QED
  BY <1>1, <1>2, StillKeeps

LEMMA LogAlways == McSpec => []LogBase
<1>1. McInit => LogBase
  BY LogInit DEF McInit
<1>2. LogBase /\ [McNext]_mcVars => LogBase'
  <2> SUFFICES ASSUME LogBase, [McNext]_mcVars
               PROVE  LogBase'
    OBVIOUS
  <2>1. CASE G!Next
    BY <2>1, LogStep
  <2>2. CASE UNCHANGED logVars
    BY <2>2, LogStays
  <2> QED
    BY <2>1, <2>2 DEF McNext, mcVars, logVars
<1> QED
  BY <1>1, <1>2, PTL DEF McSpec

(* The first elements of a sequence, when another has the same.              *)
LEMMA FirstOf ==
    ASSUME NEW X, NEW s \in Seq(X), NEW t \in Seq(X), Len(t) <= Len(s), \A i \in 1..Len(t) : s[i] = t[i]
    PROVE  SubSeq(s, 1, Len(t)) = t
<1> DEFINE n == Len(t)
           r == SubSeq(s, 1, n)
<1>1. n \in Nat /\ n - 1 + 1 = n /\ \A i \in 1..n : 1 + i - 1 = i
  BY LenProperties
<1>2. r \in Seq(X) /\ Len(r) = n - 1 + 1 /\ \A i \in 1..(n - 1 + 1) : r[i] = s[1 + i - 1]
  BY <1>1, PartOf
<1> HIDE DEF r
<1>3. Len(r) = n /\ \A i \in 1..n : r[i] = t[i]
  BY <1>1, <1>2
<1>4. r = t
  BY <1>2, <1>3, SeqEqual
<1> QED
  BY <1>4 DEF r

LEMMA SameSaid == G!Said = Said
  BY SamePlaces DEF G!Said, G!Readable, Said, Readable

LEMMA BaseIsPrefix ==
    ASSUME LogBase
    PROVE  PageIsPrefix
<1>1. /\ reader.events \in Seq(Hook) /\ Len(reader.events) \in Nat /\ DOMAIN reader.events = 1..Len(reader.events)
      /\ Said \in Seq(Hook) /\ Len(Said) \in Nat /\ Len(reader.events) <= Len(Said)
  BY BaseParts, WirePlaces, SaidPlaces, ToldIsSaid
<1>2. \A i \in 1..Len(reader.events) : Said[i] = reader.events[i]
  BY <1>1 DEF LogBase, WireIsRest
<1>3. SubSeq(Said, 1, Len(reader.events)) = reader.events
  BY <1>1, <1>2, FirstOf
<1>4. SubSeq(reader.events, 1, Len(reader.events)) = reader.events
  BY <1>1, FirstOf
<1> QED
  BY <1>1, <1>3, <1>4, SameSaid, Zenon DEF PageIsPrefix, G!PageIsPrefix, G!IsPrefix

(* What the page has of a run is what the run did, in order and with       *)
(* nothing missing that a reader can parse, however the pipe cuts it,       *)
(* wherever the run is killed and whatever a script prints: only the line   *)
(* of a NaN is dropped, which is no JSON (consume and parseEvent of         *)
(* event_stream.cpp, EventSink).                                            *)
THEOREM PagesArePrefixes == McSpec => []PageIsPrefix
  BY LogAlways, BaseIsPrefix, PTL

-----------------------------------------------------------------------------
(* What the two logs have been told.                                        *)

LEMMA LogPlaces ==
    ASSUME LogBase
    PROVE  /\ SarifAt \in Nat \ {0} /\ RtfAt \in Nat \ {0} /\ SarifAt < RtfAt
           /\ opt.logs => RtfAt <= Len(G!Sinks)
           /\ opt.logs /\ opt.events => RtfAt < Len(G!Sinks)
           /\ \A k \in 1..Len(G!Sinks) : /\ G!Sinks[k] = "Sarif" <=> opt.logs /\ k = SarifAt
                                         /\ G!Sinks[k] = "Rtf" <=> opt.logs /\ k = RtfAt
<1> DEFINE c == IF opt.quiet THEN 0 ELSE 1
           l == IF opt.logs THEN 2 ELSE 0
           e == IF opt.events THEN 1 ELSE 0
<1>1. opt \in [quiet : BOOLEAN, logs : BOOLEAN, events : BOOLEAN]
  BY BaseParts
<1>2. /\ Len(G!Sinks) = c + l + e
      /\ \A k \in 1..Len(G!Sinks) :
           G!Sinks[k] = IF k <= c THEN "Console"
                        ELSE IF k <= c + l THEN (IF k = c + 1 THEN "Sarif" ELSE "Rtf") ELSE "Events"
  BY <1>1, SinksAre
<1>3. /\ c \in Nat /\ e \in Nat /\ (opt.logs => l = 2) /\ (~opt.logs => l = 0) /\ (opt.events => e = 1)
      /\ opt.logs \in BOOLEAN
  BY <1>1
<1>4. SarifAt = c + 1 /\ RtfAt = c + 2
  BY DEF SarifAt, RtfAt
<1> HIDE DEF c, l, e
<1>5. SarifAt \in Nat \ {0} /\ RtfAt \in Nat \ {0} /\ SarifAt < RtfAt
  BY <1>3, <1>4
<1>6. (opt.logs => RtfAt <= Len(G!Sinks)) /\ (opt.logs /\ opt.events => RtfAt < Len(G!Sinks))
  BY <1>2, <1>3, <1>4
<1>7. ASSUME NEW k \in 1..Len(G!Sinks)
      PROVE  /\ G!Sinks[k] = "Sarif" <=> opt.logs /\ k = SarifAt
             /\ G!Sinks[k] = "Rtf" <=> opt.logs /\ k = RtfAt
  <2>1. k \in Nat
    BY <1>2, <1>3
  <2>2. CASE opt.logs
    <3>1. k <= c + 2 /\ ~(k <= c) <=> k = c + 1 \/ k = c + 2
      BY <2>1, <1>3
    <3>2. c + 1 # c + 2
      BY <1>3
    <3> QED
      BY <2>2, <3>1, <3>2, <1>2, <1>3, <1>4
  <2>3. CASE ~opt.logs
    <3>1. k <= c + 0 <=> k <= c
      BY <2>1, <1>3
    <3> QED
      BY <2>3, <3>1, <1>2, <1>3
  <2> QED
    BY <2>2, <2>3, <1>3
<1> QED
  BY <1>5, <1>6, <1>7

LEMMA ToldFacts ==
    ASSUME LogBase
    PROVE  /\ Len(hooks) \in Nat /\ DOMAIN hooks = 1..Len(hooks) /\ hooks \in Seq(Hook)
           /\ SarifTold \in Nat /\ RtfTold \in Nat /\ RtfTold <= SarifTold /\ SarifTold <= Len(hooks)
           /\ opt.logs => ToldTo(Len(G!Sinks)) \in Nat /\ ToldTo(Len(G!Sinks)) <= RtfTold
           /\ Len(hooks) - Len(queue) <= RtfTold
<1>1. /\ SarifAt \in Nat \ {0} /\ RtfAt \in Nat \ {0} /\ SarifAt < RtfAt /\ Len(G!Sinks) \in Nat
      /\ opt.logs => RtfAt <= Len(G!Sinks)
  BY LogPlaces, BaseParts
<1>2. turn \in Nat
  BY BaseParts
<1>3. \A n \in Nat : /\ Len(hooks) \in Nat /\ DOMAIN hooks = 1..Len(hooks) /\ Len(queue) \in Nat
                     /\ ToldTo(n) \in Nat /\ ToldTo(n) <= Len(hooks)
                     /\ Len(hooks) - Len(queue) <= ToldTo(n)
  BY ToldIsPlace DEF LogBase
<1>4. ASSUME NEW m \in Nat, NEW n \in Nat, m <= n PROVE ToldTo(n) <= ToldTo(m)
  <2>1. turn > n => turn > m
    BY <1>2, <1>4
  <2>2. Len(hooks) \in Nat /\ Len(queue) \in Nat
    BY <1>3
  <2>3. CASE queue # <<>> /\ turn > n
    <3>1. ToldTo(n) = Len(hooks) - Len(queue) + 1 /\ ToldTo(m) = Len(hooks) - Len(queue) + 1
      BY <2>1, <2>3 DEF ToldTo
    <3> QED
      BY <3>1, <1>3, <2>2
  <2>4. CASE ~(queue # <<>> /\ turn > n)
    <3>1. ToldTo(n) = Len(hooks) - Len(queue) + 0
      BY <2>4, Zenon DEF ToldTo
    <3>2. Len(hooks) - Len(queue) + 0 = Len(hooks) - Len(queue)
      BY <2>2
    <3> QED
      BY <3>1, <3>2, <1>3
  <2> QED
    BY <2>3, <2>4
<1>5. SarifAt <= RtfAt /\ SarifAt \in Nat /\ RtfAt \in Nat
  BY <1>1
<1>6. hooks \in Seq(Hook)
  BY BaseParts
<1> QED
  BY <1>1, <1>3, <1>4, <1>5, <1>6 DEF SarifTold, RtfTold

LEMMA SameOptions ==
    ASSUME opt' = opt
    PROVE  SarifAt' = SarifAt /\ RtfAt' = RtfAt /\ G!Sinks' = G!Sinks
  BY SinksStay DEF SarifAt, RtfAt

LEMMA ToldStays ==
    ASSUME opt' = opt, queue' = queue, turn' = turn, Len(hooks') = Len(hooks)
    PROVE  LogsToldAsBefore
  BY SameOptions, Zenon DEF LogsToldAsBefore, SarifTold, RtfTold, ToldTo

LEMMA ToldByDone ==
    ASSUME LogBase, G!HookDone, opt.logs
    PROVE  LogsToldAsBefore
<1>1. /\ queue # <<>> /\ turn > Len(G!Sinks) /\ queue' = Tail(queue) /\ turn' = 1
      /\ UNCHANGED <<opt, hooks>>
  BY DEF G!HookDone, G!runVars
<1>2. /\ queue \in Seq(Hook) /\ Len(hooks) \in Nat /\ Len(queue) \in Nat /\ Len(G!Sinks) \in Nat /\ turn \in Nat
      /\ SarifAt \in Nat \ {0} /\ RtfAt \in Nat \ {0} /\ SarifAt <= Len(G!Sinks) /\ RtfAt <= Len(G!Sinks)
  BY BaseParts, LogPlaces
<1>3. Len(queue') = Len(queue) - 1
  BY <1>1, <1>2, HeadTailProperties
<1>4. SarifAt' = SarifAt /\ RtfAt' = RtfAt
  BY <1>1, SameOptions
<1>5. /\ turn > SarifAt /\ turn > RtfAt /\ ~(1 > SarifAt) /\ ~(1 > RtfAt)
      /\ Len(hooks) - (Len(queue) - 1) + 0 = Len(hooks) - Len(queue) + 1
  BY <1>1, <1>2
<1>6. SarifTold = Len(hooks) - Len(queue) + 1 /\ RtfTold = Len(hooks) - Len(queue) + 1
  BY <1>1, <1>5, Zenon DEF SarifTold, RtfTold, ToldTo
<1>7. SarifTold' = Len(hooks) - (Len(queue) - 1) + 0 /\ RtfTold' = Len(hooks) - (Len(queue) - 1) + 0
  BY <1>1, <1>3, <1>4, <1>5, Zenon DEF SarifTold, RtfTold, ToldTo
<1> QED
  BY <1>5, <1>6, <1>7, Zenon DEF LogsToldAsBefore

(* A sink that is told of a hook: the next one of the run.                  *)
LEMMA ToldOne ==
    ASSUME LogBase, G!Telling, turn' = turn + 1, UNCHANGED <<opt, queue, hooks>>
    PROVE  /\ Len(hooks) - Len(queue) + 1 \in 1..Len(hooks) /\ G!Told = hooks[Len(hooks) - Len(queue) + 1]
           /\ IF turn = SarifAt
              THEN SarifTold + 1 = Len(hooks) - Len(queue) + 1 /\ SarifTold' = SarifTold + 1 ELSE SarifTold' = SarifTold
           /\ IF turn = RtfAt
              THEN RtfTold + 1 = Len(hooks) - Len(queue) + 1 /\ RtfTold' = RtfTold + 1 ELSE RtfTold' = RtfTold
<1>1. /\ queue # <<>> /\ turn \in Nat /\ Len(hooks) \in Nat /\ Len(queue) \in Nat /\ Len(queue) <= Len(hooks) /\ Len(queue) # 0
      /\ DOMAIN queue = 1..Len(queue) /\ SarifAt \in Nat /\ RtfAt \in Nat
  BY BaseParts, LogPlaces DEF G!Telling
<1>2. Len(hooks) - Len(queue) + 1 \in 1..Len(hooks)
  BY <1>1
<1>3. G!Told = hooks[Len(hooks) - Len(queue) + 1]
  <2>1. 1 \in DOMAIN queue
    BY <1>1
  <2> QED
    BY <2>1 DEF G!Told, LogBase, QueueIsRest
<1>4. SarifAt' = SarifAt /\ RtfAt' = RtfAt
  BY SameOptions
<1>5. ASSUME NEW n \in Nat
      PROVE  LET old == Len(hooks) - Len(queue) + (IF queue # <<>> /\ turn > n THEN 1 ELSE 0)
                 new == Len(hooks) - Len(queue) + (IF queue # <<>> /\ turn + 1 > n THEN 1 ELSE 0)
             IN  IF turn = n THEN old + 1 = Len(hooks) - Len(queue) + 1 /\ new = old + 1 ELSE new = old
  BY <1>1
<1>6. /\ SarifTold = Len(hooks) - Len(queue) + (IF queue # <<>> /\ turn > SarifAt THEN 1 ELSE 0)
      /\ SarifTold' = Len(hooks) - Len(queue) + (IF queue # <<>> /\ turn + 1 > SarifAt THEN 1 ELSE 0)
  BY <1>4, Zenon DEF SarifTold, ToldTo
<1>7. /\ RtfTold = Len(hooks) - Len(queue) + (IF queue # <<>> /\ turn > RtfAt THEN 1 ELSE 0)
      /\ RtfTold' = Len(hooks) - Len(queue) + (IF queue # <<>> /\ turn + 1 > RtfAt THEN 1 ELSE 0)
  BY <1>4, Zenon DEF RtfTold, ToldTo
<1>8. /\ IF turn = SarifAt
         THEN SarifTold + 1 = Len(hooks) - Len(queue) + 1 /\ SarifTold' = SarifTold + 1 ELSE SarifTold' = SarifTold
  BY <1>1, <1>5, <1>6
<1>9. /\ IF turn = RtfAt
         THEN RtfTold + 1 = Len(hooks) - Len(queue) + 1 /\ RtfTold' = RtfTold + 1 ELSE RtfTold' = RtfTold
  BY <1>1, <1>5, <1>7
<1> QED
  BY <1>2, <1>3, <1>8, <1>9

LEMMA ToldOnAppend ==
    ASSUME LogBase, NEW new, Appends(new)
    PROVE  /\ LogsToldAsBefore /\ SarifTold = Len(hooks) /\ RtfTold = Len(hooks)
           /\ Len(new) \in Nat /\ Len(new) >= 1 /\ DOMAIN new = 1..Len(new)
           /\ Len(hooks) \in Nat /\ Len(hooks') = Len(hooks) + Len(new)
           /\ DOMAIN hooks = 1..Len(hooks) /\ DOMAIN hooks' = 1..(Len(hooks) + Len(new))
           /\ \A i \in 1..Len(hooks) : hooks'[i] = hooks[i]
           /\ \A i \in 1..Len(new) : hooks'[Len(hooks) + i] = new[i]
<1>1. /\ Len(new) \in Nat /\ Len(new) >= 1
      /\ Len(hooks) \in Nat /\ Len(hooks') = Len(hooks) + Len(new)
      /\ DOMAIN hooks = 1..Len(hooks) /\ DOMAIN hooks' = 1..(Len(hooks) + Len(new)) /\ DOMAIN new = 1..Len(new)
      /\ \A i \in 1..Len(hooks) : hooks'[i] = hooks[i]
      /\ \A i \in 1..Len(new) : hooks'[Len(hooks) + i] = new[i]
      /\ \A n \in Nat \ {0} : ToldTo(n) = Len(hooks) /\ ToldTo(n)' = Len(hooks)
  BY Appended DEF LogBase
<1>2. SarifAt \in Nat \ {0} /\ RtfAt \in Nat \ {0} /\ SarifAt' = SarifAt /\ RtfAt' = RtfAt
  BY LogPlaces, SameOptions DEF Appends
<1>3. SarifTold = Len(hooks) /\ RtfTold = Len(hooks)
  BY <1>1, <1>2 DEF SarifTold, RtfTold
<1>4. /\ SarifTold' = Len(hooks') - Len(queue') + (IF queue' # <<>> /\ turn' > SarifAt THEN 1 ELSE 0)
      /\ RtfTold' = Len(hooks') - Len(queue') + (IF queue' # <<>> /\ turn' > RtfAt THEN 1 ELSE 0)
  BY <1>2, Zenon DEF SarifTold, RtfTold, ToldTo
<1>5. ~(1 > SarifAt) /\ ~(1 > RtfAt) /\ Len(hooks) + Len(new) - Len(new) + 0 = Len(hooks)
  BY <1>1, <1>2
<1>6. SarifTold' = Len(hooks) /\ RtfTold' = Len(hooks)
  <2>1. queue' = new /\ turn' = 1
    BY DEF Appends
  <2> QED
    BY <2>1, <1>1, <1>4, <1>5
<1> QED
  BY <1>1, <1>3, <1>6 DEF LogsToldAsBefore

-----------------------------------------------------------------------------
(* Places among the hooks.                                                  *)

LEMMA ResultPlaces ==
    ASSUME NEW hs, NEW n \in Nat
    PROVE  /\ ResultsIn(hs, n) \in SUBSET Nat /\ IsFiniteSet(ResultsIn(hs, n)) /\ Cardinality(ResultsIn(hs, n)) \in Nat
           /\ \A k \in ResultsIn(hs, n) : k \in 1..n /\ k < n + 1
           /\ ResultsIn(hs, n + 1) = IF G!IsResult(hs[n + 1]) THEN ResultsIn(hs, n) \cup {n + 1} ELSE ResultsIn(hs, n)
<1>1. ResultsIn(hs, n) \subseteq 1..n
  BY Zenon DEF ResultsIn
<1>2. \A k : k \in 1..(n + 1) <=> k \in 1..n \/ k = n + 1
  OBVIOUS
<1>3. ResultsIn(hs, n + 1) = IF G!IsResult(hs[n + 1]) THEN ResultsIn(hs, n) \cup {n + 1} ELSE ResultsIn(hs, n)
  <2>1. \A k : k \in ResultsIn(hs, n + 1) <=> k \in ResultsIn(hs, n) \/ (k = n + 1 /\ G!IsResult(hs[k]))
    BY <1>2, Zenon DEF ResultsIn
  <2> QED
    BY <2>1, Zenon
<1>4. \A k \in ResultsIn(hs, n) : k \in 1..n /\ k < n + 1
  BY <1>1
<1> QED
  BY <1>1, <1>3, <1>4, SomePlaces

LEMMA LinePlaces ==
    ASSUME NEW hs, NEW n \in Nat
    PROVE  /\ LinesIn(hs, n) \in SUBSET Nat /\ IsFiniteSet(LinesIn(hs, n)) /\ Cardinality(LinesIn(hs, n)) \in Nat
           /\ \A k \in LinesIn(hs, n) : k \in 1..n /\ k < n + 1
           /\ LinesIn(hs, n + 1) = IF G!Composes(hs[n + 1]) THEN LinesIn(hs, n) \cup {n + 1} ELSE LinesIn(hs, n)
<1>1. LinesIn(hs, n) \subseteq 1..n
  BY Zenon DEF LinesIn
<1>2. \A k : k \in 1..(n + 1) <=> k \in 1..n \/ k = n + 1
  OBVIOUS
<1>3. LinesIn(hs, n + 1) = IF G!Composes(hs[n + 1]) THEN LinesIn(hs, n) \cup {n + 1} ELSE LinesIn(hs, n)
  <2>1. \A k : k \in LinesIn(hs, n + 1) <=> k \in LinesIn(hs, n) \/ (k = n + 1 /\ G!Composes(hs[k]))
    BY <1>2, Zenon DEF LinesIn
  <2> QED
    BY <2>1, Zenon
<1>4. \A k \in LinesIn(hs, n) : k \in 1..n /\ k < n + 1
  BY <1>1
<1> QED
  BY <1>1, <1>3, <1>4, SomePlaces

LEMMA PlacesStay ==
    ASSUME NEW hs, NEW ht, NEW n \in Nat, Same(hs, ht, n)
    PROVE  ResultsIn(ht, n) = ResultsIn(hs, n) /\ LinesIn(ht, n) = LinesIn(hs, n)
  BY Zenon DEF Same, ResultsIn, LinesIn

(* One more place, after the others, is one more element.                   *)
LEMMA OneMorePlace ==
    ASSUME NEW X, NEW seq \in Seq(X), NEW S \in SUBSET (DOMAIN seq), NEW x \in DOMAIN seq, \A s \in S : s < x
    PROVE  At(seq, S \cup {x}) = At(seq, S) \o <<seq[x]>>
<1> DEFINE T == S \cup {x}
           c == Cardinality(S)
<1>1. Len(seq) \in Nat /\ DOMAIN seq = 1..Len(seq) /\ x \in Nat /\ seq[x] \in X
  <2>1. Len(seq) \in Nat /\ DOMAIN seq = 1..Len(seq)
    BY LenProperties
  <2> QED
    BY <2>1, ElementOfSeq
<1>2. S \in SUBSET Nat /\ IsFiniteSet(S)
  BY <1>1, SomePlaces
<1>3. /\ IsFiniteSet(T) /\ c \in Nat /\ Cardinality(T) = c + 1 /\ Rank(T, x) = c + 1
      /\ \A s \in S : Rank(T, s) = Rank(S, s)
  BY <1>1, <1>2, RankAdd
<1>4. T \in SUBSET (DOMAIN seq)
  OBVIOUS
<1> DEFINE a == At(seq, S)
           b == At(seq, T)
<1>5. /\ a \in Seq(X) /\ Len(a) = c
      /\ \A n \in S : Rank(S, n) \in DOMAIN a /\ a[Rank(S, n)] = seq[n]
  BY AtPlaces
<1>6. /\ b \in Seq(X) /\ Len(b) = Cardinality(T)
      /\ \A n \in T : Rank(T, n) \in DOMAIN b /\ b[Rank(T, n)] = seq[n]
  BY <1>4, AtPlaces
<1>7. b[c + 1] = seq[x]
  BY <1>3, <1>6
<1>8. ASSUME NEW i \in 1..c PROVE b[i] = a[i]
  <2>1. PICK n \in S : Rank(S, n) = i
    BY <1>2, RankOnto
  <2> QED
    BY <2>1, <1>3, <1>5, <1>6
<1> HIDE DEF a, b, T, c
<1> DEFINE e == <<seq[x]>>
           d == a \o e
<1>9. e \in Seq(X) /\ Len(e) = 1 /\ e[1] = seq[x]
  BY <1>1
<1> HIDE DEF e
<1>10. /\ d \in Seq(X) /\ Len(d) = Len(a) + Len(e)
       /\ \A i \in 1..(Len(a) + Len(e)) : d[i] = IF i <= Len(a) THEN a[i] ELSE e[i - Len(a)]
  BY <1>5, <1>9, ConcatProperties
<1> HIDE DEF d
<1>11. Len(d) = c + 1 /\ \A i \in 1..(c + 1) : d[i] = IF i <= c THEN a[i] ELSE e[i - c]
  BY <1>3, <1>5, <1>9, <1>10
<1>12. ASSUME NEW i \in 1..(c + 1) PROVE b[i] = d[i]
  <2>1. CASE i \in 1..c
    <3>1. i <= c
      BY <2>1
    <3> QED
      BY <3>1, <2>1, <1>8, <1>11
  <2>2. CASE i = c + 1
    <3>1. ~(c + 1 <= c) /\ (c + 1) - c = 1
      BY <1>3
    <3> QED
      BY <3>1, <2>2, <1>7, <1>9, <1>11
  <2> QED
    BY <2>1, <2>2, <1>3
<1>13. b = d
  BY <1>3, <1>6, <1>10, <1>11, <1>12, SeqEqual
<1> QED
  BY <1>13 DEF b, d, a, e, T

LEMMA AtStays ==
    ASSUME NEW hs, NEW ht, NEW n \in Nat, Same(hs, ht, n), NEW S \in SUBSET (1..n)
    PROVE  At(ht, S) = At(hs, S)
<1>1. S \in SUBSET Nat /\ IsFiniteSet(S)
  BY SomePlaces
<1> DEFINE order == InOrder(S)
<1>2. DOMAIN order = 1..Cardinality(S) /\ \A i \in 1..Cardinality(S) : order[i] \in S
  BY <1>1, InOrderPlaces DEF InOrder
<1> HIDE DEF order
<1>3. \A i \in DOMAIN order : ht[order[i]] = hs[order[i]]
  <2>1. \A i \in DOMAIN order : order[i] \in 1..n
    BY <1>2, Zenon
  <2> QED
    BY <2>1, Zenon DEF Same
<1>4. At(hs, S) = [i \in DOMAIN order |-> hs[order[i]]] /\ At(ht, S) = [i \in DOMAIN order |-> ht[order[i]]]
  BY Zenon DEF At, order
<1> QED
  BY <1>3, <1>4, Zenon

-----------------------------------------------------------------------------
(* The story of a run, as it goes on.                                       *)

LEMMA SameWithin ==
    ASSUME NEW hs, NEW ht, NEW n \in Nat, Same(hs, ht, n), NEW a \in Nat \ {0}, NEW b \in Int, b <= n
    PROVE  /\ Checked(ht, a, b) <=> Checked(hs, a, b)
           /\ NoneFailed(ht, a, b) <=> NoneFailed(hs, a, b)
           /\ \A group, test : Within(ht, a, b, group, test) <=> Within(hs, a, b, group, test)
<1>1. \A k \in a..b : k \in 1..n
  OBVIOUS
<1>2. \A k \in a..b : ht[k] = hs[k]
  BY <1>1 DEF Same
<1> QED
  BY <1>2, Zenon DEF Checked, NoneFailed, Within

LEMMA TestsStay ==
    ASSUME NEW hs, NEW ht, NEW new, Grown(hs, ht, new), TestsHold(hs),
           NEW i \in 1..Len(hs), ht[i].hook = "testEnd"
    PROVE  \E s \in 1..(i - 1) : IsTest(ht, s, i)
<1>1. i \in Nat /\ i >= 1 /\ i <= Len(hs) /\ Len(hs) \in Nat /\ Same(hs, ht, Len(hs))
  BY DEF Grown
<1>2. ht[i] = hs[i]
  BY <1>1 DEF Same
<1>3. PICK s \in 1..(i - 1) : IsTest(hs, s, i)
  BY <1>2 DEF TestsHold
<1>4. s \in 1..Len(hs) /\ s + 1 \in Nat \ {0} /\ i - 1 \in Int /\ i - 1 <= Len(hs)
  BY <1>1
<1>5. ht[s] = hs[s]
  BY <1>1, <1>4 DEF Same
<1>6. /\ Checked(ht, s + 1, i - 1) <=> Checked(hs, s + 1, i - 1)
      /\ NoneFailed(ht, s + 1, i - 1) <=> NoneFailed(hs, s + 1, i - 1)
      /\ \A group, test : Within(ht, s + 1, i - 1, group, test) <=> Within(hs, s + 1, i - 1, group, test)
  BY <1>1, <1>4, SameWithin
<1>7. IsTest(ht, s, i)
  BY <1>2, <1>3, <1>5, <1>6, Zenon DEF IsTest
<1> QED
  BY <1>7

LEMMA NoTestEnds ==
    ASSUME NEW hs, NEW ht, NEW new, Grown(hs, ht, new), TestsHold(hs),
           \A i \in 1..Len(new) : new[i].hook # "testEnd"
    PROVE  TestsHold(ht)
<1> SUFFICES ASSUME NEW i \in 1..Len(ht), ht[i].hook = "testEnd"
             PROVE  \E s \in 1..(i - 1) : IsTest(ht, s, i)
  BY Zenon DEF TestsHold
<1>1. CASE i \in 1..Len(hs)
  BY <1>1, TestsStay
<1>2. CASE i \notin 1..Len(hs)
  <2>1. i - Len(hs) \in 1..Len(new) /\ Len(hs) + (i - Len(hs)) = i
    BY <1>2 DEF Grown
  <2>2. ht[i] = new[i - Len(hs)]
    BY <2>1 DEF Grown
  <2> QED
    BY <2>1, <2>2
<1> QED
  BY <1>1, <1>2

LEMMA EndsStay ==
    ASSUME NEW hs, NEW ht, NEW new, Grown(hs, ht, new), NoEnd(hs)
    PROVE  /\ (\A i \in 1..Len(new) : new[i].hook # "runEnd") => NoEnd(ht)
           /\ Len(new) = 1 => EndIsLast(ht)
           /\ NoEnd(ht) => EndIsLast(ht)
<1>1. ASSUME NEW i \in 1..Len(ht), ht[i].hook = "runEnd"
      PROVE  i - Len(hs) \in 1..Len(new) /\ ht[i] = new[i - Len(hs)]
  <2>1. i \notin 1..Len(hs)
    BY <1>1 DEF Grown, Same, NoEnd
  <2>2. i - Len(hs) \in 1..Len(new) /\ Len(hs) + (i - Len(hs)) = i
    BY <2>1 DEF Grown
  <2> QED
    BY <2>2 DEF Grown
<1>2. (\A i \in 1..Len(new) : new[i].hook # "runEnd") => NoEnd(ht)
  BY <1>1 DEF NoEnd
<1>3. Len(new) = 1 => EndIsLast(ht)
  <2> SUFFICES ASSUME Len(new) = 1, NEW i \in 1..Len(ht), ht[i].hook = "runEnd" PROVE i = Len(ht)
    BY DEF EndIsLast
  <2>1. i - Len(hs) \in 1..1 /\ Len(ht) = Len(hs) + 1 /\ Len(hs) \in Nat /\ i \in Int
    BY <1>1 DEF Grown
  <2> QED
    BY <2>1
<1> QED
  BY <1>2, <1>3 DEF NoEnd, EndIsLast

(* A test that goes on, and one that ends.                                  *)
LEMMA TestGoesOn ==
    ASSUME NEW hs, NEW ht, NEW e, Grown(hs, ht, <<e>>), NEW j \in Journals, NEW s \in 1..Len(hs), IsOpen(hs, s, j), j.open,
           NEW r, e.hook = "event", e.group = j.group, e.test = j.test, e.verb = r.verb, e.ok = r.ok, r.ok \in BOOLEAN
    PROVE  IsOpen(ht, s, G!Counted(j, r))
<1> DEFINE n == Len(hs)
           a == s + 1
           c == G!Counted(j, r)
<1>1. n \in Nat /\ Len(ht) = n + 1 /\ Same(hs, ht, n) /\ ht[n + 1] = e
  <2>1. Len(<<e>>) = 1 /\ <<e>>[1] = e /\ 1 \in 1..1
    OBVIOUS
  <2> QED
    BY <2>1 DEF Grown
<1>2. s \in Nat /\ s >= 1 /\ s <= n /\ a \in Nat \ {0} /\ n \in Int /\ n <= n
  BY <1>1
<1>3. /\ Checked(ht, a, n) <=> Checked(hs, a, n)
      /\ NoneFailed(ht, a, n) <=> NoneFailed(hs, a, n)
      /\ \A group, test : Within(ht, a, n, group, test) <=> Within(hs, a, n, group, test)
  BY <1>1, <1>2, SameWithin
<1>4. \A k : k \in a..(n + 1) <=> k \in a..n \/ k = n + 1
  BY <1>2
<1>5. /\ Checked(ht, a, n + 1) <=> Checked(hs, a, n) \/ r.verb = "Verify"
      /\ NoneFailed(ht, a, n + 1) <=> NoneFailed(hs, a, n) /\ (r.verb = "Verify" => r.ok)
      /\ \A group, test : Within(ht, a, n + 1, group, test) <=>
                            Within(hs, a, n, group, test) /\ e.hook = "event" /\ e.group = group /\ e.test = test
  <2>1. /\ Checked(ht, a, n + 1) <=> Checked(ht, a, n) \/ ht[n + 1].verb = "Verify"
        /\ NoneFailed(ht, a, n + 1) <=> NoneFailed(ht, a, n) /\ (ht[n + 1].verb = "Verify" => ht[n + 1].ok)
        /\ \A group, test : Within(ht, a, n + 1, group, test) <=>
               Within(ht, a, n, group, test) /\ ht[n + 1].hook = "event" /\ ht[n + 1].group = group /\ ht[n + 1].test = test
    BY <1>4, Zenon DEF Checked, NoneFailed, Within
  <2> QED
    BY <2>1, <1>1, <1>3, Zenon
<1>6. /\ c.group = j.group /\ c.test = j.test
      /\ c.checks = IF r.verb = "Verify" THEN j.checks + 1 ELSE j.checks
      /\ c.failures = IF r.verb = "Verify" /\ ~r.ok THEN j.failures + 1 ELSE j.failures
      /\ j.checks \in Nat /\ j.failures \in Nat
  BY DEF G!Counted, Journals
<1>7. ht[s] = hs[s]
  BY <1>1, <1>2 DEF Same
<1> HIDE DEF c, n, a
<1>8. /\ hs[s].hook = "testStart" /\ Within(hs, a, n, j.group, j.test)
      /\ j.checks > 0 <=> Checked(hs, a, n)
      /\ j.failures = 0 <=> NoneFailed(hs, a, n)
  BY DEF IsOpen, n, a
<1>9. c.checks > 0 <=> Checked(ht, a, n + 1)
  BY <1>5, <1>6, <1>8
<1>10. c.failures = 0 <=> NoneFailed(ht, a, n + 1)
  BY <1>5, <1>6, <1>8
<1>11. Within(ht, a, n + 1, c.group, c.test)
  BY <1>5, <1>6, <1>8
<1> QED
  BY <1>1, <1>7, <1>8, <1>9, <1>10, <1>11 DEF IsOpen, c, a, n

LEMMA TestEnds ==
    ASSUME NEW hs, NEW ht, NEW h, Grown(hs, ht, <<h>>), NEW j, NEW s \in 1..Len(hs), IsOpen(hs, s, j),
           h.group = j.group, h.test = j.test, h.ok = G!Verdict(j)
    PROVE  s \in 1..((Len(hs) + 1) - 1) /\ IsTest(ht, s, Len(hs) + 1)
<1> DEFINE n == Len(hs)
           a == s + 1
<1>1. n \in Nat /\ Len(ht) = n + 1 /\ Same(hs, ht, n) /\ ht[n + 1] = h
  <2>1. Len(<<h>>) = 1 /\ <<h>>[1] = h /\ 1 \in 1..1
    OBVIOUS
  <2> QED
    BY <2>1 DEF Grown
<1>2. s \in Nat /\ s >= 1 /\ s <= n /\ a \in Nat \ {0} /\ n \in Int /\ n <= n /\ (n + 1) - 1 = n
  BY <1>1
<1>3. /\ Checked(ht, a, n) <=> Checked(hs, a, n)
      /\ NoneFailed(ht, a, n) <=> NoneFailed(hs, a, n)
      /\ \A group, test : Within(ht, a, n, group, test) <=> Within(hs, a, n, group, test)
  BY <1>1, <1>2, SameWithin
<1>4. ht[s] = hs[s]
  BY <1>1, <1>2 DEF Same
<1> HIDE DEF n, a
<1>5. /\ hs[s].hook = "testStart" /\ Within(hs, a, n, j.group, j.test)
      /\ j.checks > 0 <=> Checked(hs, a, n)
      /\ j.failures = 0 <=> NoneFailed(hs, a, n)
  BY DEF IsOpen, n, a
<1>6. h.ok <=> Checked(ht, a, n) /\ NoneFailed(ht, a, n)
  BY <1>3, <1>5, Zenon DEF G!Verdict
<1>7. IsTest(ht, s, n + 1)
  BY <1>1, <1>2, <1>3, <1>4, <1>5, <1>6, Zenon DEF IsTest, a
<1> QED
  BY <1>2, <1>7 DEF n

-----------------------------------------------------------------------------
(* The machine log, as it is told.                                          *)

LEMMA ResultsGrow ==
    ASSUME NEW hs, NEW ht, NEW new, Grown(hs, ht, new), NEW results, NEW g, NEW g2,
           ResultsHold(results, hs, Len(hs), g), new[1].hook \in {"event", "testEnd"} => new[1].group = g
    PROVE  ResultsHold(results, ht, Len(hs), g2)
<1> DEFINE n == Len(hs)
           S == ResultsIn(hs, n)
<1>1. n \in Nat /\ Len(new) \in Nat \ {0} /\ Len(ht) = n + Len(new) /\ Same(hs, ht, n) /\ ht[n + 1] = new[1]
  BY DEF Grown
<1>2. ResultsIn(ht, n) = S
  BY <1>1, PlacesStay
<1>3. ASSUME NEW k \in S, NEW r, IsResultOf(r, hs, k, g)
      PROVE  IsResultOf(r, ht, k, g2)
  <2>1. k \in 1..n
    BY <1>1, ResultPlaces
  <2>2. ht[k] = hs[k] /\ k # Len(ht)
    BY <1>1, <2>1 DEF Same
  <2>3. CASE k = n
    BY <1>1, <1>3, <2>2, <2>3, Zenon DEF IsResultOf
  <2>4. CASE k # n
    <3>1. k + 1 \in 1..n
      BY <1>1, <2>1, <2>4
    <3>2. ht[k + 1] = hs[k + 1]
      BY <1>1, <3>1 DEF Same
    <3> QED
      BY <1>3, <2>2, <2>4, <3>2, Zenon DEF IsResultOf
  <2> QED
    BY <2>3, <2>4
<1> QED
  BY <1>2, <1>3, Zenon DEF ResultsHold

LEMMA ResultTold ==
    ASSUME NEW hs, NEW n \in Nat, NEW results \in Seq(ResultHook), NEW group, ResultsHold(results, hs, n, group),
           NEW r \in ResultHook, G!IsResult(hs[n + 1]) => IsResultOf(r, hs, n + 1, group)
    PROVE  ResultsHold(IF G!IsResult(hs[n + 1]) THEN Append(results, r) ELSE results, hs, n + 1, group)
<1> DEFINE S == ResultsIn(hs, n)
           T == ResultsIn(hs, n + 1)
           c == Cardinality(S)
<1>1. S \in SUBSET Nat /\ IsFiniteSet(S) /\ c \in Nat /\ \A k \in S : k < n + 1
  BY ResultPlaces
<1>2. T = IF G!IsResult(hs[n + 1]) THEN S \cup {n + 1} ELSE S
  BY ResultPlaces
<1>3. Len(results) = c /\ \A k \in S : IsResultOf(results[Rank(S, k)], hs, k, group)
  BY DEF ResultsHold
<1>4. CASE ~G!IsResult(hs[n + 1])
  BY <1>2, <1>3, <1>4, Zenon DEF ResultsHold
<1>5. CASE G!IsResult(hs[n + 1])
  <2>1. n + 1 \in Nat
    OBVIOUS
  <2>2. Cardinality(T) = c + 1 /\ Rank(T, n + 1) = c + 1 /\ \A k \in S : Rank(T, k) = Rank(S, k)
    <3>1. T = S \cup {n + 1}
      BY <1>2, <1>5
    <3> HIDE DEF S, T
    <3>2. /\ Cardinality(S \cup {n + 1}) = Cardinality(S) + 1 /\ Rank(S \cup {n + 1}, n + 1) = Cardinality(S) + 1
          /\ \A k \in S : Rank(S \cup {n + 1}, k) = Rank(S, k)
      BY <1>1, <2>1, RankAdd
    <3> QED
      BY <3>1, <3>2
  <2>3. \A k \in S : Rank(S, k) \in 1..c
    BY <1>1, RankInRange
  <2> DEFINE all == Append(results, r)
  <2>4. Len(all) = Len(results) + 1 /\ all[Len(results) + 1] = r /\ \A i \in 1..Len(results) : all[i] = results[i]
    BY AppendProperties
  <2> HIDE DEF all
  <2>5. ASSUME NEW k \in T PROVE IsResultOf(all[Rank(T, k)], hs, k, group)
    <3>1. CASE k \in S
      BY <3>1, <1>3, <2>2, <2>3, <2>4
    <3>2. CASE k = n + 1
      BY <3>2, <1>3, <1>5, <2>2, <2>4
    <3> QED
      BY <3>1, <3>2, <1>2
  <2>6. Len(all) = Cardinality(T)
    BY <1>3, <2>2, <2>4
  <2> QED
    BY <1>5, <2>5, <2>6, Zenon DEF ResultsHold, all
<1> QED
  BY <1>4, <1>5

(* A rule is noted once.                                                    *)
LEMMA RuleTold ==
    ASSUME NEW rules \in Seq(RuleIds), NEW results \in Seq(ResultHook), RulesHold(rules, results), NEW r \in ResultHook
    PROVE  /\ G!NoteRule(rules, r.rule) \in Seq(RuleIds)
           /\ RulesHold(G!NoteRule(rules, r.rule), Append(results, r))
<1> DEFINE id == r.rule
           all == Append(results, r)
           noted == Append(rules, id)
<1>1. id \in RuleIds
  BY DEF ResultHook
<1>2. Len(all) = Len(results) + 1 /\ all[Len(results) + 1] = r /\ \A i \in 1..Len(results) : all[i] = results[i]
  BY AppendProperties
<1>3. /\ noted \in Seq(RuleIds) /\ Len(noted) = Len(rules) + 1 /\ noted[Len(rules) + 1] = id
      /\ \A i \in 1..Len(rules) : noted[i] = rules[i]
  BY <1>1, AppendProperties
<1>4. Len(results) \in Nat /\ DOMAIN results = 1..Len(results) /\ Len(rules) \in Nat /\ DOMAIN rules = 1..Len(rules)
  BY LenProperties
<1>5. all \in Seq(ResultHook)
  BY AppendProperties
<1> HIDE DEF all, noted, id
<1>6. DOMAIN all = 1..(Len(results) + 1) /\ DOMAIN noted = 1..(Len(rules) + 1)
  BY <1>2, <1>3, <1>5, LenProperties
<1>7. id \in G!ToSet(rules) <=> \E a \in DOMAIN rules : rules[a] = id
  BY Zenon DEF G!ToSet
<1>8. ASSUME NEW some, RulesHold(some, results), \E a \in DOMAIN some : some[a] = id
      PROVE  RulesHold(some, all)
  <2>1. ASSUME NEW i \in DOMAIN all PROVE \E a \in DOMAIN some : some[a] = all[i].rule
    <3>1. CASE i \in DOMAIN results
      BY <3>1, <1>2, <1>4, <1>8 DEF RulesHold
    <3>2. CASE i = Len(results) + 1
      BY <3>2, <1>2, <1>8 DEF id
    <3> QED
      BY <3>1, <3>2, <1>4, <1>6
  <2> QED
    BY <1>8, <2>1, Zenon DEF RulesHold
<1>9. CASE id \in G!ToSet(rules)
  <2>1. G!NoteRule(rules, id) = rules
    BY <1>9, Zenon DEF G!NoteRule
  <2> QED
    BY <2>1, <1>7, <1>8, <1>9 DEF id, all
<1>10. CASE id \notin G!ToSet(rules)
  <2>1. G!NoteRule(rules, id) = noted
    BY <1>10, Zenon DEF G!NoteRule, noted
  <2>2. \A a, b \in DOMAIN noted : noted[a] = noted[b] => a = b
    <3> SUFFICES ASSUME NEW a \in DOMAIN noted, NEW b \in DOMAIN noted, noted[a] = noted[b] PROVE a = b
      OBVIOUS
    <3>1. /\ a \in DOMAIN rules \/ a = Len(rules) + 1
          /\ b \in DOMAIN rules \/ b = Len(rules) + 1
      BY <1>4, <1>6
    <3>2. \A c \in DOMAIN rules : noted[c] = rules[c] /\ rules[c] # id
      BY <1>3, <1>4, <1>7, <1>10
    <3> QED
      BY <3>1, <3>2, <1>3 DEF RulesHold
  <2>3. ASSUME NEW i \in DOMAIN results PROVE \E a \in DOMAIN noted : noted[a] = results[i].rule
    <3>1. PICK a \in DOMAIN rules : rules[a] = results[i].rule
      BY DEF RulesHold
    <3> QED
      BY <3>1, <1>3, <1>4, <1>6
  <2>4. Len(rules) + 1 \in DOMAIN noted
    BY <1>4, <1>6
  <2>5. RulesHold(noted, all)
    BY <1>3, <1>8, <2>2, <2>3, <2>4, Zenon DEF RulesHold
  <2> QED
    BY <2>1, <2>5, <1>3 DEF id, all
<1> QED
  BY <1>9, <1>10

(* What a hook adds to the machine log.                                     *)
LEMMA BufferedParts ==
    ASSUME NEW s \in SarifStates, NEW h \in Hook
    PROVE  LET t == G!Buffered(s, h) IN
           /\ t.written = s.written /\ t.file = s.file
           /\ t.group = (IF GroupHook(h) THEN GroupOf(h) ELSE s.group)
           /\ ~G!IsResult(h) => t.rules = s.rules /\ t.results = s.results
           /\ G!IsResult(h) =>
                \E r \in ResultHook :
                  /\ t.rules = G!NoteRule(s.rules, r.rule) /\ t.results = Append(s.results, r)
                  /\ r.hook = h.hook /\ (h.hook = "event" => r = h) /\ (h.hook = "testStart" => r.group = s.group)
           /\ t = [group |-> t.group, rules |-> t.rules, results |-> t.results, written |-> t.written, file |-> t.file]
<1> DEFINE here == [s EXCEPT !.group = CASE h.hook = "groupStart" -> h.group
                                         [] h.hook = "groupEnd" -> NoGroup
                                         [] OTHER -> @]
           r == G!Result(here, h)
<1>1. here.group = (IF GroupHook(h) THEN GroupOf(h) ELSE s.group)
  BY DEF SarifStates, GroupHook, GroupOf
<1>2. here.rules = s.rules /\ here.results = s.results /\ here.written = s.written /\ here.file = s.file
  BY DEF SarifStates
<1>3. here \in SarifStates
  BY DEF SarifStates, Hook
<1>4. G!IsResult(h) => /\ r \in ResultHook /\ r.hook = h.hook /\ (h.hook = "event" => r = h)
                       /\ (h.hook = "testStart" => r.group = s.group)
  <2> SUFFICES ASSUME G!IsResult(h)
               PROVE  /\ r \in ResultHook /\ r.hook = h.hook /\ (h.hook = "event" => r = h)
                      /\ (h.hook = "testStart" => r.group = s.group)
    OBVIOUS
  <2>1. here.group \in Groups \cup {NoGroup}
    BY <1>3 DEF SarifStates
  <2>2. h \in ResultHook
    BY DEF Hook, ResultHook, RuleIds
  <2>3. h.hook = "testStart" => here.group = s.group
    BY <1>1 DEF GroupHook
  <2> HIDE DEF here
  <2>4. CASE h.hook = "event"
    BY <2>2, <2>4 DEF G!Result
  <2>5. CASE h.hook # "event"
    <3>1. h.hook \in {"groupStart", "testStart", "phaseStart"}
      BY <2>5 DEF G!IsResult, G!Boundary
    <3>2. G!Boundary[h.hook] \in RuleIds
      BY <3>1 DEF G!Boundary, RuleIds
    <3>3. r = [h EXCEPT !.rule = G!Boundary[h.hook], !.group = IF h.hook = "phaseStart" THEN @ ELSE here.group]
      BY <2>5, Zenon DEF G!Result
    <3> HIDE DEF r
    <3>4. h.group \in Groups \cup {NoGroup}
      BY DEF Hook
    <3>5. r \in ResultHook /\ r.hook = h.hook /\ r.group = IF h.hook = "phaseStart" THEN h.group ELSE here.group
      BY <2>1, <2>2, <3>2, <3>3, <3>4 DEF ResultHook
    <3> QED
      BY <2>3, <2>5, <3>5
  <2> QED
    BY <2>4, <2>5
<1> DEFINE t == G!Buffered(s, h)
<1>5. t = IF G!IsResult(h)
          THEN [here EXCEPT !.rules = G!NoteRule(@, r.rule), !.results = Append(@, r)]
          ELSE here
  BY Zenon DEF G!Buffered
<1> HIDE DEF t, r
<1> DEFINE rules == G!NoteRule(s.rules, r.rule)
           results == Append(s.results, r)
<1>6. t = IF G!IsResult(h) THEN [here EXCEPT !.rules = rules, !.results = results] ELSE here
  BY <1>2, <1>5
<1> HIDE DEF rules, results, here
<1>7. /\ t.group = here.group /\ t.written = here.written /\ t.file = here.file
      /\ t.rules = (IF G!IsResult(h) THEN rules ELSE here.rules)
      /\ t.results = (IF G!IsResult(h) THEN results ELSE here.results)
      /\ t = [group |-> t.group, rules |-> t.rules, results |-> t.results, written |-> t.written, file |-> t.file]
  <2>1. CASE G!IsResult(h)
    BY <2>1, <1>3, <1>6 DEF SarifStates
  <2>2. CASE ~G!IsResult(h)
    BY <2>2, <1>3, <1>6 DEF SarifStates
  <2> QED
    BY <2>1, <2>2
<1>8. G!IsResult(h) =>
                \E q \in ResultHook :
                  /\ t.rules = G!NoteRule(s.rules, q.rule) /\ t.results = Append(s.results, q)
                  /\ q.hook = h.hook /\ (h.hook = "event" => q = h) /\ (h.hook = "testStart" => q.group = s.group)
  BY <1>4, <1>7, Zenon DEF r, rules, results
<1> QED
  BY <1>1, <1>2, <1>7, <1>8, Zenon DEF t

LEMMA RecordParts ==
    ASSUME RecordBase
    PROVE  /\ sarif \in SarifStates /\ rtf \in RtfStates /\ Story
           /\ sarif.rules \in Seq(RuleIds) /\ sarif.results \in Seq(ResultHook)
           /\ sarif.group \in Groups \cup {NoGroup} /\ sarif.written \in BOOLEAN /\ sarif.file \in Seq(Document)
           /\ rtf.lines \in Seq(Hook) /\ rtf.closed \in BOOLEAN /\ rtf.final \in BOOLEAN
           /\ opt.logs =>
                /\ ResultsHold(sarif.results, hooks, SarifTold, journal.group)
                /\ RulesHold(sarif.rules, sarif.results)
                /\ GroupHolds(sarif.group, hooks, SarifTold, journal.group)
                /\ EndTold(hooks, SarifTold) => Written(sarif, hooks[SarifTold].ok)
                /\ stage = "starting" => rtf.lines = <<>> /\ ~rtf.final
                /\ stage # "starting" /\ (stage = "exited" => rtf.final) =>
                     rtf.closed /\ rtf.lines = At(hooks, LinesIn(hooks, RtfTold))
                /\ rtf.final => stage \in {"ending", "exited", "dead"} /\ RtfTold = Len(hooks)
                /\ EndTold(hooks, RtfTold) => rtf.final
<1>1. DocumentsTyped /\ Story /\ SarifHolds /\ RtfHolds
  BY Zenon DEF RecordBase
<1>2. sarif \in SarifStates /\ rtf \in RtfStates
  BY <1>1 DEF DocumentsTyped
<1>3. /\ sarif.rules \in Seq(RuleIds) /\ sarif.results \in Seq(ResultHook)
      /\ sarif.group \in Groups \cup {NoGroup} /\ sarif.written \in BOOLEAN /\ sarif.file \in Seq(Document)
  BY <1>2 DEF SarifStates
<1>4. rtf.lines \in Seq(Hook) /\ rtf.closed \in BOOLEAN /\ rtf.final \in BOOLEAN
  BY <1>2 DEF RtfStates
<1> QED
  BY <1>1, <1>2, <1>3, <1>4, Zenon DEF SarifHolds, RtfHolds

LEMMA WrittenTyped ==
    ASSUME NEW s \in SarifStates, NEW ok \in BOOLEAN
    PROVE  /\ G!WriteLog(s, ok) \in SarifStates /\ G!WriteLogFails(s) \in SarifStates
           /\ \A t \in {G!WriteLog(s, ok), G!WriteLogFails(s)} :
                t.group = s.group /\ t.rules = s.rules /\ t.results = s.results
           /\ Written(G!WriteLog(s, ok), ok)
<1> DEFINE d == [rules |-> s.rules, results |-> s.results, allPassed |-> ok]
           file == <<d>>
<1>1. s.rules \in Seq(RuleIds) /\ s.results \in Seq(ResultHook)
  BY DEF SarifStates
<1>2. d \in Document
  BY <1>1 DEF Document
<1>3. file \in Seq(Document)
  <2> HIDE DEF d
  <2> QED
    BY <1>2
<1>4. G!WriteLog(s, ok) = [s EXCEPT !.written = TRUE, !.file = file]
  BY Zenon DEF G!WriteLog
<1>5. G!WriteLogFails(s) = [s EXCEPT !.written = TRUE]
  BY Zenon DEF G!WriteLogFails
<1> HIDE DEF file
<1>6. /\ G!WriteLog(s, ok) \in SarifStates
      /\ G!WriteLog(s, ok).group = s.group /\ G!WriteLog(s, ok).rules = s.rules /\ G!WriteLog(s, ok).results = s.results
      /\ G!WriteLog(s, ok).written /\ G!WriteLog(s, ok).file = file
  BY <1>3, <1>4 DEF SarifStates
<1>7. /\ G!WriteLogFails(s) \in SarifStates
      /\ G!WriteLogFails(s).group = s.group /\ G!WriteLogFails(s).rules = s.rules /\ G!WriteLogFails(s).results = s.results
  BY <1>5 DEF SarifStates
<1>8. Written(G!WriteLog(s, ok), ok)
  BY <1>6, Zenon DEF Written, file
<1> QED
  BY <1>6, <1>7, <1>8

(* The sink's group, once it is told of the next hook.                      *)
LEMMA GroupTold ==
    ASSUME NEW hs, Len(hs) \in Nat, NEW n \in Nat, n + 1 <= Len(hs), NEW here, NEW group, GroupHolds(here, hs, n, group)
    PROVE  /\ GroupHolds(IF GroupHook(hs[n + 1]) THEN GroupOf(hs[n + 1]) ELSE here, hs, n + 1, group)
           /\ hs[n + 1].hook = "testStart" => n + 1 = Len(hs) /\ here = group
<1>1. CASE here = group /\ \A k \in (n + 1)..Len(hs) : ~GroupHook(hs[k]) /\ (hs[k].hook = "testStart" => k = Len(hs))
  <2>1. n + 1 \in (n + 1)..Len(hs) /\ \A k \in (n + 1 + 1)..Len(hs) : k \in (n + 1)..Len(hs)
    OBVIOUS
  <2> QED
    BY <1>1, <2>1, Zenon DEF GroupHolds
<1>2. CASE n + 1 = Len(hs) /\ GroupHook(hs[n + 1]) /\ group = GroupOf(hs[n + 1])
  <2>1. ~\E k \in (n + 1 + 1)..Len(hs) : TRUE
    BY <1>2
  <2>2. hs[n + 1].hook # "testStart"
    BY <1>2 DEF GroupHook
  <2> QED
    BY <1>2, <2>1, <2>2, Zenon DEF GroupHolds
<1> QED
  BY <1>1, <1>2, Zenon DEF GroupHolds

LEMMA SarifTells ==
    ASSUME LogBase, RecordBase, G!TellSarif
    PROVE  RecordBase'
<1>1. /\ G!Telling /\ G!Sinks[turn] = "Sarif" /\ turn' = turn + 1
      /\ sarif' = (IF G!Told.hook = "runEnd" THEN G!WriteLog(sarif, G!Told.ok) ELSE G!Buffered(sarif, G!Told))
      /\ UNCHANGED <<opt, stage, journal, thrown, passed, queue, hooks, rtf>>
  BY Zenon DEF G!TellSarif, G!runVars
<1>2. turn \in 1..Len(G!Sinks)
  BY <1>1, BaseParts DEF G!Telling
<1>3. opt.logs /\ turn = SarifAt /\ turn # RtfAt
  BY <1>1, <1>2, LogPlaces
<1> DEFINE n == SarifTold
           h == hooks[n + 1]
<1>4. /\ n \in Nat /\ n + 1 \in 1..Len(hooks) /\ Len(hooks) \in Nat /\ DOMAIN hooks = 1..Len(hooks) /\ hooks \in Seq(Hook)
      /\ G!Told = h /\ SarifTold' = n + 1 /\ RtfTold' = RtfTold
  <2>1. n \in Nat /\ Len(hooks) \in Nat /\ DOMAIN hooks = 1..Len(hooks) /\ hooks \in Seq(Hook)
    BY ToldFacts
  <2> QED
    BY <1>1, <1>3, <2>1, ToldOne
<1>5. h \in Hook /\ h.ok \in BOOLEAN
  <2>1. h \in Hook
    BY <1>4, ElementOfSeq
  <2> QED
    BY <2>1 DEF Hook
<1>6. /\ sarif \in SarifStates /\ rtf \in RtfStates /\ Story
      /\ sarif.rules \in Seq(RuleIds) /\ sarif.results \in Seq(ResultHook)
      /\ ResultsHold(sarif.results, hooks, n, journal.group)
      /\ RulesHold(sarif.rules, sarif.results)
      /\ GroupHolds(sarif.group, hooks, n, journal.group)
  BY <1>3, RecordParts
<1>7. Story'
  BY <1>1, <1>6, Zenon DEF Story
<1>8. RtfHolds'
  <2>1. RtfHolds
    BY Zenon DEF RecordBase
  <2> QED
    BY <1>1, <1>4, <2>1, Zenon DEF RtfHolds
<1> DEFINE g == IF GroupHook(h) THEN GroupOf(h) ELSE sarif.group
<1>9. GroupHolds(g, hooks, n + 1, journal.group) /\ (h.hook = "testStart" => n + 1 = Len(hooks) /\ sarif.group = journal.group)
  <2>1. n + 1 <= Len(hooks)
    BY <1>4
  <2> HIDE DEF n
  <2> QED
    BY <1>4, <1>6, <2>1, GroupTold
<1> HIDE DEF n, h
<1>10. CASE h.hook = "runEnd"
  <2>1. ~G!IsResult(h) /\ ~GroupHook(h)
    BY <1>10 DEF G!IsResult, G!Boundary, GroupHook
  <2>2. sarif' = G!WriteLog(sarif, h.ok)
    BY <1>1, <1>4, <1>10
  <2>3. /\ sarif' \in SarifStates /\ Written(sarif', h.ok)
        /\ sarif'.group = sarif.group /\ sarif'.rules = sarif.rules /\ sarif'.results = sarif.results
    BY <1>5, <1>6, <2>2, WrittenTyped
  <2>4. ResultsHold(sarif.results, hooks, n + 1, journal.group)
    <3>1. PICK r \in ResultHook : r = [G!Plain EXCEPT !.hook = "event"]
      <4>1. [G!Plain EXCEPT !.hook = "event"] \in Hook
        BY HooksTyped DEF HookKinds
      <4> QED
        BY <4>1 DEF Hook, ResultHook, RuleIds
    <3> QED
      BY <1>4, <1>6, <2>1, ResultTold DEF h
  <2>5. SarifHolds'
    BY <1>1, <1>4, <1>6, <1>9, <2>1, <2>3, <2>4, Zenon DEF SarifHolds, h
  <2> QED
    BY <1>1, <1>6, <1>7, <1>8, <2>3, <2>5, Zenon DEF RecordBase, DocumentsTyped
<1>11. CASE h.hook # "runEnd"
  <2>1. sarif' = G!Buffered(sarif, h)
    BY <1>1, <1>4, <1>11
  <2>2. /\ sarif'.written = sarif.written /\ sarif'.file = sarif.file /\ sarif'.group = g
        /\ ~G!IsResult(h) => sarif'.rules = sarif.rules /\ sarif'.results = sarif.results
        /\ G!IsResult(h) =>
             \E r \in ResultHook :
               /\ sarif'.rules = G!NoteRule(sarif.rules, r.rule) /\ sarif'.results = Append(sarif.results, r)
               /\ r.hook = h.hook /\ (h.hook = "event" => r = h) /\ (h.hook = "testStart" => r.group = sarif.group)
        /\ sarif' = [group |-> sarif'.group, rules |-> sarif'.rules, results |-> sarif'.results,
                     written |-> sarif'.written, file |-> sarif'.file]
    BY <1>5, <1>6, <2>1, BufferedParts, Zenon
  <2>3. g \in Groups \cup {NoGroup}
    <3>1. h.group \in Groups \cup {NoGroup} /\ sarif.group \in Groups \cup {NoGroup}
      BY <1>5, <1>6 DEF Hook, SarifStates
    <3> QED
      BY <3>1 DEF GroupOf
  <2>4. ~EndTold(hooks, n + 1)
    BY <1>11 DEF EndTold, h
  <2>5. /\ ResultsHold(sarif'.results, hooks, n + 1, journal.group) /\ RulesHold(sarif'.rules, sarif'.results)
        /\ sarif'.rules \in Seq(RuleIds) /\ sarif'.results \in Seq(ResultHook)
    <3>1. CASE ~G!IsResult(h)
      <4>1. PICK r \in ResultHook : r = [G!Plain EXCEPT !.hook = "event"]
        <5>1. [G!Plain EXCEPT !.hook = "event"] \in Hook
          BY HooksTyped DEF HookKinds
        <5> QED
          BY <5>1 DEF Hook, ResultHook, RuleIds
      <4>2. ResultsHold(sarif.results, hooks, n + 1, journal.group)
        BY <1>4, <1>6, <3>1, ResultTold DEF h
      <4> QED
        BY <1>6, <2>2, <3>1, <4>2
    <3>2. CASE G!IsResult(h)
      <4>1. PICK r \in ResultHook :
               /\ sarif'.rules = G!NoteRule(sarif.rules, r.rule) /\ sarif'.results = Append(sarif.results, r)
               /\ r.hook = h.hook /\ (h.hook = "event" => r = h) /\ (h.hook = "testStart" => r.group = sarif.group)
        BY <2>2, <3>2
      <4>2. IsResultOf(r, hooks, n + 1, journal.group)
        BY <1>9, <4>1, Zenon DEF IsResultOf, h
      <4>3. ResultsHold(Append(sarif.results, r), hooks, n + 1, journal.group)
        BY <1>4, <1>6, <3>2, <4>2, ResultTold DEF h
      <4>4. /\ G!NoteRule(sarif.rules, r.rule) \in Seq(RuleIds)
            /\ RulesHold(G!NoteRule(sarif.rules, r.rule), Append(sarif.results, r))
        BY <1>6, RuleTold
      <4>5. Append(sarif.results, r) \in Seq(ResultHook)
        BY <1>6, AppendProperties
      <4> QED
        BY <4>1, <4>3, <4>4, <4>5, Zenon
    <3> QED
      BY <3>1, <3>2
  <2> HIDE DEF g
  <2>6. sarif' \in SarifStates
    <3>1. sarif.written \in BOOLEAN /\ sarif.file \in Seq(Document)
      BY <1>6 DEF SarifStates
    <3> QED
      BY <2>2, <2>3, <2>5, <3>1, Zenon DEF SarifStates
  <2>7. SarifHolds'
    BY <1>1, <1>4, <1>9, <2>2, <2>4, <2>5, Zenon DEF SarifHolds
  <2> QED
    BY <1>1, <1>6, <1>7, <1>8, <2>6, <2>7, Zenon DEF RecordBase, DocumentsTyped
<1> QED
  BY <1>10, <1>11

-----------------------------------------------------------------------------
(* The human log, as it is told.                                            *)

LEMMA LineTold ==
    ASSUME hooks \in Seq(Hook), NEW n \in Nat, n + 1 \in 1..Len(hooks)
    PROVE  LinesTo(n + 1) = IF G!Composes(hooks[n + 1]) THEN LinesTo(n) \o <<hooks[n + 1]>> ELSE LinesTo(n)
<1> DEFINE S == LinesIn(hooks, n)
<1>1. Len(hooks) \in Nat /\ DOMAIN hooks = 1..Len(hooks)
  BY LenProperties
<1>2. /\ \A k \in S : k \in 1..n /\ k < n + 1
      /\ LinesIn(hooks, n + 1) = IF G!Composes(hooks[n + 1]) THEN S \cup {n + 1} ELSE S
  BY LinePlaces
<1> HIDE DEF S
<1>3. S \in SUBSET (DOMAIN hooks) /\ n + 1 \in DOMAIN hooks
  BY <1>1, <1>2
<1>4. At(hooks, S \cup {n + 1}) = At(hooks, S) \o <<hooks[n + 1]>>
  BY <1>2, <1>3, OneMorePlace
<1> QED
  BY <1>2, <1>4, Zenon DEF LinesTo, S

LEMMA RtfTells ==
    ASSUME LogBase, RecordBase, G!TellRtf
    PROVE  RecordBase'
<1>1. /\ G!Telling /\ G!Sinks[turn] = "Rtf" /\ turn' = turn + 1
      /\ rtf' = (IF G!Told.hook = "runEnd" THEN G!FinishDocument(G!WriteAll(rtf, G!HumanLines(G!Told)))
                 ELSE G!WriteAll(rtf, G!HumanLines(G!Told)))
      /\ UNCHANGED <<opt, stage, journal, thrown, passed, queue, hooks, sarif>>
  BY Zenon DEF G!TellRtf, G!runVars
<1>2. turn \in 1..Len(G!Sinks) /\ stage \in {"run", "ending"}
  BY <1>1, BaseParts DEF G!Telling
<1>3. opt.logs /\ turn = RtfAt /\ turn # SarifAt
  BY <1>1, <1>2, LogPlaces
<1> DEFINE n == RtfTold
           h == hooks[n + 1]
<1>4. /\ n \in Nat /\ n + 1 \in 1..Len(hooks) /\ Len(hooks) \in Nat /\ hooks \in Seq(Hook)
      /\ G!Told = h /\ RtfTold' = n + 1 /\ SarifTold' = SarifTold
  <2>1. n \in Nat /\ Len(hooks) \in Nat /\ hooks \in Seq(Hook)
    BY ToldFacts
  <2> QED
    BY <1>1, <1>3, <2>1, ToldOne
<1>5. h \in Hook
  <2>1. DOMAIN hooks = 1..Len(hooks)
    BY <1>4, LenProperties
  <2> QED
    BY <1>4, <2>1, ElementOfSeq
<1>6. /\ sarif \in SarifStates /\ rtf \in RtfStates /\ Story
      /\ rtf.closed /\ rtf.lines = LinesTo(n) /\ rtf.lines \in Seq(Hook)
      /\ rtf.final => n = Len(hooks)
  BY <1>2, <1>3, RecordParts DEF LinesTo
<1>7. ~rtf.final
  BY <1>4, <1>6
<1>8. Story'
  BY <1>1, <1>6, Zenon DEF Story
<1>9. SarifHolds'
  <2>1. SarifHolds
    BY Zenon DEF RecordBase
  <2> QED
    BY <1>1, <1>4, <2>1, Zenon DEF SarifHolds
<1>10. LinesTo(n + 1) = IF G!Composes(h) THEN rtf.lines \o <<h>> ELSE rtf.lines
  BY <1>4, <1>6, LineTold
<1>11. LinesTo(n + 1) \in Seq(Hook)
  <2>1. LinesIn(hooks, n + 1) \in SUBSET (DOMAIN hooks)
    <3>1. DOMAIN hooks = 1..Len(hooks) /\ n + 1 \in Nat
      BY <1>4, LenProperties
    <3>2. \A k \in LinesIn(hooks, n + 1) : k \in 1..(n + 1)
      BY <3>1, LinePlaces
    <3> QED
      BY <1>4, <3>1, <3>2
  <2> QED
    BY <1>4, <2>1, AtPlaces DEF LinesTo
<1>12. h.hook = "runEnd" => stage = "ending" /\ n + 1 = Len(hooks)
  BY <1>2, <1>4, <1>6 DEF Story, NoEnd, EndIsLast
<1> HIDE DEF n, h
<1> DEFINE d == G!WriteAll(rtf, G!HumanLines(h))
<1>13. d = [rtf EXCEPT !.lines = LinesTo(n + 1), !.closed = TRUE]
  <2>1. CASE G!Composes(h)
    <3>1. G!HumanLines(h) = <<h>> /\ <<h>> # <<>>
      BY <2>1 DEF G!HumanLines
    <3>2. d = [rtf EXCEPT !.lines = @ \o <<h>>, !.closed = TRUE]
      BY <1>7, <3>1, Zenon DEF G!WriteAll, G!FlushDocument
    <3> QED
      BY <1>10, <2>1, <3>2, Zenon
  <2>2. CASE ~G!Composes(h)
    <3>1. d = rtf
      BY <2>2, Zenon DEF G!WriteAll, G!HumanLines
    <3>2. LinesTo(n + 1) = rtf.lines /\ rtf.closed = TRUE
      BY <1>6, <1>10, <2>2 DEF RtfStates
    <3> QED
      BY <1>6, <3>1, <3>2 DEF RtfStates
  <2> QED
    BY <2>1, <2>2
<1> HIDE DEF d
<1>14. /\ rtf' \in RtfStates /\ rtf'.lines = LinesTo(n + 1) /\ rtf'.closed
       /\ rtf'.final <=> h.hook = "runEnd"
  <2>1. d \in RtfStates /\ d.lines = LinesTo(n + 1) /\ d.closed /\ ~d.final
    BY <1>6, <1>7, <1>11, <1>13 DEF RtfStates
  <2>2. rtf' = IF h.hook = "runEnd" THEN [d EXCEPT !.final = TRUE, !.closed = TRUE] ELSE d
    BY <1>1, <1>4, Zenon DEF d, G!FinishDocument
  <2> QED
    BY <2>1, <2>2 DEF RtfStates
<1>15. LinesTo(n + 1) = At(hooks, LinesIn(hooks, n + 1))
  BY DEF LinesTo
<1>16. RtfHolds'
  <2>1. EndTold(hooks, n + 1) => h.hook = "runEnd"
    BY DEF EndTold, h
  <2>2. stage # "starting"
    BY <1>2
  <2> QED
    BY <1>1, <1>4, <1>12, <1>14, <1>15, <2>1, <2>2, Zenon DEF RtfHolds
<1> QED
  BY <1>1, <1>6, <1>8, <1>9, <1>14, <1>16, Zenon DEF RecordBase, DocumentsTyped

-----------------------------------------------------------------------------
(* The journal's steps: what they say goes on the story of the run.         *)

LEMMA TellsGrow ==
    ASSUME LogBase, NEW new, Appends(new)
    PROVE  /\ Grown(hooks, hooks', new) /\ LogsToldAsBefore /\ SarifTold = Len(hooks) /\ RtfTold = Len(hooks)
           /\ Len(hooks) \in Nat /\ Len(new) \in Nat \ {0} /\ Len(hooks') = Len(hooks) + Len(new)
           /\ UNCHANGED <<opt, sarif, rtf>>
<1>1. /\ LogsToldAsBefore /\ SarifTold = Len(hooks) /\ RtfTold = Len(hooks)
      /\ Len(new) \in Nat /\ Len(new) >= 1
      /\ Len(hooks) \in Nat /\ Len(hooks') = Len(hooks) + Len(new)
      /\ \A i \in 1..Len(hooks) : hooks'[i] = hooks[i]
      /\ \A i \in 1..Len(new) : hooks'[Len(hooks) + i] = new[i]
  BY ToldOnAppend
<1>2. Len(new) \in Nat \ {0}
  BY <1>1
<1> QED
  BY <1>1, <1>2, Zenon DEF Grown, Same, Appends

(* The logs are behind by the new hooks, and hold what they held.           *)
LEMMA JournalRecords ==
    ASSUME LogBase, RecordBase, NEW new, JournalTells(new), Story'
    PROVE  RecordBase'
<1> DEFINE n == Len(hooks)
<1>1. /\ Grown(hooks, hooks', new) /\ SarifTold' = n /\ RtfTold' = n /\ SarifTold = n /\ RtfTold = n
      /\ n \in Nat /\ Len(new) \in Nat \ {0} /\ Len(hooks') = n + Len(new)
      /\ UNCHANGED <<opt, sarif, rtf>>
  BY TellsGrow DEF JournalTells, LogsToldAsBefore
<1>2. stage \in {"open", "run"} /\ stage' \in {"run", "ending"}
  BY DEF JournalTells
<1> HIDE DEF n
<1>3. n = Len(hooks)
  BY DEF n
<1>4. /\ sarif \in SarifStates /\ rtf \in RtfStates
      /\ opt.logs =>
           /\ ResultsHold(sarif.results, hooks, n, journal.group) /\ RulesHold(sarif.rules, sarif.results)
           /\ GroupHolds(sarif.group, hooks, n, journal.group)
           /\ rtf.closed /\ rtf.lines = At(hooks, LinesIn(hooks, n)) /\ ~rtf.final
  BY <1>1, <1>2, RecordParts
<1>5. ~EndTold(hooks', n)
  <2>1. n # n + Len(new)
    BY <1>1
  <2> QED
    BY <1>1, <2>1 DEF EndTold
<1>6. ASSUME opt.logs
      PROVE  GroupHolds(sarif.group, hooks', n, journal'.group)
  <2>1. sarif.group = journal.group
    <3>1. n + 1 # Len(hooks)
      BY <1>1, <1>3
    <3> QED
      BY <1>4, <1>6, <3>1, Zenon DEF GroupHolds
  <2>2. \A i \in 1..Len(new) : hooks'[n + i] = new[i]
    BY <1>1, <1>3 DEF Grown
  <2>3. CASE journal'.group = journal.group /\ \A i \in 1..Len(new) : ~GroupHook(new[i])
    <3>1. ASSUME NEW k \in (n + 1)..Len(hooks')
          PROVE  ~GroupHook(hooks'[k]) /\ (hooks'[k].hook = "testStart" => k = Len(hooks'))
      <4>1. k - n \in 1..Len(new) /\ n + (k - n) = k
        BY <1>1
      <4>2. hooks'[k] = new[k - n]
        BY <2>2, <4>1
      <4>3. new[k - n].hook = "testStart" => k - n = Len(new)
        BY <4>1 DEF JournalTells
      <4>4. k - n = Len(new) => k = Len(hooks')
        BY <1>1, <4>1
      <4> QED
        BY <2>3, <4>1, <4>2, <4>3, <4>4
    <3> QED
      BY <2>1, <2>3, <3>1, Zenon DEF GroupHolds
  <2>4. CASE Len(new) = 1 /\ GroupHook(new[1]) /\ journal'.group = GroupOf(new[1])
    <3>1. hooks'[n + 1] = new[1] /\ n + 1 = Len(hooks')
      BY <1>1, <2>2, <2>4
    <3> QED
      BY <2>4, <3>1, Zenon DEF GroupHolds
  <2> QED
    BY <2>3, <2>4 DEF JournalTells
<1>7. ASSUME opt.logs PROVE ResultsHold(sarif.results, hooks', n, journal'.group)
  BY <1>1, <1>3, <1>4, <1>7, ResultsGrow DEF JournalTells
<1>8. At(hooks', LinesIn(hooks', n)) = At(hooks, LinesIn(hooks, n))
  <2>1. Same(hooks, hooks', n)
    BY <1>1, <1>3 DEF Grown
  <2>2. LinesIn(hooks', n) = LinesIn(hooks, n)
    BY <1>1, <2>1, PlacesStay
  <2>3. LinesIn(hooks, n) \in SUBSET (1..n)
    BY <1>1, LinePlaces
  <2> QED
    BY <1>1, <2>1, <2>2, <2>3, AtStays
<1>9. SarifHolds'
  BY <1>1, <1>4, <1>5, <1>6, <1>7, Zenon DEF SarifHolds
<1>10. RtfHolds'
  <2>1. stage' # "starting"
    BY <1>2
  <2> QED
    BY <1>1, <1>4, <1>5, <1>8, <2>1, Zenon DEF RtfHolds
<1> QED
  BY <1>1, <1>4, <1>9, <1>10, Zenon DEF RecordBase, DocumentsTyped

LEMMA StoryGoesOn ==
    ASSUME Story, NEW new, Grown(hooks, hooks', new), stage \in {"open", "run"}, TestsHold(hooks'),
           \/ \A i \in 1..Len(new) : new[i].hook # "runEnd"
           \/ Len(new) = 1 /\ stage' = "ending",
           journal'.open /\ ~thrown' => OpenHolds(hooks', journal')
    PROVE  Story'
<1>1. NoEnd(hooks)
  BY DEF Story
<1>2. /\ (\A i \in 1..Len(new) : new[i].hook # "runEnd") => NoEnd(hooks')
      /\ Len(new) = 1 => EndIsLast(hooks')
      /\ NoEnd(hooks') => EndIsLast(hooks')
  BY <1>1, EndsStay
<1>3. EndIsLast(hooks') /\ (stage' \notin {"ending", "exited", "dead"} => NoEnd(hooks'))
  BY <1>2
<1> QED
  BY <1>3, Zenon DEF Story

(* One hook that is no test's end.                                          *)
LEMMA HookTells ==
    ASSUME LogBase, RecordBase, NEW h \in Hook, Appends(<<h>>), stage \in {"open", "run"}, stage' \in {"run", "ending"},
           h.hook # "testEnd", h.hook = "runEnd" => stage' = "ending",
           h.hook = "event" => h.group = journal.group,
           journal'.group = IF GroupHook(h) THEN GroupOf(h) ELSE journal.group,
           journal'.open /\ ~thrown' => OpenHolds(hooks', journal')
    PROVE  RecordBase'
<1>1. Len(<<h>>) = 1 /\ <<h>>[1] = h /\ \A i \in 1..1 : i = 1
  BY OneHook
<1>2. Story
  BY RecordParts
<1> DEFINE new == <<h>>
<1> HIDE DEF new
<1>3. Len(new) = 1 /\ new[1] = h /\ Appends(new) /\ \A i \in 1..Len(new) : i = 1 /\ new[i] = h
  BY <1>1 DEF new
<1>4. Grown(hooks, hooks', new)
  BY <1>3, TellsGrow
<1>5. TestsHold(hooks')
  BY <1>2, <1>3, <1>4, NoTestEnds DEF Story
<1>6. Story'
  BY <1>2, <1>3, <1>4, <1>5, StoryGoesOn
<1>7. JournalTells(new)
  BY <1>3, Zenon DEF JournalTells
<1> QED
  BY <1>6, <1>7, JournalRecords

(* What says that no test is open.                                          *)
LEMMA NotOpen ==
    ASSUME LogBase, RecordBase, journal.open, ~thrown
    PROVE  /\ journal.group # NoGroup /\ journal.test # NoTest /\ journal.phase = NoPhase
           /\ stage \notin {"starting", "open"} /\ \E s \in 1..Len(hooks) : IsOpen(hooks, s, journal)
<1>1. OpenHolds(hooks, journal)
  BY RecordParts DEF Story
<1>2. \E s \in 1..Len(hooks) : IsOpen(hooks, s, journal)
  BY <1>1, Zenon DEF OpenHolds
<1>3. hooks # <<>>
  BY <1>2
<1> QED
  BY <1>1, <1>2, <1>3, Zenon DEF OpenHolds, LogBase, QueueIsRest

LEMMA OpenEmpty ==
    ASSUME LogBase, RecordBase, journal' = journal, thrown' = thrown,
           \/ stage = "open" \/ thrown \/ journal.group = NoGroup \/ journal.test = NoTest \/ journal.phase # NoPhase
           \/ ~journal.open
    PROVE  ~(journal.open /\ ~thrown) /\ ~(journal'.open /\ ~thrown')
  BY NotOpen, Zenon

LEMMA RunTells ==
    ASSUME LogBase, RecordBase, G!Begin \/ G!End
    PROVE  RecordBase'
<1>1. G!Plain \in Hook /\ [G!Plain EXCEPT !.hook = "runEnd"] \in Hook
  BY HooksTyped DEF HookKinds
<1>2. CASE G!Begin
  <2>1. stage = "open" /\ stage' = "run" /\ journal' = journal /\ thrown' = thrown
    BY <1>2 DEF G!Begin
  <2>2. queue = <<>>
    BY <2>1 DEF LogBase, QueueIsRest
  <2>3. Appends(<<G!Plain>>)
    BY <1>1, <1>2, <2>2, OneHookTold DEF G!Begin, G!sinkVars
  <2>4. G!Plain.hook = "runStart"
    BY DEF G!Plain
  <2>5. ~(journal'.open /\ ~thrown')
    BY <2>1, OpenEmpty
  <2>6. ~GroupHook(G!Plain)
    BY <2>4 DEF GroupHook
  <2> QED
    BY <1>1, <2>1, <2>3, <2>4, <2>5, <2>6, HookTells
<1>3. CASE G!End
  <2>1. PICK ok \in {FALSE, passed} : G!Tell(<<[G!Plain EXCEPT !.hook = "runEnd", !.ok = ok]>>)
    BY <1>3 DEF G!End
  <2> DEFINE h == [G!Plain EXCEPT !.hook = "runEnd", !.ok = ok]
  <2>2. ok \in BOOLEAN
    BY TypedParts DEF LogBase
  <2>3. h.hook = "runEnd" /\ h \in Hook
    <3>1. h = [[G!Plain EXCEPT !.hook = "runEnd"] EXCEPT !.ok = ok] /\ h.hook = "runEnd"
      BY <1>1 DEF G!Plain
    <3> QED
      BY <1>1, <2>2, <3>1, HooksTyped
  <2>4. /\ stage = "run" /\ stage' = "ending" /\ journal' = journal /\ thrown' = thrown /\ queue = <<>>
        /\ thrown \/ journal.group = NoGroup
    BY <1>3 DEF G!End, G!Ready
  <2>5. UNCHANGED <<opt, sarif, rtf, pipe, reader>>
    BY <1>3 DEF G!End, G!sinkVars
  <2>6. ~(journal'.open /\ ~thrown')
    BY <2>4, OpenEmpty
  <2>7. G!Tell(<<h>>)
    BY <2>1
  <2> HIDE DEF h
  <2>8. Appends(<<h>>)
    BY <2>3, <2>4, <2>5, <2>7, OneHookTold
  <2>9. ~GroupHook(h)
    BY <2>3 DEF GroupHook
  <2> QED
    BY <2>3, <2>4, <2>6, <2>8, <2>9, HookTells
<1> QED
  BY <1>2, <1>3

LEMMA GroupTells ==
    ASSUME LogBase, RecordBase, (\E g \in Groups : G!BeginGroup(g)) \/ G!EndGroup
    PROVE  RecordBase'
<1>1. /\ \A kind \in {"groupStart", "groupEnd"} : G!Hook(kind) \in Hook /\ G!Hook(kind).hook = kind
      /\ \A h \in Hook : \A g \in Groups \cup {NoGroup} :
           [h EXCEPT !.group = g] \in Hook /\ [h EXCEPT !.group = g].hook = h.hook /\ [h EXCEPT !.group = g].group = g
  <2>1. \A kind \in {"groupStart", "groupEnd"} : G!Hook(kind) \in Hook
    BY HooksTyped DEF HookKinds
  <2>2. \A kind \in {"groupStart", "groupEnd"} : G!Hook(kind).hook = kind
    BY DEF G!Hook, G!Plain
  <2>3. \A h \in Hook : \A g \in Groups \cup {NoGroup} : [h EXCEPT !.group = g] \in Hook
    BY HooksTyped
  <2>4. \A h \in Hook : \A g \in Groups \cup {NoGroup} : [h EXCEPT !.group = g].hook = h.hook /\ [h EXCEPT !.group = g].group = g
    BY DEF Hook
  <2> QED
    BY <2>1, <2>2, <2>3, <2>4
<1>2. journal \in Journals /\ journal.group \in Groups \cup {NoGroup}
  BY TypedParts DEF LogBase
<1>3. CASE \E g \in Groups : G!BeginGroup(g)
  <2>1. PICK g \in Groups : G!BeginGroup(g)
    BY <1>3
  <2> DEFINE h == [G!Hook("groupStart") EXCEPT !.group = g]
  <2>2. h \in Hook /\ h.hook = "groupStart" /\ h.group = g
    BY <1>1
  <2>3. /\ stage = "run" /\ stage' = "run" /\ journal' = [journal EXCEPT !.group = g] /\ thrown' = thrown
        /\ queue = <<>> /\ journal.group = NoGroup /\ ~thrown /\ G!Tell(<<h>>)
        /\ UNCHANGED <<opt, sarif, rtf, pipe, reader>>
    BY <2>1 DEF G!BeginGroup, G!Ready, G!sinkVars
  <2> HIDE DEF h
  <2>4. Appends(<<h>>)
    BY <2>2, <2>3, OneHookTold
  <2>5. ~journal.open
    BY <2>3, NotOpen
  <2>6. journal'.group = g /\ ~journal'.open
    BY <1>2, <2>3, <2>5 DEF Journals
  <2>7. GroupHook(h) /\ GroupOf(h) = g
    BY <2>2 DEF GroupHook, GroupOf
  <2> QED
    BY <2>2, <2>3, <2>4, <2>6, <2>7, HookTells
<1>4. CASE G!EndGroup
  <2> DEFINE h == [G!Hook("groupEnd") EXCEPT !.group = journal.group]
  <2>1. h \in Hook /\ h.hook = "groupEnd"
    BY <1>1, <1>2
  <2>2. /\ stage = "run" /\ stage' = "run" /\ journal' = [journal EXCEPT !.group = NoGroup] /\ thrown' = thrown
        /\ queue = <<>> /\ journal.test = NoTest /\ ~thrown /\ G!Tell(<<h>>)
        /\ UNCHANGED <<opt, sarif, rtf, pipe, reader>>
    BY <1>4 DEF G!EndGroup, G!Ready, G!sinkVars
  <2> HIDE DEF h
  <2>3. Appends(<<h>>)
    BY <2>1, <2>2, OneHookTold
  <2>4. ~journal.open
    BY <2>2, NotOpen
  <2>5. journal'.group = NoGroup /\ ~journal'.open
    BY <1>2, <2>2, <2>4 DEF Journals
  <2>6. GroupHook(h) /\ GroupOf(h) = NoGroup
    BY <2>1 DEF GroupHook, GroupOf
  <2> QED
    BY <2>1, <2>2, <2>3, <2>5, <2>6, HookTells
<1> QED
  BY <1>3, <1>4

LEMMA PhaseTells ==
    ASSUME LogBase, RecordBase, G!BeginPhase \/ G!EndPhase \/ (G!Throw /\ journal.phase = "setup")
    PROVE  RecordBase'
<1>1. journal \in Journals /\ journal.group \in Groups \cup {NoGroup} /\ journal.phase \in {"setup", "teardown", NoPhase}
      /\ thrown \in BOOLEAN
  BY TypedParts DEF LogBase
<1>2. CASE G!BeginPhase
  <2>1. PICK p \in {"setup", "teardown"} :
          /\ journal' = [journal EXCEPT !.phase = p]
          /\ G!Tell(<<[G!Hook("phaseStart") EXCEPT !.group = journal.group, !.phase = p]>>)
    BY <1>2 DEF G!BeginPhase
  <2> DEFINE h == [G!Hook("phaseStart") EXCEPT !.group = journal.group, !.phase = p]
  <2>2. h \in Hook /\ h.hook = "phaseStart"
    <3>1. G!Hook("phaseStart") \in Hook
      BY HooksTyped DEF HookKinds
    <3>2. G!Hook("phaseStart").hook = "phaseStart"
      BY DEF G!Hook, G!Plain
    <3>3. [[G!Hook("phaseStart") EXCEPT !.group = journal.group] EXCEPT !.phase = p] \in Hook
      <4>1. [G!Hook("phaseStart") EXCEPT !.group = journal.group] \in Hook
        BY <1>1, <3>1, HooksTyped
      <4>2. p \in {"setup", "teardown", NoPhase}
        OBVIOUS
      <4> QED
        BY <4>1, <4>2, HooksTyped
    <3> QED
      BY <3>1, <3>2, <3>3 DEF Hook
  <2>3. /\ stage = "run" /\ stage' = "run" /\ thrown' = thrown /\ queue = <<>> /\ (journal.open => thrown)
        /\ UNCHANGED <<opt, sarif, rtf, pipe, reader>>
    BY <1>2 DEF G!BeginPhase, G!Ready, G!sinkVars
  <2>4. G!Tell(<<h>>)
    BY <2>1
  <2> HIDE DEF h
  <2>5. Appends(<<h>>)
    BY <2>2, <2>3, <2>4, OneHookTold
  <2>6. journal'.group = journal.group /\ journal'.open = journal.open
    BY <1>1, <2>1 DEF Journals
  <2>7. ~GroupHook(h)
    BY <2>2 DEF GroupHook
  <2> QED
    BY <2>2, <2>3, <2>5, <2>6, <2>7, HookTells
<1>3. CASE G!EndPhase \/ (G!Throw /\ journal.phase = "setup")
  <2> DEFINE h == [G!Hook("phaseEnd") EXCEPT !.phase = journal.phase]
  <2>1. h \in Hook /\ h.hook = "phaseEnd"
    <3>1. G!Hook("phaseEnd") \in Hook
      BY HooksTyped DEF HookKinds
    <3>2. G!Hook("phaseEnd").hook = "phaseEnd"
      BY DEF G!Hook, G!Plain
    <3>3. h \in Hook
      BY <1>1, <3>1, HooksTyped
    <3> QED
      BY <3>1, <3>2, <3>3 DEF Hook
  <2>2. /\ stage = "run" /\ stage' = "run" /\ queue = <<>> /\ journal' = [journal EXCEPT !.phase = NoPhase]
        /\ journal.phase # NoPhase /\ (thrown => thrown') /\ G!Tell(<<h>>)
        /\ UNCHANGED <<opt, sarif, rtf, pipe, reader>>
    <3>1. CASE G!EndPhase
      BY <3>1 DEF G!EndPhase, G!Ready, G!sinkVars
    <3>2. CASE G!Throw /\ journal.phase = "setup"
      BY <3>2, LogsAssumption DEF G!Throw, G!Ready, G!sinkVars
    <3> QED
      BY <1>3, <3>1, <3>2
  <2> HIDE DEF h
  <2>3. Appends(<<h>>)
    BY <2>1, <2>2, OneHookTold
  <2>4. ~(journal.open /\ ~thrown)
    BY <2>2, NotOpen
  <2>5. journal'.group = journal.group /\ journal'.open = journal.open
    BY <1>1, <2>2 DEF Journals
  <2>6. ~GroupHook(h)
    BY <2>1 DEF GroupHook
  <2>7. ~(journal'.open /\ ~thrown')
    BY <2>2, <2>4, <2>5, Zenon
  <2> QED
    BY <2>1, <2>2, <2>3, <2>5, <2>6, <2>7, HookTells
<1> QED
  BY <1>2, <1>3

(* A test's hooks: its start, what it checked, and its end.                 *)
LEMMA TestBegins ==
    ASSUME LogBase, RecordBase, NEW t \in LogTests, G!BeginTest(t)
    PROVE  RecordBase'
<1> DEFINE h == [G!Hook("testStart") EXCEPT !.test = t]
           n == Len(hooks)
<1>1. h \in Hook /\ h.hook = "testStart"
  <2>1. G!Hook("testStart") \in Hook
    BY HooksTyped DEF HookKinds
  <2>2. G!Hook("testStart").hook = "testStart"
    BY DEF G!Hook, G!Plain
  <2>3. h \in Hook
    BY <2>1, HooksTyped
  <2> QED
    BY <2>1, <2>2, <2>3 DEF Hook
<1>2. /\ stage = "run" /\ stage' = "run" /\ thrown' = thrown /\ queue = <<>> /\ G!Tell(<<h>>)
      /\ journal' = [journal EXCEPT !.test = t, !.open = TRUE, !.checks = 0, !.failures = 0]
      /\ journal.group # NoGroup /\ journal.phase = NoPhase
      /\ UNCHANGED <<opt, sarif, rtf, pipe, reader>>
  BY DEF G!BeginTest, G!Ready, G!sinkVars
<1> HIDE DEF h
<1>3. Appends(<<h>>)
  BY <1>1, <1>2, OneHookTold
<1>4. /\ journal'.group = journal.group /\ journal'.phase = NoPhase /\ journal'.test = t
      /\ journal'.checks = 0 /\ journal'.failures = 0
  <2>1. journal \in Journals
    BY TypedParts DEF LogBase
  <2> QED
    BY <1>2, <2>1 DEF Journals
<1>5. n \in Nat /\ Len(hooks') = n + 1 /\ hooks'[n + 1] = h
  <2>1. Len(<<h>>) = 1 /\ <<h>>[1] = h /\ 1 \in 1..1
    BY OneHook
  <2> QED
    BY <1>3, <2>1, ToldOnAppend
<1> HIDE DEF n
<1>6. IsOpen(hooks', n + 1, journal')
  <2>1. ~\E k \in (n + 1 + 1)..(n + 1) : TRUE
    BY <1>5
  <2>2. /\ Within(hooks', n + 1 + 1, n + 1, journal'.group, journal'.test)
        /\ ~Checked(hooks', n + 1 + 1, n + 1) /\ NoneFailed(hooks', n + 1 + 1, n + 1)
    BY <2>1, Zenon DEF Within, Checked, NoneFailed
  <2>3. ~(0 > 0) /\ 0 = 0
    OBVIOUS
  <2> QED
    BY <1>1, <1>4, <1>5, <2>2, <2>3 DEF IsOpen
<1>7. OpenHolds(hooks', journal')
  <2>1. n + 1 \in 1..Len(hooks')
    BY <1>5
  <2> QED
    BY <1>2, <1>4, <1>6, <2>1, LogsAssumption DEF OpenHolds
<1>8. ~GroupHook(h)
  BY <1>1 DEF GroupHook
<1> QED
  BY <1>1, <1>2, <1>3, <1>4, <1>7, <1>8, HookTells

LEMMA StampedParts ==
    ASSUME NEW j \in Journals, NEW r \in G!Postable \cup {G!Unchecked}
    PROVE  LET e == G!Stamped(j, 0, r)
               c == G!Counted(j, r)
           IN  /\ e.hook = "event" /\ e.group = j.group /\ e.test = j.test /\ e.verb = r.verb /\ e.ok = r.ok /\ r.ok \in BOOLEAN
               /\ e \in Hook /\ c \in Journals
               /\ c.group = j.group /\ c.test = j.test /\ c.phase = j.phase /\ c.open = j.open
<1>1. r.ok \in BOOLEAN
  BY RecordsTyped
<1>2. G!Stamped(j, 0, r) \in Hook /\ G!Counted(j, r) \in Journals
  BY StampedTyped
<1>3. /\ G!Stamped(j, 0, r).hook = "event" /\ G!Stamped(j, 0, r).group = j.group /\ G!Stamped(j, 0, r).test = j.test
      /\ G!Stamped(j, 0, r).verb = r.verb /\ G!Stamped(j, 0, r).ok = r.ok
  BY DEF G!Stamped, G!Plain
<1>4. /\ G!Counted(j, r).group = j.group /\ G!Counted(j, r).test = j.test /\ G!Counted(j, r).phase = j.phase
      /\ G!Counted(j, r).open = j.open
  BY DEF G!Counted, Journals
<1> QED
  BY <1>1, <1>2, <1>3, <1>4

LEMMA RecordTells ==
    ASSUME LogBase, RecordBase, NEW r \in G!Postable, G!Post(r)
    PROVE  RecordBase'
<1> DEFINE e == G!Stamped(journal, 0, r)
<1>1. journal \in Journals
  BY TypedParts DEF LogBase
<1>2. /\ e.hook = "event" /\ e.group = journal.group /\ e.test = journal.test /\ e.verb = r.verb /\ e.ok = r.ok
      /\ r.ok \in BOOLEAN /\ e \in Hook
      /\ G!Counted(journal, r).group = journal.group /\ G!Counted(journal, r).test = journal.test
      /\ G!Counted(journal, r).phase = journal.phase /\ G!Counted(journal, r).open = journal.open
  BY <1>1, StampedParts, Zenon
<1>3. /\ stage = "run" /\ stage' = "run" /\ thrown' = thrown /\ queue = <<>> /\ G!Tell(<<e>>)
      /\ journal' = G!Counted(journal, r)
      /\ UNCHANGED <<opt, sarif, rtf, pipe, reader>>
  BY DEF G!Post, G!Ready, G!sinkVars
<1> HIDE DEF e
<1>4. Appends(<<e>>)
  BY <1>2, <1>3, OneHookTold
<1>5. Grown(hooks, hooks', <<e>>)
  BY <1>4, TellsGrow
<1>6. ASSUME journal'.open, ~thrown' PROVE OpenHolds(hooks', journal')
  <2>1. journal.open /\ ~thrown
    BY <1>2, <1>3, <1>6, Zenon
  <2>2. /\ journal.group # NoGroup /\ journal.test # NoTest /\ journal.phase = NoPhase
        /\ \E s \in 1..Len(hooks) : IsOpen(hooks, s, journal)
    BY <2>1, NotOpen
  <2>3. PICK s \in 1..Len(hooks) : IsOpen(hooks, s, journal)
    BY <2>2
  <2>4. IsOpen(hooks', s, journal')
    BY <1>1, <1>2, <1>3, <1>5, <2>1, <2>3, TestGoesOn
  <2>5. s \in 1..Len(hooks')
    <3>1. Len(hooks) \in Nat /\ Len(hooks') = Len(hooks) + Len(<<e>>) /\ Len(<<e>>) = 1
      BY <1>5 DEF Grown
    <3> QED
      BY <3>1
  <2> QED
    BY <1>2, <1>3, <2>2, <2>4, <2>5, Zenon DEF OpenHolds
<1>7. ~GroupHook(e)
  BY <1>2 DEF GroupHook
<1> QED
  BY <1>2, <1>3, <1>4, <1>6, <1>7, HookTells

LEMMA OneTestEnds ==
    ASSUME NEW hs, NEW ht, NEW h, Grown(hs, ht, <<h>>), TestsHold(hs), NEW j, NEW s \in 1..Len(hs), IsOpen(hs, s, j),
           h.group = j.group, h.test = j.test, h.ok = G!Verdict(j)
    PROVE  TestsHold(ht)
<1> SUFFICES ASSUME NEW i \in 1..Len(ht), ht[i].hook = "testEnd"
             PROVE  \E k \in 1..(i - 1) : IsTest(ht, k, i)
  BY Zenon DEF TestsHold
<1>1. Len(hs) \in Nat /\ Len(ht) = Len(hs) + 1
  <2>1. Len(<<h>>) = 1
    OBVIOUS
  <2> QED
    BY <2>1 DEF Grown
<1>2. CASE i \in 1..Len(hs)
  BY <1>2, TestsStay
<1>3. CASE i = Len(hs) + 1
  BY <1>3, TestEnds
<1> QED
  BY <1>1, <1>2, <1>3

LEMMA TwoInARow ==
    ASSUME NEW a, NEW b
    PROVE  <<a>> \o <<b>> = <<a, b>>
<1> DEFINE X == {a, b}
<1>1. a \in X /\ b \in X
  OBVIOUS
<1> HIDE DEF X
<1> DEFINE one == <<a>>
           other == <<b>>
           both == <<a, b>>
           all == one \o other
<1>2. /\ one \in Seq(X) /\ Len(one) = 1 /\ one[1] = a
      /\ other \in Seq(X) /\ Len(other) = 1 /\ other[1] = b
      /\ both \in Seq(X) /\ Len(both) = 2 /\ both[1] = a /\ both[2] = b
  BY <1>1
<1> HIDE DEF one, other, both
<1>3. /\ all \in Seq(X) /\ Len(all) = Len(one) + Len(other)
      /\ \A i \in 1..(Len(one) + Len(other)) : all[i] = IF i <= Len(one) THEN one[i] ELSE other[i - Len(one)]
  BY <1>2, ConcatProperties
<1> HIDE DEF all
<1>4. Len(all) = 2 /\ all[1] = a /\ all[2] = b
  BY <1>2, <1>3
<1>5. \A i \in 1..2 : i = 1 \/ i = 2
  OBVIOUS
<1>6. all = both
  BY <1>2, <1>3, <1>4, <1>5, SeqEqual
<1> QED
  BY <1>6 DEF all, both, one, other

LEMMA TestIsOver ==
    ASSUME LogBase, RecordBase, G!EndTest
    PROVE  RecordBase'
<1> DEFINE none == journal.checks = 0
           j == IF none THEN G!Counted(journal, G!Unchecked) ELSE journal
           h == [G!Hook("testEnd") EXCEPT !.ok = G!Verdict(j), !.group = journal.group, !.test = journal.test]
           e == G!Stamped(journal, 0, G!Unchecked)
           new == IF none THEN <<e, h>> ELSE <<h>>
<1>1. journal \in Journals /\ journal.group \in Groups \cup {NoGroup} /\ journal.test \in LogTests \cup {NoTest}
  BY TypedParts DEF LogBase
<1>2. /\ e.hook = "event" /\ e.group = journal.group /\ e.test = journal.test /\ e.verb = G!Unchecked.verb
      /\ e.ok = G!Unchecked.ok /\ G!Unchecked.ok \in BOOLEAN /\ e \in Hook
      /\ G!Counted(journal, G!Unchecked) \in Journals
      /\ G!Counted(journal, G!Unchecked).group = journal.group /\ G!Counted(journal, G!Unchecked).test = journal.test
  <2>1. G!Unchecked \in G!Postable \cup {G!Unchecked}
    OBVIOUS
  <2> QED
    BY <1>1, <2>1, StampedParts, Zenon
<1>3. /\ stage = "run" /\ stage' = "run" /\ thrown' = thrown /\ ~thrown /\ queue = <<>> /\ journal.open
      /\ UNCHANGED <<opt, sarif, rtf, pipe, reader>>
  BY DEF G!EndTest, G!Ready, G!sinkVars
<1>4. /\ journal' = [j EXCEPT !.open = FALSE, !.test = NoTest]
      /\ G!Tell(new)
  <2>1. CASE none
    <3>1. G!Closing(journal) = <<G!Unchecked>> /\ <<G!Unchecked>> # <<>> /\ <<G!Unchecked>>[1] = G!Unchecked
      BY <1>3, <2>1 DEF G!Closing
    <3>2. <<e>> \o <<h>> = <<e, h>>
      BY TwoInARow
    <3>3. journal' = [j EXCEPT !.open = FALSE, !.test = NoTest] /\ G!Tell(<<e>> \o <<h>>)
      BY <2>1, <3>1 DEF G!EndTest
    <3> QED
      BY <2>1, <3>2, <3>3, Zenon
  <2>2. CASE ~none
    <3>1. G!Closing(journal) = <<>>
      BY <2>2 DEF G!Closing
    <3>2. <<>> \o <<h>> = <<h>>
      OBVIOUS
    <3>3. journal' = [j EXCEPT !.open = FALSE, !.test = NoTest] /\ G!Tell(<<>> \o <<h>>)
      BY <2>2, <3>1 DEF G!EndTest
    <3> QED
      BY <2>2, <3>2, <3>3, Zenon
  <2> QED
    BY <2>1, <2>2
<1>5. j \in Journals /\ j.group = journal.group /\ j.test = journal.test
  BY <1>1, <1>2
<1>6. h \in Hook /\ h.hook = "testEnd" /\ h.ok = G!Verdict(j) /\ h.group = j.group /\ h.test = j.test
  <2>1. G!Hook("testEnd") \in Hook
    BY HooksTyped DEF HookKinds
  <2>2. G!Hook("testEnd").hook = "testEnd"
    BY DEF G!Hook, G!Plain
  <2>3. G!Verdict(j) \in BOOLEAN
    BY DEF G!Verdict
  <2> HIDE DEF j
  <2> DEFINE v == G!Verdict(j)
  <2>4. v \in BOOLEAN
    BY <2>3
  <2>5. h = [G!Hook("testEnd") EXCEPT !.ok = v, !.group = journal.group, !.test = journal.test]
    OBVIOUS
  <2> HIDE DEF v, h
  <2>6. h \in Hook /\ h.hook = "testEnd" /\ h.ok = v /\ h.group = journal.group /\ h.test = journal.test
    BY <1>1, <2>1, <2>2, <2>4, <2>5 DEF Hook
  <2> QED
    BY <1>5, <2>6 DEF v
<1> HIDE DEF e, h
<1>7. new \in Seq(Hook) /\ new # <<>>
  BY <1>2, <1>6
<1>8. Appends(new)
  BY <1>3, <1>4, <1>7, Zenon DEF Appends, G!Tell
<1>9. Grown(hooks, hooks', new)
  BY <1>8, TellsGrow
<1>10. TestsHold(hooks)
  BY RecordParts DEF Story
<1>11. PICK s \in 1..Len(hooks) : IsOpen(hooks, s, journal)
  BY <1>3, NotOpen
<1>12. TestsHold(hooks')
  <2>1. CASE ~none
    <3>1. Grown(hooks, hooks', <<h>>) /\ j = journal
      BY <1>9, <2>1
    <3> QED
      BY <1>6, <1>10, <1>11, <3>1, OneTestEnds
  <2>2. CASE none
    <3> DEFINE mid == hooks \o <<e>>
    <3>1. Len(hooks) \in Nat /\ hooks \in Seq(Hook) /\ <<e>> \in Seq(Hook) /\ Len(<<e>>) = 1 /\ <<e>>[1] = e
      BY <1>2, ToldFacts
    <3>2. /\ Len(mid) = Len(hooks) + 1 /\ mid[Len(hooks) + 1] = e /\ \A i \in 1..Len(hooks) : mid[i] = hooks[i]
      <4> DEFINE one == <<e>>
      <4>1. one \in Seq(Hook) /\ Len(one) = 1 /\ one[1] = e /\ mid = hooks \o one
        BY <3>1
      <4> HIDE DEF one, mid
      <4>2. /\ Len(mid) = Len(hooks) + Len(one)
            /\ \A i \in 1..(Len(hooks) + Len(one)) : mid[i] = IF i <= Len(hooks) THEN hooks[i] ELSE one[i - Len(hooks)]
        BY <3>1, <4>1, ConcatProperties
      <4> QED
        BY <3>1, <4>1, <4>2
    <3> HIDE DEF mid
    <3>3. Grown(hooks, mid, <<e>>)
      <4>1. \A i \in 1..1 : i = 1
        OBVIOUS
      <4> QED
        BY <3>1, <3>2, <4>1 DEF Grown, Same
    <3>4. Grown(mid, hooks', <<h>>)
      <4>1. Len(new) = 2 /\ new[1] = e /\ new[2] = h
        BY <2>2
      <4>2. /\ Len(hooks') = Len(hooks) + 2 /\ hooks'[Len(hooks) + 1] = e /\ hooks'[Len(hooks) + 2] = h
            /\ \A i \in 1..Len(hooks) : hooks'[i] = hooks[i]
        <5>1. 1 \in 1..2 /\ 2 \in 1..2
          OBVIOUS
        <5> QED
          BY <1>9, <4>1, <5>1 DEF Grown, Same
      <4>3. \A i \in 1..Len(mid) : hooks'[i] = mid[i]
        <5>1. \A i \in 1..(Len(hooks) + 1) : i \in 1..Len(hooks) \/ i = Len(hooks) + 1
          BY <3>1
        <5> QED
          BY <3>2, <4>2, <5>1
      <4>4. /\ Len(mid) \in Nat /\ Len(hooks') = Len(mid) + 1 /\ Len(mid) + 1 = Len(hooks) + 2 /\ Len(<<h>>) = 1 /\ <<h>>[1] = h
            /\ \A i \in 1..1 : i = 1
        BY <3>1, <3>2, <4>2
      <4> QED
        BY <4>2, <4>3, <4>4 DEF Grown, Same
    <3>5. IsOpen(mid, s, j) /\ s \in 1..Len(mid)
      <4>1. j = G!Counted(journal, G!Unchecked)
        BY <2>2
      <4>2. IsOpen(mid, s, G!Counted(journal, G!Unchecked))
        BY <1>1, <1>2, <1>3, <1>11, <3>3, TestGoesOn
      <4> QED
        BY <3>1, <3>2, <4>1, <4>2
    <3>6. TestsHold(mid)
      <4>1. \A i \in 1..Len(<<e>>) : <<e>>[i].hook # "testEnd"
        <5>1. \A i \in 1..1 : i = 1
          OBVIOUS
        <5> QED
          BY <3>1, <5>1, <1>2
      <4> QED
        BY <1>10, <3>3, <4>1, NoTestEnds
    <3> HIDE DEF j
    <3> QED
      BY <1>6, <3>4, <3>5, <3>6, OneTestEnds
  <2> QED
    BY <2>1, <2>2
<1>13. /\ Len(new) \in {1, 2} /\ new[1].hook \in {"event", "testEnd"} /\ new[1].group = journal.group
       /\ \A i \in 1..Len(new) : new[i].hook \in {"event", "testEnd"}
  <2>1. CASE none
    <3>1. Len(new) = 2 /\ new[1] = e /\ new[2] = h
      BY <2>1
    <3>2. \A i \in 1..2 : i = 1 \/ i = 2
      OBVIOUS
    <3> HIDE DEF new
    <3> QED
      BY <1>2, <1>6, <3>1, <3>2
  <2>2. CASE ~none
    <3>1. Len(new) = 1 /\ new[1] = h
      BY <2>2
    <3>2. \A i \in 1..1 : i = 1
      OBVIOUS
    <3> HIDE DEF new
    <3> QED
      BY <1>5, <1>6, <3>1, <3>2
  <2> QED
    BY <2>1, <2>2
<1>14. journal'.group = journal.group /\ ~journal'.open
  <2> HIDE DEF j
  <2> QED
    BY <1>4, <1>5 DEF Journals
<1> HIDE DEF new, j
<1>15. JournalTells(new)
  <2>1. \A i \in 1..Len(new) : ~GroupHook(new[i]) /\ new[i].hook # "testStart"
    BY <1>13 DEF GroupHook
  <2> QED
    BY <1>3, <1>8, <1>13, <1>14, <2>1 DEF JournalTells
<1>16. Story'
  <2>1. Story
    BY RecordParts
  <2>2. \A i \in 1..Len(new) : new[i].hook # "runEnd"
    BY <1>13
  <2> QED
    BY <1>3, <1>9, <1>12, <1>14, <2>1, <2>2, StoryGoesOn
<1> QED
  BY <1>15, <1>16, JournalRecords

-----------------------------------------------------------------------------
(* The steps the journal and the logs have no part in, and the ends of a run. *)

LEMMA StoryStays ==
    ASSUME Story, UNCHANGED <<hooks, journal>>, thrown => thrown',
           stage' \in {"ending", "exited", "dead"} \/ stage \notin {"ending", "exited", "dead"}
    PROVE  Story'
  BY Zenon DEF Story

LEMMA SarifStays ==
    ASSUME SarifHolds, opt.logs => LogsToldAsBefore, UNCHANGED <<opt, hooks, journal>>,
           \/ sarif' = sarif
           \/ /\ ~EndTold(hooks, SarifTold)
              /\ sarif'.group = sarif.group /\ sarif'.rules = sarif.rules /\ sarif'.results = sarif.results
    PROVE  SarifHolds'
<1>1. opt' = opt /\ hooks' = hooks /\ journal' = journal
  OBVIOUS
<1>2. CASE ~opt.logs
  BY <1>1, <1>2, Zenon DEF SarifHolds
<1>3. CASE opt.logs
  <2>1. SarifTold' = SarifTold
    BY <1>3, Zenon DEF LogsToldAsBefore
  <2> QED
    BY <1>1, <1>3, <2>1, Zenon DEF SarifHolds
<1> QED
  BY <1>2, <1>3

LEMMA NothingTold ==
    ASSUME RecordBase, opt.logs => LogsToldAsBefore, UNCHANGED <<opt, stage, journal, thrown, hooks, sarif, rtf>>
    PROVE  RecordBase'
<1>1. DocumentsTyped /\ Story /\ SarifHolds /\ RtfHolds
  BY Zenon DEF RecordBase
<1>2. UNCHANGED <<hooks, journal>> /\ stage' = stage /\ thrown' = thrown
  OBVIOUS
<1>3. Story'
  BY <1>1, <1>2, StoryStays
<1>4. SarifHolds'
  BY <1>1, SarifStays
<1>5. RtfHolds'
  <2>1. CASE ~opt.logs
    BY <2>1, Zenon DEF RtfHolds
  <2>2. CASE opt.logs
    <3>1. RtfTold' = RtfTold
      BY <2>2, Zenon DEF LogsToldAsBefore
    <3> QED
      BY <1>1, <2>2, <3>1, Zenon DEF RtfHolds
  <2> QED
    BY <2>1, <2>2
<1> QED
  BY <1>1, <1>3, <1>4, <1>5, Zenon DEF RecordBase, DocumentsTyped

LEMMA OthersTold ==
    ASSUME LogBase, RecordBase, G!TellConsole \/ G!TellEvents
    PROVE  RecordBase'
<1>1. /\ G!Telling /\ G!Sinks[turn] \in {"Console", "Events"} /\ turn' = turn + 1
      /\ UNCHANGED <<opt, stage, journal, thrown, queue, hooks, sarif, rtf>>
  BY DEF G!TellConsole, G!TellEvents, G!runVars, G!sinkVars
<1>2. turn \in 1..Len(G!Sinks)
  BY <1>1, BaseParts DEF G!Telling
<1>3. opt.logs => turn # SarifAt /\ turn # RtfAt
  BY <1>1, <1>2, LogPlaces
<1>4. opt.logs => LogsToldAsBefore
  BY <1>1, <1>3, ToldOne DEF LogsToldAsBefore
<1> QED
  BY <1>1, <1>4, NothingTold

LEMMA NoneTold ==
    ASSUME LogBase, RecordBase, G!ScriptPrints \/ G!Read \/ G!HookDone \/ G!Over \/ UNCHANGED logVars
    PROVE  RecordBase'
<1>1. CASE G!HookDone
  <2>1. UNCHANGED <<opt, stage, journal, thrown, hooks, sarif, rtf>>
    BY <1>1 DEF G!HookDone, G!runVars, G!sinkVars
  <2> QED
    BY <1>1, <2>1, ToldByDone, NothingTold
<1>2. CASE ~G!HookDone
  <2>1. UNCHANGED <<opt, stage, journal, thrown, hooks, sarif, rtf>> /\ queue' = queue /\ turn' = turn
    BY <1>2 DEF G!ScriptPrints, G!Read, G!Over, G!runVars, G!vars, logVars
  <2>2. LogsToldAsBefore
    BY <2>1, ToldStays
  <2> QED
    BY <2>1, <2>2, NothingTold
<1> QED
  BY <1>1, <1>2

LEMMA ThrowTells ==
    ASSUME LogBase, RecordBase, G!Throw, journal.phase # "setup"
    PROVE  RecordBase'
<1>1. UNCHANGED <<opt, stage, journal, hooks, sarif, rtf>> /\ queue' = queue /\ turn' = turn /\ thrown' = TRUE /\ stage' = stage
  BY DEF G!Throw, G!sinkVars
<1>2. LogsToldAsBefore
  BY <1>1, ToldStays
<1>3. DocumentsTyped /\ Story /\ SarifHolds /\ RtfHolds
  BY Zenon DEF RecordBase
<1>4. UNCHANGED <<hooks, journal>> /\ (thrown => thrown')
  BY <1>1
<1>5. Story'
  BY <1>1, <1>3, <1>4, StoryStays
<1>6. SarifHolds'
  BY <1>1, <1>2, <1>3, SarifStays
<1>7. RtfHolds'
  BY <1>1, <1>2, <1>3, Zenon DEF RtfHolds, LogsToldAsBefore
<1> QED
  BY <1>1, <1>3, <1>5, <1>6, <1>7, Zenon DEF RecordBase, DocumentsTyped

(* Killed, or terminated by the exception of the machine log.               *)
LEMMA DeathTells ==
    ASSUME LogBase, RecordBase, G!Kill \/ G!SarifThrows
    PROVE  RecordBase'
<1>1. UNCHANGED <<opt, journal, thrown, hooks, rtf>> /\ queue' = queue /\ turn' = turn /\ stage' = "dead"
  BY DEF G!Kill, G!SarifThrows
<1>2. stage \in {"open", "run", "ending"}
  BY DEF G!Kill, G!SarifThrows, G!Telling
<1>3. LogsToldAsBefore
  BY <1>1, ToldStays
<1>4. DocumentsTyped /\ Story /\ SarifHolds /\ RtfHolds
  BY Zenon DEF RecordBase
<1>5. UNCHANGED <<hooks, journal>> /\ (thrown => thrown')
  BY <1>1
<1>6. Story'
  BY <1>1, <1>4, <1>5, StoryStays
<1>7. /\ sarif' \in SarifStates
      /\ \/ sarif' = sarif
         \/ /\ ~EndTold(hooks, SarifTold)
            /\ sarif'.group = sarif.group /\ sarif'.rules = sarif.rules /\ sarif'.results = sarif.results
  <2>1. sarif \in SarifStates
    BY <1>4 DEF DocumentsTyped
  <2>2. CASE G!Kill
    BY <2>1, <2>2 DEF G!Kill
  <2>3. CASE G!SarifThrows
    <3>1. sarif' = G!WriteLogFails(sarif) /\ G!Telling /\ G!Sinks[turn] = "Sarif"
      BY <2>3 DEF G!SarifThrows
    <3>2. /\ sarif' \in SarifStates
          /\ sarif'.group = sarif.group /\ sarif'.rules = sarif.rules /\ sarif'.results = sarif.results
      <4>1. TRUE \in BOOLEAN
        OBVIOUS
      <4> QED
        BY <2>1, <3>1, <4>1, WrittenTyped
    <3>3. SarifTold # Len(hooks)
      <4>1. turn \in 1..Len(G!Sinks) /\ queue # <<>>
        BY <3>1, BaseParts DEF G!Telling
      <4>2. turn = SarifAt
        BY <3>1, <4>1, LogPlaces
      <4>3. /\ Len(hooks) \in Nat /\ Len(queue) \in Nat /\ Len(queue) # 0 /\ turn \in Nat /\ ~(turn > turn)
            /\ Len(hooks) - Len(queue) + 0 # Len(hooks)
        <5>1. Len(hooks) \in Nat /\ Len(queue) \in Nat /\ Len(queue) # 0 /\ turn \in Nat
          BY <4>1, BaseParts
        <5>2. \A h, q \in Nat : q # 0 => h - q + 0 # h
          OBVIOUS
        <5>3. \A t \in Nat : ~(t > t)
          OBVIOUS
        <5> QED
          BY <5>1, <5>2, <5>3, Zenon
      <4>4. SarifTold = Len(hooks) - Len(queue) + 0
        BY <4>2, <4>3, Zenon DEF SarifTold, ToldTo
      <4> QED
        BY <4>3, <4>4
    <3> QED
      BY <3>2, <3>3 DEF EndTold
  <2> QED
    BY <2>2, <2>3
<1>8. SarifHolds'
  BY <1>1, <1>3, <1>4, <1>7, SarifStays
<1>9. RtfHolds'
  <2>1. stage # "starting" /\ stage # "exited" /\ stage' # "starting" /\ stage' # "exited"
    BY <1>1, <1>2
  <2> QED
    BY <1>1, <1>3, <1>4, <2>1, Zenon DEF RtfHolds, LogsToldAsBefore
<1> QED
  BY <1>1, <1>4, <1>6, <1>7, <1>8, <1>9, Zenon DEF RecordBase, DocumentsTyped

(* Before the first hook.                                                   *)
LEMMA NoHookTold ==
    ASSUME LogBase, stage \in {"starting", "open"}
    PROVE  SarifTold = 0 /\ RtfTold = 0 /\ Len(hooks) = 0 /\ hooks = <<>> /\ ~EndTold(hooks, SarifTold)
<1>1. hooks = <<>> /\ Len(hooks) = 0
  BY DEF LogBase, QueueIsRest
<1>2. SarifTold \in Nat /\ RtfTold \in Nat /\ RtfTold <= SarifTold /\ SarifTold <= 0
  BY <1>1, ToldFacts
<1> QED
  BY <1>1, <1>2 DEF EndTold

LEMMA OpenTells ==
    ASSUME LogBase, RecordBase, G!OpenLogs
    PROVE  RecordBase'
<1>1. /\ UNCHANGED <<opt, journal, thrown, hooks>> /\ queue' = queue /\ turn' = turn /\ stage = "starting"
      /\ stage' \in {"open", "exited"}
  BY DEF G!OpenLogs
<1>2. LogsToldAsBefore
  BY <1>1, ToldStays
<1>3. DocumentsTyped /\ Story /\ SarifHolds /\ RtfHolds
  BY Zenon DEF RecordBase
<1>4. SarifTold = 0 /\ RtfTold = 0 /\ hooks = <<>> /\ ~EndTold(hooks, SarifTold) /\ ~EndTold(hooks, RtfTold)
  BY <1>1, NoHookTold
<1>5. UNCHANGED <<hooks, journal>> /\ (thrown => thrown') /\ stage \notin {"ending", "exited", "dead"}
  BY <1>1
<1>6. Story'
  BY <1>3, <1>5, StoryStays
<1>7. sarif \in SarifStates /\ rtf \in RtfStates /\ (opt.logs => rtf.lines = <<>> /\ ~rtf.final)
  BY <1>1, RecordParts
<1>8. sarif' \in SarifStates /\ sarif'.group = sarif.group /\ sarif'.rules = sarif.rules /\ sarif'.results = sarif.results
  <2>1. sarif' \in {sarif, G!WriteLog(sarif, FALSE)}
    BY DEF G!OpenLogs
  <2>2. FALSE \in BOOLEAN
    OBVIOUS
  <2> QED
    BY <1>7, <2>1, <2>2, WrittenTyped
<1>9. SarifHolds'
  BY <1>1, <1>2, <1>3, <1>4, <1>8, SarifStays
<1>10. At(hooks, LinesIn(hooks, 0)) = <<>>
  <2> DEFINE none == LinesIn(hooks, 0)
  <2>1. none = {}
    <3>1. \A k : k \notin 1..0
      OBVIOUS
    <3> QED
      BY <3>1, Zenon DEF LinesIn
  <2> HIDE DEF none
  <2>2. none \in SUBSET (DOMAIN hooks) /\ Cardinality(none) = 0
    <3>1. Cardinality({}) = 0
      BY FS_EmptySet
    <3> QED
      BY <2>1, <3>1
  <2>3. hooks \in Seq(Hook)
    BY BaseParts
  <2>4. Len(At(hooks, none)) = 0 /\ At(hooks, none) \in Seq(Hook)
    BY <2>2, <2>3, AtPlaces
  <2> QED
    BY <2>4, EmptySeq DEF none
<1>11. CASE stage' = "open"
  <2>1. rtf' = IF opt.logs THEN [rtf EXCEPT !.lines = @ \o <<>>, !.closed = TRUE] ELSE rtf
    BY <1>11, Zenon DEF G!OpenLogs, G!FlushDocument
  <2>2. CASE opt.logs
    <3>1. rtf.lines \o <<>> = <<>>
      <4>1. <<>> \o <<>> = <<>>
        OBVIOUS
      <4> QED
        BY <1>7, <2>2, <4>1
    <3>2. rtf' = [rtf EXCEPT !.lines = <<>>, !.closed = TRUE]
      BY <2>1, <2>2, <3>1
    <3>3. rtf' \in RtfStates /\ rtf'.lines = <<>> /\ rtf'.closed /\ ~rtf'.final
      BY <1>7, <2>2, <3>2 DEF RtfStates
    <3>4. RtfHolds'
      BY <1>1, <1>2, <1>4, <1>10, <1>11, <3>3 DEF RtfHolds, LogsToldAsBefore
    <3> QED
      BY <1>6, <1>8, <1>9, <3>3, <3>4, Zenon DEF RecordBase, DocumentsTyped
  <2>3. CASE ~opt.logs
    <3>1. rtf' = rtf
      BY <2>1, <2>3
    <3>2. RtfHolds'
      BY <1>1, <2>3, Zenon DEF RtfHolds
    <3> QED
      BY <1>6, <1>7, <1>8, <1>9, <3>1, <3>2, Zenon DEF RecordBase, DocumentsTyped
  <2> QED
    BY <2>2, <2>3
<1>12. CASE stage' = "exited"
  <2>1. rtf' = rtf /\ opt.logs
    BY <1>12 DEF G!OpenLogs
  <2>2. RtfHolds'
    BY <1>1, <1>2, <1>4, <1>7, <1>12, <2>1 DEF RtfHolds, LogsToldAsBefore
  <2> QED
    BY <1>6, <1>7, <1>8, <1>9, <2>1, <2>2, Zenon DEF RecordBase, DocumentsTyped
<1> QED
  BY <1>1, <1>11, <1>12

(* ~RunLogs: every hook is told, and the files are what they are.           *)
LEMMA ExitTells ==
    ASSUME LogBase, RecordBase, G!RefuseReadings \/ G!Exit
    PROVE  RecordBase'
<1>1. /\ UNCHANGED <<opt, journal, thrown, hooks>> /\ queue' = queue /\ turn' = turn
      /\ stage \in {"open", "ending"} /\ stage' = "exited" /\ \E ok \in BOOLEAN : G!Destroy(ok)
  BY DEF G!RefuseReadings, G!Exit, G!Destroy
<1>2. LogsToldAsBefore
  BY <1>1, ToldStays
<1>3. DocumentsTyped /\ Story /\ SarifHolds /\ RtfHolds
  BY Zenon DEF RecordBase
<1>4. UNCHANGED <<hooks, journal>> /\ (thrown => thrown')
  BY <1>1
<1>5. Story'
  BY <1>1, <1>3, <1>4, StoryStays
<1>6. /\ sarif \in SarifStates /\ rtf \in RtfStates
      /\ opt.logs => /\ EndTold(hooks, SarifTold) => Written(sarif, hooks[SarifTold].ok)
                     /\ rtf.closed /\ rtf.lines = At(hooks, LinesIn(hooks, RtfTold))
  BY <1>1, RecordParts
<1>7. /\ rtf' = (IF opt.logs THEN [rtf EXCEPT !.final = TRUE, !.closed = TRUE] ELSE rtf)
      /\ sarif' \in {sarif, G!WriteLog(sarif, FALSE), G!WriteLogFails(sarif)}
      /\ sarif' = sarif \/ (opt.logs /\ ~sarif.written)
  BY <1>1 DEF G!Destroy, G!FinishDocument
<1>8. RtfTold = Len(hooks)
  <2>1. queue = <<>>
    BY DEF G!RefuseReadings, G!Exit, LogBase, QueueIsRest
  <2>2. Len(hooks) \in Nat /\ Len(queue) = 0 /\ RtfTold \in Nat /\ RtfTold <= Len(hooks) /\ Len(hooks) - Len(queue) <= RtfTold
    BY <2>1, ToldFacts
  <2> QED
    BY <2>2
<1>9. /\ sarif' \in SarifStates
      /\ \/ sarif' = sarif
         \/ /\ ~EndTold(hooks, SarifTold)
            /\ sarif'.group = sarif.group /\ sarif'.rules = sarif.rules /\ sarif'.results = sarif.results
  <2>1. /\ sarif' \in SarifStates
        /\ sarif'.group = sarif.group /\ sarif'.rules = sarif.rules /\ sarif'.results = sarif.results
    <3>1. FALSE \in BOOLEAN
      OBVIOUS
    <3> QED
      BY <1>6, <1>7, <3>1, WrittenTyped
  <2>2. sarif' = sarif \/ ~EndTold(hooks, SarifTold)
    BY <1>6, <1>7, Zenon DEF Written
  <2> QED
    BY <2>1, <2>2
<1>10. SarifHolds'
  BY <1>1, <1>2, <1>3, <1>9, SarifStays
<1>11. rtf' \in RtfStates
  BY <1>6, <1>7 DEF RtfStates
<1>12. RtfHolds'
  <2>1. CASE ~opt.logs
    BY <1>1, <2>1, Zenon DEF RtfHolds
  <2>2. CASE opt.logs
    <3>1. rtf'.final /\ rtf'.closed /\ rtf'.lines = rtf.lines
      BY <1>6, <1>7, <2>2 DEF RtfStates
    <3>2. stage' = "exited" /\ stage' # "starting" /\ RtfTold' = RtfTold /\ hooks' = hooks /\ opt' = opt
      BY <1>1, <1>2 DEF LogsToldAsBefore
    <3>3. stage' \in {"ending", "exited", "dead"}
      BY <1>1
    <3> QED
      BY <1>6, <1>8, <2>2, <3>1, <3>2, <3>3, Zenon DEF RtfHolds
  <2> QED
    BY <2>1, <2>2
<1> QED
  BY <1>5, <1>9, <1>10, <1>11, <1>12, Zenon DEF RecordBase, DocumentsTyped

-----------------------------------------------------------------------------
(* The records of every run.                                                *)

LEMMA RecordInit ==
    ASSUME G!Init
    PROVE  RecordBase
<1>1. LogBase
  BY LogInit
<1>2. /\ stage = "starting" /\ hooks = <<>> /\ ~journal.open
      /\ sarif = [group |-> NoGroup, rules |-> <<>>, results |-> <<>>, written |-> FALSE, file |-> <<>>]
      /\ rtf = [lines |-> <<>>, closed |-> FALSE, final |-> FALSE]
      /\ journal.group = NoGroup
  BY DEF G!Init
<1>3. SarifTold = 0 /\ RtfTold = 0 /\ Len(hooks) = 0 /\ ~EndTold(hooks, SarifTold) /\ ~EndTold(hooks, RtfTold)
  BY <1>1, <1>2, NoHookTold
<1>4. DocumentsTyped
  BY <1>2 DEF DocumentsTyped, SarifStates, RtfStates
<1>5. ~\E i \in 1..Len(hooks) : TRUE
  BY <1>3
<1>6. Story
  BY <1>2, <1>5, Zenon DEF Story, EndIsLast, TestsHold, NoEnd
<1>7. \A k : k \notin 1..0
  OBVIOUS
<1>8. ResultsIn(hooks, 0) = {} /\ Cardinality(ResultsIn(hooks, 0)) = 0
  <2>1. ResultsIn(hooks, 0) = {}
    BY <1>7, Zenon DEF ResultsIn
  <2> QED
    BY <2>1, FS_EmptySet
<1>9. ResultsHold(sarif.results, hooks, 0, journal.group)
  <2>1. Len(sarif.results) = 0
    BY <1>2
  <2> QED
    BY <1>8, <2>1, Zenon DEF ResultsHold
<1>10. RulesHold(sarif.rules, sarif.results)
  <2>1. DOMAIN sarif.rules = {} /\ DOMAIN sarif.results = {}
    BY <1>2
  <2> QED
    BY <2>1, Zenon DEF RulesHold
<1>11. GroupHolds(sarif.group, hooks, 0, journal.group)
  <2>1. ~\E k \in (0 + 1)..Len(hooks) : TRUE
    BY <1>3
  <2> QED
    BY <1>2, <2>1 DEF GroupHolds
<1>12. SarifHolds
  BY <1>3, <1>9, <1>10, <1>11, Zenon DEF SarifHolds
<1>13. RtfHolds
  BY <1>2, <1>3 DEF RtfHolds
<1> QED
  BY <1>4, <1>6, <1>12, <1>13 DEF RecordBase

LEMMA RecordStep ==
    ASSUME LogBase, RecordBase, G!Next
    PROVE  RecordBase'
<1>1. CASE \E t \in LogTests : G!BeginTest(t)
  BY <1>1, TestBegins
<1>2. CASE \E r \in G!Postable : G!Post(r)
  BY <1>2, RecordTells
<1>3. CASE \E g \in Groups : G!BeginGroup(g)
  BY <1>3, GroupTells
<1>4. CASE G!Throw
  BY <1>4, ThrowTells, PhaseTells
<1> QED
  BY <1>1, <1>2, <1>3, <1>4, OpenTells, ExitTells, RunTells, GroupTells, TestIsOver, PhaseTells,
     NoneTold, OthersTold, SarifTells, RtfTells, DeathTells, Zenon DEF G!Next

LEMMA RecordAlways == McSpec => [](LogBase /\ RecordBase)
<1>1. McInit => LogBase /\ RecordBase
  BY LogInit, RecordInit DEF McInit
<1>2. LogBase /\ RecordBase /\ [McNext]_mcVars => (LogBase /\ RecordBase)'
  <2> SUFFICES ASSUME LogBase, RecordBase, [McNext]_mcVars
               PROVE  LogBase' /\ RecordBase'
    OBVIOUS
  <2>1. CASE G!Next
    BY <2>1, LogStep, RecordStep
  <2>2. CASE UNCHANGED logVars
    BY <2>2, LogStays, NoneTold
  <2> QED
    BY <2>1, <2>2 DEF McNext, mcVars, logVars
<1> QED
  BY <1>1, <1>2, PTL DEF McSpec

-----------------------------------------------------------------------------
(* What the records say, from what they hold.                               *)

LEMMA FirstHooks ==
    ASSUME LogBase, NEW n \in Nat, n <= Len(hooks)
    PROVE  First(n) \in Seq(Hook) /\ Len(First(n)) = n /\ DOMAIN First(n) = 1..n /\ Same(hooks, First(n), n)
<1>1. First(n) \in Seq(Hook) /\ Len(First(n)) = n - 1 + 1 /\ \A i \in 1..(n - 1 + 1) : First(n)[i] = hooks[1 + i - 1]
  BY BaseParts, PartOf DEF First
<1>2. n - 1 + 1 = n /\ \A i \in 1..n : 1 + i - 1 = i
  OBVIOUS
<1> QED
  BY <1>1, <1>2, LenProperties DEF Same

LEMMA HumanPartIs ==
    ASSUME LogBase, NEW n \in Nat, n <= Len(hooks)
    PROVE  G!HumanPart(First(n)) = LinesTo(n)
<1>1. DOMAIN First(n) = 1..n /\ Same(hooks, First(n), n)
  BY FirstHooks
<1>2. {i \in DOMAIN First(n) : G!Composes(First(n)[i])} = LinesIn(First(n), n)
  BY <1>1, Zenon DEF LinesIn
<1>3. LinesIn(First(n), n) = LinesIn(hooks, n) /\ LinesIn(hooks, n) \in SUBSET (1..n)
  <2>1. LinesIn(First(n), n) = LinesIn(hooks, n)
    BY <1>1, PlacesStay
  <2> QED
    BY <2>1, LinePlaces
<1>4. At(First(n), LinesIn(hooks, n)) = At(hooks, LinesIn(hooks, n))
  BY <1>1, <1>3, AtStays
<1> QED
  BY <1>2, <1>3, <1>4, SamePlaces, Zenon DEF G!HumanPart, LinesTo

\* As far as a sink was told.
LEMMA ToldOfIs ==
    ASSUME LogBase, opt.logs
    PROVE  /\ G!ToldOf("Rtf") = First(RtfTold)
           /\ \E n \in Nat : n <= SarifTold /\ G!ToldOf("Events") = First(n)
<1>1. /\ turn \in Nat \ {0} /\ turn <= Len(G!Sinks) + 1 /\ Len(G!Sinks) \in Nat /\ Len(hooks) \in Nat /\ Len(queue) \in Nat
      /\ Len(queue) <= Len(hooks) /\ (queue = <<>> <=> Len(queue) = 0)
      /\ opt \in [quiet : BOOLEAN, logs : BOOLEAN, events : BOOLEAN]
  BY BaseParts
<1>2. /\ RtfAt \in Nat \ {0} /\ RtfAt <= Len(G!Sinks)
      /\ \A k \in 1..Len(G!Sinks) : G!Sinks[k] = "Rtf" <=> k = RtfAt
  BY LogPlaces
<1>3. \A k \in 1..Len(G!Sinks) : G!Sinks[k] = "Events" <=> opt.events /\ k = Len(G!Sinks)
  BY <1>1, EventsLast
<1>4. \A i : i \in 1..(turn - 1) /\ i <= Len(G!Sinks) <=> i \in 1..Len(G!Sinks) /\ turn > i
  BY <1>1
<1>5. (\E i \in 1..(turn - 1) : i <= Len(G!Sinks) /\ G!Sinks[i] = "Rtf") <=> turn > RtfAt
  <2>1. RtfAt \in 1..Len(G!Sinks)
    BY <1>1, <1>2
  <2> QED
    BY <1>2, <1>4, <2>1, Zenon
<1>6. G!ToldOf("Rtf") = First(RtfTold)
  BY <1>5, Zenon DEF G!ToldOf, First, RtfTold, ToldTo
<1> DEFINE before == \E i \in 1..(turn - 1) : i <= Len(G!Sinks) /\ G!Sinks[i] = "Events"
           m == Len(hooks) - Len(queue) + (IF queue # <<>> /\ before THEN 1 ELSE 0)
<1>7. before => opt.events /\ turn > Len(G!Sinks)
  BY <1>3, <1>4, Zenon
<1>8. /\ SarifTold \in Nat /\ RtfTold \in Nat /\ RtfTold <= SarifTold
      /\ ToldTo(Len(G!Sinks)) \in Nat /\ ToldTo(Len(G!Sinks)) <= RtfTold
      /\ Len(hooks) - Len(queue) <= RtfTold
  BY ToldFacts
<1>9. m \in Nat /\ m <= SarifTold
  <2> HIDE DEF before
  <2>1. CASE queue # <<>> /\ before
    <3>1. ToldTo(Len(G!Sinks)) = Len(hooks) - Len(queue) + 1
      BY <1>7, <2>1, Zenon DEF ToldTo
    <3>2. m = Len(hooks) - Len(queue) + 1
      BY <2>1, Zenon
    <3> HIDE DEF m
    <3> QED
      BY <1>8, <3>1, <3>2
  <2>2. CASE ~(queue # <<>> /\ before)
    <3>1. m = Len(hooks) - Len(queue) + 0
      BY <2>2, Zenon
    <3> HIDE DEF m
    <3> QED
      BY <1>1, <1>8, <3>1
  <2> QED
    BY <2>1, <2>2
<1>10. G!ToldOf("Events") = First(m)
  BY Zenon DEF G!ToldOf, First
<1> HIDE DEF m
<1> QED
  BY <1>6, <1>9, <1>10

(* The human log is a whole document of what it was told, at any time.      *)
LEMMA HumanLogIsWhole ==
    ASSUME LogBase, RecordBase
    PROVE  G!HumanLogKeepsUp
<1> SUFFICES ASSUME opt.logs, stage # "starting", stage = "exited" => rtf.final
             PROVE  rtf.closed /\ rtf.lines = G!HumanPart(G!ToldOf("Rtf"))
  BY Zenon DEF G!HumanLogKeepsUp
<1>1. rtf.closed /\ rtf.lines = LinesTo(RtfTold)
  BY RecordParts DEF LinesTo
<1>2. RtfTold \in Nat /\ RtfTold <= Len(hooks)
  BY ToldFacts
<1>3. G!ToldOf("Rtf") = First(RtfTold)
  BY ToldOfIs
<1>4. G!HumanPart(First(RtfTold)) = LinesTo(RtfTold)
  BY <1>2, HumanPartIs
<1> QED
  BY <1>1, <1>3, <1>4

(* The counts of RunLogs, seen through its instance.                        *)
LEMMA SameCount ==
    ASSUME NEW S
    PROVE  G!Cardinality(S) = Cardinality(S)
  BY DEF G!Cardinality, Cardinality

(* The end on the page: nothing is missing from any of the three.           *)
LEMMA EndIsWhole ==
    ASSUME LogBase, RecordBase
    PROVE  G!EndMeansEverything
<1> SUFFICES ASSUME NEW i \in DOMAIN reader.events, reader.events[i].hook = "runEnd"
             PROVE  /\ reader.events = G!Said
                    /\ opt.logs =>
                         /\ rtf.final /\ rtf.lines = G!HumanPart(hooks)
                         /\ \E file \in G!ToSet(sarif.file) :
                              /\ file.allPassed = reader.events[i].ok
                              /\ Len(file.results) = G!Cardinality({k \in DOMAIN hooks : G!IsResult(hooks[k])})
                              /\ \A r \in G!ToSet(file.results) :
                                   G!Cardinality({k \in DOMAIN file.rules : file.rules[k] = r.rule}) = 1
  BY Zenon DEF G!EndMeansEverything
<1> DEFINE n == Len(hooks)
           R == Readable(hooks)
<1>1. /\ reader.events \in Seq(Hook) /\ hooks \in Seq(Hook) /\ n \in Nat /\ DOMAIN hooks = 1..n
      /\ Len(reader.events) \in Nat /\ DOMAIN reader.events = 1..Len(reader.events)
      /\ Len(reader.events) <= Len(Said) /\ Len(Said) \in Nat /\ Said \in Seq(Hook)
      /\ \A k \in DOMAIN reader.events : reader.events[k] = Said[k]
  BY BaseParts, WirePlaces, SaidPlaces, ToldIsSaid DEF LogBase, WireIsRest
<1>2. /\ R \in SUBSET (1..n) /\ R \in SUBSET Nat /\ IsFiniteSet(R) /\ Len(Said) = Cardinality(R)
      /\ \A k \in R : Said[Rank(R, k)] = hooks[k]
  BY <1>1, SaidPlaces
<1>3. EndIsLast(hooks)
  BY RecordParts DEF Story
<1> HIDE DEF R
<1>4. /\ n \in R /\ Rank(R, n) = Len(Said) /\ Len(reader.events) = Len(Said)
      /\ n > 0 /\ hooks[n].hook = "runEnd" /\ reader.events[i].ok = hooks[n].ok
  <2>1. i \in 1..Cardinality(R) /\ Said[i] = reader.events[i]
    BY <1>1, <1>2
  <2>2. PICK k \in R : Rank(R, k) = i
    BY <1>2, <2>1, RankOnto
  <2>3. k \in 1..n /\ hooks[k] = reader.events[i]
    BY <1>2, <2>1, <2>2
  <2>4. k = n
    BY <1>3, <2>3 DEF EndIsLast
  <2>5. {m \in R : m <= n} = R
    <3>1. \A m \in 1..n : m <= n
      BY <1>1
    <3>2. \A m \in R : m <= n
      BY <3>1, <1>2, Zenon
    <3> QED
      BY <3>2, Zenon
  <2>6. Rank(R, n) = Len(Said)
    BY <1>2, <2>5, Zenon DEF Rank
  <2> QED
    BY <1>1, <2>1, <2>2, <2>3, <2>4, <2>6
<1>5. reader.events = G!Said
  BY <1>1, <1>4, SeqEqual, SameSaid
<1>6. ASSUME opt.logs
      PROVE  SarifTold = n /\ RtfTold = n
  <2>1. opt.events
    <3>1. reader.events # <<>>
      BY <1>1
    <3> QED
      BY <3>1 DEF LogBase, WireIsRest
  <2>2. Len(reader.events) + Cardinality(JsonEnds(Wire)) = Rank(R, ToldTo(Len(G!Sinks)))
    BY <2>1 DEF LogBase, WireIsRest, SaidTo, R
  <2>3. Cardinality(JsonEnds(Wire)) \in Nat
    BY WirePlaces, JsonPlaces
  <2>4. /\ SarifTold \in Nat /\ RtfTold \in Nat /\ RtfTold <= SarifTold /\ SarifTold <= n
        /\ ToldTo(Len(G!Sinks)) \in Nat /\ ToldTo(Len(G!Sinks)) <= RtfTold
    BY <1>6, ToldFacts
  <2> DEFINE d == ToldTo(Len(G!Sinks))
  <2> HIDE DEF n, d
  <2>5. ~(d < n)
    <3>1. d < n => Rank(R, d) < Rank(R, n)
      BY <1>4, <1>2, <2>4, RankGrows DEF d
    <3>2. Rank(R, d) >= Rank(R, n)
      BY <1>1, <1>4, <2>2, <2>3 DEF d
    <3> QED
      BY <3>1, <3>2, <1>1, <1>4, <2>2, <2>3 DEF d
  <2> QED
    BY <1>1, <2>4, <2>5 DEF d
<1>7. ASSUME opt.logs
      PROVE  rtf.final /\ rtf.lines = G!HumanPart(hooks)
  <2>1. EndTold(hooks, RtfTold)
    BY <1>4, <1>6, <1>7 DEF EndTold
  <2>2. rtf.final
    BY <1>7, <2>1, RecordParts
  <2>3. stage # "starting"
    <3>1. stage \in {"ending", "exited", "dead"}
      BY <1>7, <2>2, RecordParts
    <3> QED
      BY <3>1
  <2>4. G!HumanLogKeepsUp
    BY HumanLogIsWhole
  <2>5. rtf.lines = LinesTo(n)
    BY <1>6, <1>7, <2>2, <2>3, RecordParts, Zenon DEF LinesTo
  <2>6. LinesTo(n) = G!HumanPart(hooks)
    <3>1. {k \in DOMAIN hooks : G!Composes(hooks[k])} = LinesIn(hooks, n)
      BY <1>1, Zenon DEF LinesIn
    <3> QED
      BY <3>1, SamePlaces, Zenon DEF G!HumanPart, LinesTo
  <2> QED
    BY <2>2, <2>5, <2>6
<1>8. ASSUME opt.logs
      PROVE  \E file \in G!ToSet(sarif.file) :
               /\ file.allPassed = reader.events[i].ok
               /\ Len(file.results) = G!Cardinality({k \in DOMAIN hooks : G!IsResult(hooks[k])})
               /\ \A r \in G!ToSet(file.results) :
                    G!Cardinality({k \in DOMAIN file.rules : file.rules[k] = r.rule}) = 1
  <2> DEFINE d == [rules |-> sarif.rules, results |-> sarif.results, allPassed |-> hooks[n].ok]
  <2>1. EndTold(hooks, SarifTold)
    BY <1>4, <1>6, <1>8 DEF EndTold
  <2>2. /\ Written(sarif, hooks[n].ok) /\ ResultsHold(sarif.results, hooks, n, journal.group)
        /\ RulesHold(sarif.rules, sarif.results)
    BY <1>6, <1>8, <2>1, RecordParts
  <2>3. d \in G!ToSet(sarif.file)
    <3>1. sarif.file = <<d>>
      BY <2>2, Zenon DEF Written
    <3> HIDE DEF d
    <3>2. 1 \in DOMAIN sarif.file /\ sarif.file[1] = d
      BY <3>1
    <3> QED
      BY <3>2, Zenon DEF G!ToSet
  <2>4. d.allPassed = hooks[n].ok /\ d.results = sarif.results /\ d.rules = sarif.rules
    OBVIOUS
  <2>5. Len(sarif.results) = G!Cardinality({k \in DOMAIN hooks : G!IsResult(hooks[k])})
    <3>1. {k \in DOMAIN hooks : G!IsResult(hooks[k])} = ResultsIn(hooks, n)
      BY <1>1, Zenon DEF ResultsIn
    <3>2. Len(sarif.results) = Cardinality(ResultsIn(hooks, n))
      BY <2>2, Zenon DEF ResultsHold
    <3> QED
      BY <3>1, <3>2, SameCount
  <2>6. ASSUME NEW r \in G!ToSet(sarif.results)
        PROVE  G!Cardinality({k \in DOMAIN sarif.rules : sarif.rules[k] = r.rule}) = 1
    <3>1. PICK l \in DOMAIN sarif.results : sarif.results[l] = r
      BY Zenon DEF G!ToSet
    <3>2. PICK a \in DOMAIN sarif.rules : sarif.rules[a] = r.rule
      BY <2>2, <3>1, Zenon DEF RulesHold
    <3>3. {k \in DOMAIN sarif.rules : sarif.rules[k] = r.rule} = {a}
      BY <2>2, <3>2, Zenon DEF RulesHold
    <3>4. Cardinality({a}) = 1
      BY FS_Singleton
    <3> QED
      BY <3>3, <3>4, SameCount
  <2> HIDE DEF d
  <2>7. /\ d.allPassed = reader.events[i].ok
        /\ Len(d.results) = G!Cardinality({k \in DOMAIN hooks : G!IsResult(hooks[k])})
    BY <1>4, <2>4, <2>5
  <2>8. ASSUME NEW r \in G!ToSet(d.results)
        PROVE  G!Cardinality({k \in DOMAIN d.rules : d.rules[k] = r.rule}) = 1
    <3>1. r \in G!ToSet(sarif.results)
      BY <2>4
    <3>2. {k \in DOMAIN d.rules : d.rules[k] = r.rule} = {k \in DOMAIN sarif.rules : sarif.rules[k] = r.rule}
      BY <2>4
    <3> QED
      BY <2>6, <3>1, <3>2, Zenon
  <2> QED
    BY <2>3, <2>7, <2>8, Zenon
<1> QED
  BY <1>5, <1>7, <1>8

(* A test in the machine log: from its start to its end, and no other's.    *)
LEMMA TestInLog ==
    ASSUME LogBase, RecordBase, opt.logs, NEW i \in 1..SarifTold, hooks[i].hook = "testEnd"
    PROVE  LET upTo == Cardinality(ResultsIn(hooks, i)) IN
           \E s \in 1..(i - 1) : \E start \in 1..upTo :
             /\ IsTest(hooks, s, i) /\ upTo \in Nat
             /\ sarif.results[start].hook = "testStart" /\ sarif.results[start].group = hooks[i].group
             /\ \A l \in (start + 1)..upTo :
                  \E k \in (s + 1)..(i - 1) : sarif.results[l] = hooks[k]
             /\ \A k \in (s + 1)..(i - 1) :
                  \E l \in (start + 1)..upTo : sarif.results[l] = hooks[k]
<1> DEFINE n == SarifTold
           R == ResultsIn(hooks, n)
           upTo == Cardinality(ResultsIn(hooks, i))
<1>1. /\ n \in Nat /\ Len(hooks) \in Nat /\ n <= Len(hooks) /\ i \in Nat /\ i >= 1 /\ i <= n /\ i \in 1..Len(hooks)
  BY ToldFacts
<1>2. /\ R \in SUBSET Nat /\ IsFiniteSet(R) /\ \A k \in R : k \in 1..n
      /\ \A k \in 1..n : k \in R <=> G!IsResult(hooks[k])
  <2>1. \A k \in 1..n : k \in R <=> G!IsResult(hooks[k])
    BY Zenon DEF ResultsIn
  <2> QED
    BY <1>1, <2>1, ResultPlaces
<1>3. upTo = Rank(R, i) /\ upTo \in Nat /\ upTo <= Cardinality(R) /\ Cardinality(R) \in Nat
  <2>1. UpTo(R, i) = ResultsIn(hooks, i)
    <3>1. \A k : k \in 1..i <=> k \in 1..n /\ k <= i
      BY <1>1
    <3> QED
      BY <3>1, Zenon DEF UpTo, ResultsIn
  <2>2. Rank(R, i) = Cardinality(UpTo(R, i)) /\ Rank(R, i) \in 0..Cardinality(R) /\ Cardinality(R) \in Nat
    <3> HIDE DEF R
    <3> QED
      BY <1>1, <1>2, RankInRange
  <2> QED
    BY <2>1, <2>2
<1>4. ResultsHold(sarif.results, hooks, n, journal.group) /\ TestsHold(hooks)
  BY RecordParts DEF Story
<1>5. \A k \in R : IsResultOf(sarif.results[Rank(R, k)], hooks, k, journal.group)
  BY <1>4, Zenon DEF ResultsHold
<1>6. PICK s \in 1..(i - 1) : IsTest(hooks, s, i)
  BY <1>1, <1>4 DEF TestsHold
<1>7. \A kind : (kind \in {"testStart", "event"}) => kind \in DOMAIN G!Boundary \cup {"event"}
  BY DEF G!Boundary
<1>8. "testEnd" \notin DOMAIN G!Boundary \cup {"event"}
  BY DEF G!Boundary
<1>9. i \notin R
  BY <1>1, <1>2, <1>8 DEF G!IsResult
<1>10. s \in R /\ hooks[s].hook = "testStart" /\ s \in Nat /\ s < i
  <2>1. hooks[s].hook = "testStart"
    BY <1>6, Zenon DEF IsTest
  <2>2. s \in 1..n /\ s \in Nat /\ s < i
    BY <1>1
  <2> QED
    BY <1>2, <1>7, <2>1, <2>2 DEF G!IsResult
<1>11. ASSUME NEW k \in (s + 1)..(i - 1)
       PROVE  k \in R /\ hooks[k].hook = "event" /\ hooks[k].group = hooks[i].group /\ k \in Nat /\ s < k /\ k < i
  <2>1. hooks[k].hook = "event" /\ hooks[k].group = hooks[i].group
    BY <1>6, <1>11, Zenon DEF IsTest, Within
  <2>2. k \in 1..n /\ k \in Nat /\ s < k /\ k < i
    BY <1>1, <1>10, <1>11
  <2> QED
    BY <1>2, <1>7, <2>1, <2>2 DEF G!IsResult
<1> DEFINE start == Rank(R, s)
<1> HIDE DEF R, upTo, n
<1>12. ASSUME NEW k \in R
       PROVE  /\ Rank(R, k) \in 1..Cardinality(R) /\ k \in Nat
              /\ k < i <=> Rank(R, k) <= upTo
              /\ s < k <=> start < Rank(R, k)
  <2>1. /\ Rank(R, k) \in 1..Cardinality(R) /\ k \in Nat
        /\ s < k <=> start < Rank(R, k)
    BY <1>2, <1>10, RankOrder
  <2>2. i < k => upTo < Rank(R, k)
    BY <1>1, <1>2, <1>3, RankGrows
  <2>3. k < i => Rank(R, k) <= upTo
    <3> SUFFICES ASSUME k < i PROVE Rank(R, k) <= upTo
      OBVIOUS
    <3>1. UpTo(R, k) \subseteq UpTo(R, i)
      <4>1. \A m \in R : m <= k => m <= i
        BY <1>1, <1>2, <2>1
      <4> QED
        BY <4>1 DEF UpTo
    <3>2. /\ IsFiniteSet(UpTo(R, i)) /\ Rank(R, i) = Cardinality(UpTo(R, i)) /\ Rank(R, k) = Cardinality(UpTo(R, k))
      BY <1>1, <1>2, <2>1, RankInRange
    <3>3. Cardinality(UpTo(R, k)) <= Cardinality(UpTo(R, i))
      BY <3>1, <3>2, FS_Subset
    <3> QED
      BY <1>3, <3>2, <3>3
  <2>4. k # i
    BY <1>9
  <2>5. Rank(R, k) \in Nat
    BY <1>3, <2>1
  <2> QED
    BY <1>1, <1>3, <2>1, <2>2, <2>3, <2>4, <2>5
<1>13. start \in 1..upTo
  <2>1. start \in 1..Cardinality(R) /\ start <= upTo
    BY <1>10, <1>12
  <2> QED
    BY <1>3, <2>1
<1>14. ASSUME NEW k \in (s + 1)..(i - 1)
       PROVE  Rank(R, k) \in (start + 1)..upTo /\ sarif.results[Rank(R, k)] = hooks[k]
  <2>1. Rank(R, k) \in 1..Cardinality(R) /\ Rank(R, k) <= upTo /\ start < Rank(R, k)
    BY <1>11, <1>12
  <2>2. sarif.results[Rank(R, k)] = hooks[k]
    BY <1>5, <1>11, Zenon DEF IsResultOf
  <2> QED
    BY <1>3, <1>13, <2>1, <2>2
<1>15. ASSUME NEW l \in (start + 1)..upTo
       PROVE  \E k \in (s + 1)..(i - 1) : sarif.results[l] = hooks[k]
  <2>1. l \in 1..Cardinality(R) /\ start < l /\ l <= upTo
    BY <1>3, <1>13
  <2>2. PICK k \in R : Rank(R, k) = l
    BY <1>2, <2>1, RankOnto
  <2>3. k \in Nat /\ s < k /\ k < i
    BY <1>12, <2>1, <2>2
  <2>4. k \in (s + 1)..(i - 1)
    BY <1>1, <1>10, <2>3
  <2> QED
    BY <1>14, <2>2, <2>4
<1>16. sarif.results[start].hook = "testStart" /\ sarif.results[start].group = hooks[i].group
  <2>1. IsResultOf(sarif.results[start], hooks, s, journal.group)
    BY <1>5, <1>10
  <2>2. s # Len(hooks)
    BY <1>1, <1>10
  <2>3. hooks[s + 1].hook \in {"event", "testEnd"} /\ hooks[s + 1].group = hooks[i].group
    <3>1. s + 1 \in (s + 1)..(i - 1) \/ s + 1 = i
      BY <1>1, <1>10
    <3> QED
      BY <1>11, <3>1
  <2> QED
    BY <1>10, <2>1, <2>2, <2>3, Zenon DEF IsResultOf
<1> QED
  BY <1>3, <1>6, <1>13, <1>14, <1>15, <1>16 DEF upTo

(* The verdict in the stream is the one the machine log's results give.     *)
LEMMA VerdictsAre ==
    ASSUME LogBase, RecordBase
    PROVE  G!VerdictsAgree
<1> SUFFICES ASSUME opt.logs, NEW i \in DOMAIN G!ToldOf("Events"), hooks[i].hook = "testEnd"
             PROVE  LET upTo == G!Cardinality({k \in 1..i : G!IsResult(hooks[k])})
                        start == CHOOSE k \in 1..upTo :
                                   /\ sarif.results[k].hook = "testStart"
                                   /\ \A l \in (k + 1)..upTo : sarif.results[l].hook # "testStart"
                        inside == {sarif.results[k] : k \in (start + 1)..upTo}
                        checks == {r \in inside : r.verb = "Verify"}
                    IN  /\ hooks[i].ok = (checks # {} /\ \A r \in checks : r.ok)
                        /\ \A r \in inside : r.group = sarif.results[start].group /\ r.test = hooks[i].test
  BY Zenon DEF G!VerdictsAgree
<1>1. i \in 1..SarifTold /\ i \in 1..Len(hooks)
  <2>1. PICK n \in Nat : n <= SarifTold /\ G!ToldOf("Events") = First(n)
    BY ToldOfIs
  <2>2. SarifTold \in Nat /\ SarifTold <= Len(hooks) /\ Len(hooks) \in Nat
    BY ToldFacts
  <2>3. n <= Len(hooks)
    BY <2>1, <2>2
  <2>4. i \in 1..n
    BY <2>1, <2>3, FirstHooks
  <2> QED
    BY <2>1, <2>2, <2>4
<1> DEFINE upTo == G!Cardinality({k \in 1..i : G!IsResult(hooks[k])})
           Opens(k) == /\ sarif.results[k].hook = "testStart"
                       /\ \A l \in (k + 1)..upTo : sarif.results[l].hook # "testStart"
           start == CHOOSE k \in 1..upTo : Opens(k)
           inside == {sarif.results[k] : k \in (start + 1)..upTo}
           checks == {r \in inside : r.verb = "Verify"}
<1>2. upTo = Cardinality(ResultsIn(hooks, i))
  BY SameCount, Zenon DEF ResultsIn
<1>3. PICK s \in 1..(i - 1), b \in 1..upTo :
             /\ IsTest(hooks, s, i) /\ upTo \in Nat
             /\ sarif.results[b].hook = "testStart" /\ sarif.results[b].group = hooks[i].group
             /\ \A l \in (b + 1)..upTo : \E k \in (s + 1)..(i - 1) : sarif.results[l] = hooks[k]
             /\ \A k \in (s + 1)..(i - 1) : \E l \in (b + 1)..upTo : sarif.results[l] = hooks[k]
  <2> HIDE DEF upTo
  <2> DEFINE Log(c) ==
        \E s \in 1..(i - 1) : \E a \in 1..c :
          /\ IsTest(hooks, s, i) /\ c \in Nat
          /\ sarif.results[a].hook = "testStart" /\ sarif.results[a].group = hooks[i].group
          /\ \A l \in (a + 1)..c : \E k \in (s + 1)..(i - 1) : sarif.results[l] = hooks[k]
          /\ \A k \in (s + 1)..(i - 1) : \E l \in (a + 1)..c : sarif.results[l] = hooks[k]
  <2>1. Log(Cardinality(ResultsIn(hooks, i)))
    BY <1>1, TestInLog, Zenon
  <2>2. Log(upTo)
    <3> HIDE DEF Log
    <3> QED
      BY <1>2, <2>1
  <2> QED
    BY <2>2, Zenon
<1>4. /\ Within(hooks, s + 1, i - 1, hooks[i].group, hooks[i].test)
      /\ hooks[i].ok <=> Checked(hooks, s + 1, i - 1) /\ NoneFailed(hooks, s + 1, i - 1)
  BY <1>3, Zenon DEF IsTest
<1> HIDE DEF upTo
<1>5. Opens(b)
  <2>1. ASSUME NEW l \in (b + 1)..upTo PROVE sarif.results[l].hook # "testStart"
    <3>1. PICK k \in (s + 1)..(i - 1) : sarif.results[l] = hooks[k]
      BY <1>3
    <3>2. hooks[k].hook = "event"
      BY <1>4, Zenon DEF Within
    <3> QED
      BY <3>1, <3>2
  <2> QED
    BY <1>3, <2>1
<1>6. start = b
  <2>1. start \in 1..upTo /\ Opens(start)
    BY <1>5, Zenon
  <2> HIDE DEF start
  <2>2. start \in Nat /\ b \in Nat /\ upTo \in Nat /\ start <= upTo /\ b <= upTo
    BY <1>3, <2>1
  <2>3. CASE start < b
    <3>1. b \in (start + 1)..upTo
      BY <2>2, <2>3
    <3> QED
      BY <1>3, <2>1, <3>1
  <2>4. CASE b < start
    <3>1. start \in (b + 1)..upTo
      BY <2>2, <2>4
    <3> QED
      BY <1>5, <2>1, <3>1
  <2> QED
    BY <2>2, <2>3, <2>4
<1> HIDE DEF start, Opens
<1>7. inside = {hooks[k] : k \in (s + 1)..(i - 1)}
  <2>1. inside = {sarif.results[l] : l \in (b + 1)..upTo}
    BY <1>6
  <2>2. \A r : (\E l \in (b + 1)..upTo : r = sarif.results[l]) <=> \E k \in (s + 1)..(i - 1) : r = hooks[k]
    <3>1. ASSUME NEW r, NEW l \in (b + 1)..upTo, r = sarif.results[l] PROVE \E k \in (s + 1)..(i - 1) : r = hooks[k]
      BY <1>3, <3>1, Zenon
    <3>2. ASSUME NEW r, NEW k \in (s + 1)..(i - 1), r = hooks[k] PROVE \E l \in (b + 1)..upTo : r = sarif.results[l]
      <4>1. PICK l \in (b + 1)..upTo : sarif.results[l] = hooks[k]
        BY <1>3, Zenon
      <4> QED
        BY <3>2, <4>1, Zenon
    <3> QED
      BY <3>1, <3>2, Zenon
  <2> HIDE DEF inside
  <2>3. \A r : r \in inside <=> \E l \in (b + 1)..upTo : r = sarif.results[l]
    BY <2>1
  <2> DEFINE told == {hooks[k] : k \in (s + 1)..(i - 1)}
  <2>4. \A r : r \in told <=> \E k \in (s + 1)..(i - 1) : r = hooks[k]
    OBVIOUS
  <2> HIDE DEF told
  <2>5. inside = told
    <3>1. \A r : r \in inside <=> r \in told
      BY <2>2, <2>3, <2>4, Zenon
    <3> QED
      BY <3>1, Zenon
  <2> QED
    BY <2>5 DEF told
<1> HIDE DEF inside
<1>8. ASSUME NEW r \in inside PROVE r.group = sarif.results[start].group /\ r.test = hooks[i].test
  <2>1. PICK k \in (s + 1)..(i - 1) : r = hooks[k]
    BY <1>7
  <2>2. hooks[k].group = hooks[i].group /\ hooks[k].test = hooks[i].test
    BY <1>4, Zenon DEF Within
  <2> QED
    BY <1>3, <1>6, <2>1, <2>2
<1>9. hooks[i].ok <=> checks # {} /\ \A r \in checks : r.ok
  <2>1. Checked(hooks, s + 1, i - 1) <=> checks # {}
    BY <1>7, Zenon DEF Checked
  <2>2. NoneFailed(hooks, s + 1, i - 1) <=> \A r \in checks : r.ok
    BY <1>7, Zenon DEF NoneFailed
  <2> QED
    BY <1>4, <2>1, <2>2, Zenon
<1>10. hooks[i].ok \in BOOLEAN
  <2>1. hooks \in Seq(Hook) /\ DOMAIN hooks = 1..Len(hooks)
    BY BaseParts
  <2>2. hooks[i] \in Hook
    BY <1>1, <2>1, ElementOfSeq
  <2> QED
    BY <2>2 DEF Hook
<1> HIDE DEF checks
<1>11. hooks[i].ok = (checks # {} /\ \A r \in checks : r.ok)
  BY <1>9, <1>10
<1> QED
  BY <1>8, <1>11, Zenon DEF checks, inside, start, Opens, upTo

(* The records of a run agree: the page that has a run's end has all of it *)
(* that can be read, and both logs are whole; the human log is a whole      *)
(* document of what it was told, at any hook; and the verdict of a test in  *)
(* the stream is the one the machine log's results give (runEnd of          *)
(* journal.cpp, SarifSink, RtfSink and EventSink).                          *)
THEOREM RecordsAlwaysAgree == McSpec => []RecordsAgree
<1>1. LogBase /\ RecordBase => RecordsAgree
  BY EndIsWhole, HumanLogIsWhole, VerdictsAre DEF RecordsAgree, G!RecordsAgree
<1> QED
  BY <1>1, RecordAlways, PTL

=============================================================================
