--------------------------- MODULE PatchingProofs ---------------------------
(***************************************************************************)
(* Theorems about Planning and Patching for every value of their           *)
(* constants, with proofs.                                                 *)
(***************************************************************************)
EXTENDS Patching, FiniteSetTheorems, SequenceTheorems, WellFoundedInduction, TLAPS

-----------------------------------------------------------------------------
(* Sequences in an order, and what is taken from the front of one.         *)

LEMMA LeastIn ==
    ASSUME NEW S \in SUBSET Nat, S # {}
    PROVE  \E m \in S : \A n \in S : m <= n
  <1> DEFINE Below(n) == 1..n
             T == {Below(n) : n \in S}
  <1>1. T \subseteq FiniteSubsetsOf(Nat) /\ T # {}
    <2>1. \A n \in S : Below(n) \subseteq Nat /\ IsFiniteSet(Below(n))
      BY FS_Interval
    <2> QED
      BY <2>1 DEF FiniteSubsetsOf
  <1>2. PICK X \in T : \A Y \in T : ~(<<Y, X>> \in StrictSubsetOrdering(Nat))
    BY <1>1, FS_StrictSubsetOrderingWellFounded, WFMin
  <1>3. PICK m \in S : X = Below(m)
    OBVIOUS
  <1>4. ASSUME NEW n \in S, n < m PROVE FALSE
    <2>1. /\ Below(n) \in SUBSET Nat /\ Below(m) \in SUBSET Nat
          /\ Below(n) \subseteq Below(m) /\ m \in Below(m) /\ m \notin Below(n)
      BY <1>4
    <2>2. <<Below(n), Below(m)>> \in StrictSubsetOrdering(Nat)
      BY <2>1 DEF StrictSubsetOrdering
    <2> QED
      BY <1>2, <1>3, <2>2
  <1> QED
    BY <1>4

StrictOrder(S, before) ==
    /\ \A x \in S : <<x, x>> \notin before
    /\ \A x, y, z \in S : <<x, y>> \in before /\ <<y, z>> \in before => <<x, z>> \in before
    /\ \A x, y \in S : x = y \/ <<x, y>> \in before \/ <<y, x>> \in before

(* There is one place for each element, after as many as come before it.   *)
LEMMA Ordered ==
    ASSUME NEW S, IsFiniteSet(S), NEW before, StrictOrder(S, before)
    PROVE  /\ InOrder(S, before) \in Seq(S)
           /\ Len(InOrder(S, before)) = Cardinality(S)
           /\ ToSet(InOrder(S, before)) = S
           /\ \A i, j \in 1..Cardinality(S) :
                i < j => <<InOrder(S, before)[i], InOrder(S, before)[j]>> \in before
  <1> DEFINE n == Cardinality(S)
             Pred(x) == {y \in S : <<y, x>> \in before}
             rank == [x \in S |-> Cardinality(Pred(x)) + 1]
             s == [i \in 1..n |-> CHOOSE x \in S : rank[x] = i]
             Sorted(f) == \A i, j \in 1..n : i < j => <<f[i], f[j]>> \in before
             o == InOrder(S, before)
  <1>0. n \in Nat
    BY FS_CardinalityType
  <1>1. \A x \in S : IsFiniteSet(Pred(x)) /\ Cardinality(Pred(x)) \in Nat
                     /\ Cardinality(Pred(x)) < n
    <2> TAKE x \in S
    <2>1. Pred(x) \in SUBSET S /\ x \notin Pred(x)
      BY DEF StrictOrder
    <2> HIDE DEF Pred
    <2>2. /\ IsFiniteSet(Pred(x)) /\ Cardinality(Pred(x)) <= n
          /\ Cardinality(Pred(x)) = n => Pred(x) = S
      BY <2>1, FS_Subset
    <2>3. Cardinality(Pred(x)) \in Nat
      BY <2>2, FS_CardinalityType
    <2> QED
      BY <1>0, <2>1, <2>2, <2>3
  <1>2. ASSUME NEW x \in S, NEW y \in S, <<x, y>> \in before
        PROVE  rank[x] < rank[y]
    <2>1. Pred(x) \in SUBSET Pred(y) /\ x \in Pred(y) /\ x \notin Pred(x)
      BY <1>2 DEF StrictOrder
    <2>2. IsFiniteSet(Pred(y)) /\ Cardinality(Pred(y)) \in Nat /\ Cardinality(Pred(x)) \in Nat
      BY <1>1
    <2> HIDE DEF Pred
    <2>3. /\ Cardinality(Pred(x)) <= Cardinality(Pred(y))
          /\ Cardinality(Pred(x)) = Cardinality(Pred(y)) => Pred(x) = Pred(y)
      BY <2>1, <2>2, FS_Subset
    <2>4. Cardinality(Pred(x)) < Cardinality(Pred(y))
      BY <2>1, <2>2, <2>3
    <2> QED
      BY <2>2, <2>4
  <1>3. rank \in [S -> 1..n] /\ \A x, y \in S : rank[x] = rank[y] => x = y
    <2>1. \A x \in S : rank[x] = Cardinality(Pred(x)) + 1
      OBVIOUS
    <2>2. rank \in [S -> 1..n]
      <3> SUFFICES ASSUME NEW x \in S PROVE Cardinality(Pred(x)) + 1 \in 1..n
        OBVIOUS
      <3> HIDE DEF Pred, n
      <3> QED
        BY <1>0, <1>1
    <2> HIDE DEF rank, Pred, n
    <2>3. \A x, y \in S : rank[x] = rank[y] => ~(rank[x] < rank[y]) /\ ~(rank[y] < rank[x])
      BY <1>0, <2>2
    <2> QED
      BY <1>2, <2>2, <2>3 DEF StrictOrder
  <1> HIDE DEF rank, Pred
  <1>4. \A i \in 1..n : \E x \in S : rank[x] = i
    <2>1. rank \in Injection(S, 1..n)
      BY <1>3 DEF Injection, IsInjective
    <2>2. IsFiniteSet(1..n) /\ Cardinality(1..n) = n
      BY <1>0, FS_Interval
    <2>3. rank \in Surjection(S, 1..n)
      BY <2>1, <2>2, FS_Injection
    <2> QED
      BY <2>3 DEF Surjection
  <1>5. s \in [1..n -> S] /\ \A i \in 1..n : rank[s[i]] = i
    BY <1>4
  <1> HIDE DEF s
  <1>6. Sorted(s)
    <2> SUFFICES ASSUME NEW i \in 1..n, NEW j \in 1..n, i < j PROVE <<s[i], s[j]>> \in before
      OBVIOUS
    <2>1. s[i] \in S /\ s[j] \in S /\ rank[s[i]] = i /\ rank[s[j]] = j
      BY <1>5
    <2>2. s[i] # s[j]
      BY <1>0, <2>1
    <2>3. ~(rank[s[j]] < rank[s[i]])
      BY <1>0, <2>1
    <2> QED
      BY <1>2, <2>1, <2>2, <2>3 DEF StrictOrder
  <1>7. o \in [1..n -> S] /\ Sorted(o)
    <2>1. o = CHOOSE f \in [1..n -> S] : Sorted(f)
      BY DEF InOrder
    <2> HIDE DEF o, Sorted
    <2> QED
      BY <1>5, <1>6, <2>1
  <1> HIDE DEF o
  <1>8. o \in Surjection(1..n, S)
    <2>1. \A i, j \in 1..n : o[i] = o[j] => i = j
      <3> SUFFICES ASSUME NEW i \in 1..n, NEW j \in 1..n, o[i] = o[j], i # j PROVE FALSE
        OBVIOUS
      <3>1. i < j \/ j < i
        BY <1>0
      <3>2. o[i] \in S /\ o[j] \in S
        BY <1>7
      <3> QED
        BY <1>7, <3>1, <3>2 DEF StrictOrder
    <2>2. o \in Injection(1..n, S)
      BY <1>7, <2>1 DEF Injection, IsInjective
    <2>3. Cardinality(1..n) = n
      BY <1>0, FS_Interval
    <2> QED
      BY <2>2, <2>3, FS_Injection
  <1>9. o \in Seq(S) /\ Len(o) = n /\ DOMAIN o = 1..n
    BY <1>0, <1>7
  <1>10. ToSet(o) = S
    BY <1>7, <1>8, <1>9 DEF ToSet, Surjection
  <1> QED
    BY <1>7, <1>9, <1>10 DEF o

LEMMA FirstAtIn ==
    ASSUME NEW T, NEW seq \in Seq(T), NEW x \in ToSet(seq)
    PROVE  FirstAt(seq, x) \in 1..Len(seq) /\ seq[FirstAt(seq, x)] = x
  <1> DEFINE S == {i \in 1..Len(seq) : seq[i] = x}
  <1>1. Len(seq) \in Nat /\ DOMAIN seq = 1..Len(seq)
    OBVIOUS
  <1>2. S \in SUBSET Nat /\ S # {}
    BY <1>1 DEF ToSet
  <1>3. PICK m \in S : \A n \in S : m <= n
    BY <1>2, LeastIn
  <1>4. m \in DOMAIN seq /\ seq[m] = x /\ \A j \in 1..(m - 1) : seq[j] # x
    BY <1>1, <1>3
  <1> QED
    BY <1>1, <1>4 DEF FirstAt

LEMMA ElementsFinite ==
    ASSUME NEW T, NEW seq \in Seq(T)
    PROVE  IsFiniteSet(ToSet(seq)) /\ ToSet(seq) \subseteq T
  <1>1. Len(seq) \in Nat /\ seq \in [1..Len(seq) -> T] /\ DOMAIN seq = 1..Len(seq)
    OBVIOUS
  <1>2. seq \in Surjection(1..Len(seq), ToSet(seq))
    BY <1>1 DEF Surjection, ToSet
  <1>3. IsFiniteSet(1..Len(seq))
    BY <1>1, FS_Interval
  <1> QED
    BY <1>1, <1>2, <1>3, FS_Surjection DEF ToSet

(* What Among keeps, and that it keeps nothing else.                       *)
LEMMA AmongKeeps ==
    ASSUME NEW T, NEW seq \in Seq(T), NEW S
    PROVE  Among(seq, S) \in Seq(T) /\ ToSet(Among(seq, S)) = ToSet(seq) \cap S
  <1> DEFINE found == ToSet(seq) \cap S
             before == {pair \in found \X found :
                          FirstAt(seq, pair[1]) < FirstAt(seq, pair[2])}
  <1>1. IsFiniteSet(found) /\ found \subseteq T
    <2>1. IsFiniteSet(ToSet(seq)) /\ ToSet(seq) \subseteq T /\ found \in SUBSET ToSet(seq)
      BY ElementsFinite
    <2> QED
      BY <2>1, FS_Subset
  <1>2. \A x \in found : FirstAt(seq, x) \in Nat /\ seq[FirstAt(seq, x)] = x
    <2>1. Len(seq) \in Nat
      OBVIOUS
    <2> QED
      BY <2>1, FirstAtIn
  <1>3. \A x, y \in found : <<x, y>> \in before <=> FirstAt(seq, x) < FirstAt(seq, y)
    OBVIOUS
  <1> HIDE DEF found, before
  <1>4. StrictOrder(found, before)
    <2>1. \A x, y, z \in found : FirstAt(seq, x) < FirstAt(seq, y)
            /\ FirstAt(seq, y) < FirstAt(seq, z) => FirstAt(seq, x) < FirstAt(seq, z)
      BY <1>2
    <2>2. \A x, y \in found : FirstAt(seq, x) < FirstAt(seq, y)
            \/ FirstAt(seq, y) < FirstAt(seq, x) \/ FirstAt(seq, x) = FirstAt(seq, y)
      BY <1>2
    <2>3. \A x, y \in found : FirstAt(seq, x) = FirstAt(seq, y) => x = y
      BY <1>2
    <2>4. \A x \in found : ~(FirstAt(seq, x) < FirstAt(seq, x))
      BY <1>2
    <2> QED
      BY <1>3, <2>1, <2>2, <2>3, <2>4 DEF StrictOrder
  <1>5. Among(seq, S) = InOrder(found, before)
    BY DEF Among, found, before
  <1>6. InOrder(found, before) \in Seq(found) /\ ToSet(InOrder(found, before)) = found
    BY <1>1, <1>4, Ordered
  <1>7. InOrder(found, before) \in Seq(T)
    BY <1>1, <1>6, SeqMonotonic
  <1> QED
    BY <1>5, <1>6, <1>7 DEF found

LEMMA FirstOf ==
    ASSUME NEW T, NEW seq \in Seq(T), NEW n \in Nat
    PROVE  /\ First(seq, n) \in Seq(T) /\ Len(First(seq, n)) <= n
           /\ \A i \in 1..Len(First(seq, n)) : First(seq, n)[i] \in ToSet(seq)
           /\ ToSet(First(seq, n)) \subseteq ToSet(seq)
  <1> DEFINE k == IF Len(seq) < n THEN Len(seq) ELSE n
             f == First(seq, n)
  <1>1. Len(seq) \in Nat /\ DOMAIN seq = 1..Len(seq)
    OBVIOUS
  <1>2. k \in Nat /\ k <= n /\ k <= Len(seq)
    BY <1>1
  <1>3. f = SubSeq(seq, 1, k)
    BY DEF First
  <1> HIDE DEF k, f
  <1>4. \A i \in 1..k : seq[i] \in T
    BY <1>1, <1>2
  <1>5. f \in Seq(T) /\ Len(f) = k /\ \A i \in 1..k : f[i] = seq[i]
    BY <1>2, <1>3, <1>4
  <1>6. \A i \in 1..k : f[i] \in ToSet(seq)
    BY <1>1, <1>2, <1>5 DEF ToSet
  <1>7. DOMAIN f = 1..k
    BY <1>2, <1>5
  <1>8. ToSet(f) \subseteq ToSet(seq)
    BY <1>6, <1>7 DEF ToSet
  <1> QED
    BY <1>2, <1>5, <1>6, <1>8 DEF f

-----------------------------------------------------------------------------
(* What a planning run computes.                                           *)

LEMMA ScoreInt ==
    ASSUME NEW p \in Paths
    PROVE  Score(p) \in Int
  <1> DEFINE t == Traits[p]
             m == Min({10, 3 * t.symbols})
  <1>1. /\ t.keywords \in Nat /\ t.symbols \in Nat
        /\ t.primary \in BOOLEAN /\ t.source \in BOOLEAN /\ t.test_wanted \in BOOLEAN
        /\ t.control \in BOOLEAN
    BY PlanningAssumption
  <1>2. m \in Int
    <2>1. m = CHOOSE x \in {10, 3 * t.symbols} : \A y \in {10, 3 * t.symbols} : x <= y
      BY DEF Min
    <2>2. \E x \in {10, 3 * t.symbols} : \A y \in {10, 3 * t.symbols} : x <= y
      BY <1>1
    <2> HIDE DEF m
    <2>3. m \in {10, 3 * t.symbols}
      BY <2>1, <2>2
    <2> QED
      BY <1>1, <2>3
  <1>3. /\ Weight(t.primary, 2) \in Int /\ Weight(t.source, 3) \in Int
        /\ Weight(IsTest(p) /\ t.test_wanted, 2) \in Int /\ Weight(t.control, 1) \in Int
    BY DEF Weight
  <1>4. Score(p) = 8 * t.keywords + m + Weight(t.primary, 2) + Weight(t.source, 3)
                     + Weight(IsTest(p) /\ t.test_wanted, 2) + Weight(t.control, 1)
    BY DEF Score
  <1> HIDE DEF t, m
  <1>5. 8 * t.keywords \in Int
    BY <1>1
  <1> QED
    BY <1>2, <1>3, <1>4, <1>5

(* Files are ranked in one order: by score, and by name where scores are   *)
(* equal.                                                                  *)
LEMMA RankOrder ==
    ASSUME NEW S \in SUBSET Paths
    PROVE  StrictOrder(S, {pair \in S \X S : Before(pair[1], pair[2])})
  <1> DEFINE before == {pair \in S \X S : Before(pair[1], pair[2])}
             Pos(p) == FirstAt(Briefer, p)
  <1>1. \A p \in S : Score(p) \in Int
    BY ScoreInt
  <1>2. \A p \in S : Pos(p) \in Int /\ Briefer[Pos(p)] = p
    <2>1. Briefer \in Seq(Paths) /\ ToSet(Briefer) = Paths
      BY PlanningAssumption
    <2>2. Len(Briefer) \in Nat
      BY <2>1
    <2> QED
      BY <2>1, <2>2, FirstAtIn
  <1>3. \A p, q \in S : <<p, q>> \in before <=>
          (Score(p) > Score(q) \/ (Score(p) = Score(q) /\ Pos(p) < Pos(q)))
    BY DEF Before
  <1> HIDE DEF before, Pos
  <1>4. \A p \in S : <<p, p>> \notin before
    BY <1>1, <1>2, <1>3
  <1>5. ASSUME NEW p \in S, NEW q \in S, NEW r \in S,
               <<p, q>> \in before, <<q, r>> \in before
        PROVE  <<p, r>> \in before
    BY <1>1, <1>2, <1>3, <1>5
  <1>6. ASSUME NEW p \in S, NEW q \in S, p # q
        PROVE  <<p, q>> \in before \/ <<q, p>> \in before
    <2>1. Pos(p) # Pos(q)
      BY <1>2, <1>6
    <2> QED
      BY <1>1, <1>2, <1>3, <2>1
  <1>7. StrictOrder(S, before)
    BY <1>4, <1>5, <1>6 DEF StrictOrder
  <1> QED
    BY <1>7 DEF before

LEMMA CapsNat ==
    /\ MaxSnapshot \in Nat /\ MaxRanked \in Nat /\ MaxInspect \in Nat /\ MaxTests \in Nat
  BY PlanningAssumption

LEMMA SnapshotKnown ==
    ASSUME NEW tracked
    PROVE  Snapshot(tracked) \in Seq(Paths) /\ ToSet(Snapshot(tracked)) \subseteq tracked
  <1> DEFINE all == Among(Listing, tracked)
  <1>1. all \in Seq(Paths) /\ ToSet(all) \subseteq tracked
    BY PlanningAssumption, AmongKeeps
  <1> HIDE DEF all
  <1>2. First(all, MaxSnapshot) \in Seq(Paths) /\ ToSet(First(all, MaxSnapshot)) \subseteq ToSet(all)
    BY <1>1, FirstOf, CapsNat
  <1> QED
    BY <1>1, <1>2 DEF Snapshot, all

LEMMA RankedKnown ==
    ASSUME NEW snapshot \in Seq(Paths)
    PROVE  /\ RankedFiles(snapshot) \in Seq(Paths)
           /\ ToSet(RankedFiles(snapshot)) \subseteq ToSet(snapshot)
  <1> DEFINE scored == {p \in ToSet(snapshot) : Score(p) > 0}
             front == ToSet(First(snapshot, MaxRanked))
             taken == IF scored # {} THEN scored ELSE front
             before == {pair \in taken \X taken : Before(pair[1], pair[2])}
             inOrder == InOrder(taken, before)
  <1>1. IsFiniteSet(ToSet(snapshot)) /\ ToSet(snapshot) \subseteq Paths
    BY ElementsFinite
  <1>2. front \subseteq ToSet(snapshot)
    BY FirstOf, CapsNat
  <1>3. taken \in SUBSET ToSet(snapshot) /\ taken \in SUBSET Paths
    BY <1>1, <1>2
  <1>4. IsFiniteSet(taken)
    BY <1>1, <1>3, FS_Subset
  <1>5. RankedFiles(snapshot) = First(inOrder, MaxRanked)
    BY DEF RankedFiles
  <1> HIDE DEF taken
  <1>6. StrictOrder(taken, before)
    BY <1>3, RankOrder
  <1> HIDE DEF before
  <1>7. inOrder \in Seq(taken) /\ ToSet(inOrder) = taken
    BY <1>4, <1>6, Ordered
  <1> HIDE DEF inOrder
  <1>8. inOrder \in Seq(Paths)
    BY <1>3, <1>7, SeqMonotonic
  <1>9. /\ First(inOrder, MaxRanked) \in Seq(Paths)
        /\ ToSet(First(inOrder, MaxRanked)) \subseteq ToSet(inOrder)
    BY <1>8, FirstOf, CapsNat
  <1> QED
    BY <1>3, <1>5, <1>7, <1>9

LEMMA SuggestedCommands ==
    ASSUME NEW snapshot
    PROVE  TestCommands(snapshot) \in Seq(Commands)
  <1>1. Pytest \in Commands /\ Unittest \in Commands
    BY PatchingAssumption
  <1>2. /\ <<Pytest>> \in Seq(Commands) /\ <<Unittest>> \in Seq(Commands)
        /\ <<>> \in Seq(Commands)
    BY <1>1
  <1> DEFINE a == IF ToSet(snapshot) \cap PytestMarks # {} THEN <<Pytest>> ELSE <<>>
             b == IF \E p \in ToSet(snapshot) : IsTest(p) THEN <<Unittest>> ELSE <<>>
  <1>3. a \in Seq(Commands) /\ b \in Seq(Commands)
    BY <1>2
  <1>4. TestCommands(snapshot) = a \o b
    BY DEF TestCommands
  <1> HIDE DEF a, b
  <1> QED
    BY <1>3, <1>4

LEMMA NormalizedPlan ==
    ASSUME NEW snapshot \in Seq(Paths), NEW tests \in Seq(Commands), NEW files \in Seq(Paths),
           NEW ranked \in Seq(Paths), ToSet(ranked) \subseteq ToSet(snapshot),
           NEW suggested \in Seq(Commands), NEW draft, draft.files = files,
           draft.tests = tests, NEW context, context.ranked = ranked,
           context.suggested = suggested
    PROVE  LET plan == Normalized(draft, snapshot, context) IN
           /\ plan \in [files : Seq(Paths), tests : Seq(Commands)]
           /\ ToSet(plan.files) \subseteq ToSet(snapshot)
  <1> DEFINE known == Among(files, ToSet(snapshot))
             chosen == IF known # <<>> THEN known ELSE ranked
             wanted == IF tests # <<>> THEN Deduped(tests) ELSE suggested
  <1>1. known \in Seq(Paths) /\ ToSet(known) \subseteq ToSet(snapshot)
    BY AmongKeeps
  <1>2. chosen \in Seq(Paths) /\ ToSet(chosen) \subseteq ToSet(snapshot)
    BY <1>1
  <1>3. wanted \in Seq(Commands)
    BY AmongKeeps DEF Deduped
  <1>4. Normalized(draft, snapshot, context) =
          [files |-> First(chosen, MaxInspect), tests |-> First(wanted, MaxTests)]
    BY DEF Normalized
  <1> HIDE DEF chosen, wanted
  <1>5. /\ First(chosen, MaxInspect) \in Seq(Paths) /\ First(wanted, MaxTests) \in Seq(Commands)
        /\ ToSet(First(chosen, MaxInspect)) \subseteq ToSet(chosen)
    BY <1>2, <1>3, FirstOf, CapsNat
  <1> QED
    BY <1>2, <1>4, <1>5

(* A planning run records a plan and a context of files that its snapshot  *)
(* has, whatever the draft names, and commands to verify them.             *)
LEMMA PlannedRunTyped ==
    ASSUME NEW draft \in OrNone(Drafts)
    PROVE  /\ PlannedRun(draft) \in Run
           /\ ToSet(PlannedRun(draft).plan.files) \subseteq Tracked
           /\ ToSet(PlannedRun(draft).context.ranked) \subseteq Tracked
  <1> DEFINE snapshot == Snapshot(Tracked)
             ranked == RankedFiles(snapshot)
             suggested == TestCommands(snapshot)
             context == Context(snapshot)
             files == IF draft = None
                      THEN IF ranked # <<>> THEN First(ranked, MaxInspect)
                                            ELSE First(snapshot, MaxSnapshot)
                      ELSE draft.files
             tests == IF draft = None
                      THEN IF suggested # <<>> THEN First(suggested, 2) ELSE <<Unittest>>
                      ELSE draft.tests
             from == IF draft = None THEN HeuristicPlan(snapshot, context) ELSE draft
             plan == Normalized(from, snapshot, context)
  <1>1. snapshot \in Seq(Paths) /\ ToSet(snapshot) \subseteq Tracked
    BY SnapshotKnown
  <1>2. PlannedRun(draft) = [status |-> "SUCCEEDED", plan |-> plan, context |-> context]
    BY Zenon DEF PlannedRun
  <1>3. context = [ranked |-> ranked, suggested |-> suggested]
    BY DEF Context
  <1> HIDE DEF snapshot
  <1>4. ranked \in Seq(Paths) /\ ToSet(ranked) \subseteq ToSet(snapshot)
    BY <1>1, RankedKnown
  <1>5. suggested \in Seq(Commands)
    BY SuggestedCommands
  <1>6. context.ranked = ranked /\ context.suggested = suggested
    BY <1>3
  <1> HIDE DEF context, ranked, suggested
  <1>7. files \in Seq(Paths) /\ from.files = files
    <2>1. CASE draft = None
      <3>1. from.files = files
        BY <1>6, <2>1 DEF HeuristicPlan
      <3>2. First(ranked, MaxInspect) \in Seq(Paths) /\ First(snapshot, MaxSnapshot) \in Seq(Paths)
        BY <1>1, <1>4, FirstOf, CapsNat
      <3> QED
        BY <2>1, <3>1, <3>2
    <2>2. CASE draft # None
      BY <2>2, PatchingAssumption DEF OrNone
    <2> QED
      BY <2>1, <2>2
  <1>8. tests \in Seq(Commands) /\ from.tests = tests
    <2>1. CASE draft = None
      <3>1. from.tests = tests
        BY <1>6, <2>1 DEF HeuristicPlan
      <3>2. First(suggested, 2) \in Seq(Commands)
        BY <1>5, FirstOf
      <3>3. <<Unittest>> \in Seq(Commands)
        BY PatchingAssumption
      <3> QED
        BY <2>1, <3>1, <3>2, <3>3
    <2>2. CASE draft # None
      BY <2>2, PatchingAssumption DEF OrNone
    <2> QED
      BY <2>1, <2>2
  <1> HIDE DEF files, tests, from
  <1>9. /\ plan \in [files : Seq(Paths), tests : Seq(Commands)]
        /\ ToSet(plan.files) \subseteq ToSet(snapshot)
    BY <1>1, <1>4, <1>5, <1>6, <1>7, <1>8, NormalizedPlan
  <1> HIDE DEF plan
  <1>10. context \in [ranked : Seq(Paths), suggested : Seq(Commands)]
    BY <1>3, <1>4, <1>5
  <1>11. PlannedRun(draft) \in Run
    BY <1>2, <1>9, <1>10 DEF Run, Outcome
  <1> QED
    BY <1>1, <1>2, <1>4, <1>6, <1>9, <1>11

-----------------------------------------------------------------------------
(* The invariant of types: what a call has in hand fits the step it takes  *)
(* next, and the run that it works for has been recorded.                  *)

FoundIn(r, rs) == r # None /\ rs[r] # None
CommandsIn(r, rs) == First(AllowedCandidates(rs[r].plan, rs[r].context), VerifyMaxAttempts)

InLoop == {"generate", "apply", "execution", "verify", "verification", "attempt", "save"}

CallInv(c, k, rs) ==
    /\ k.kind = "autofix" => k.mode = "apply"
    /\ k.phase # "idle" => IF c \in Sandboxed THEN k.kind # "verify" /\ k.place = c
                           ELSE k.kind = "autofix" => k.place = Repo
    /\ k.phase \in {"prepare", "use"} => c \in Sandboxed
    /\ k.phase \in {"start", "generate", "attempt", "save"} => k.kind = "autofix"
    /\ k.phase \in {"apply", "execution"} => k.kind # "verify"
    /\ k.phase \in {"verify", "verification"} => k.kind # "patch"
    /\ k.phase \notin {"apply", "execution", "use", "done", "gone"} => k.next = 1 /\ k.changed = {}
    /\ k.phase \notin {"verify", "verification", "use", "done", "gone"} => k.ran = 0
    /\ k.phase \in {"apply", "execution"} \/ (k.phase = "prepare" /\ k.kind = "patch")
         => k.patch \in Patches /\ k.patch.ops # <<>>
    /\ k.phase = "apply" => k.next \in 1..Len(k.patch.ops)
    /\ k.phase = "verify" => k.ran = 0 \/ k.ran < Len(CommandsIn(k.run, rs))
    /\ k.phase = "verification" => k.reason # None
    /\ k.kind # "patch" /\ k.phase \in InLoop => FoundIn(k.run, rs)
    /\ k.kind = "patch" => k.run = None \/ FoundIn(k.run, rs)

TypeInv ==
    /\ TypeOK
    /\ \A c \in Calls : CallInv(c, calls[c], runs)

LEMMA CommandsAllowed ==
    ASSUME NEW rs, NEW r, rs[r] \in Run
    PROVE  /\ CommandsIn(r, rs) \in Seq(Commands)
           /\ Len(CommandsIn(r, rs)) \in Nat /\ Len(CommandsIn(r, rs)) <= VerifyMaxAttempts
           /\ \A i \in 1..Len(CommandsIn(r, rs)) :
                /\ CommandsIn(r, rs)[i] \in ToSet(Candidates(rs[r].plan, rs[r].context))
                /\ Decision(CommandsIn(r, rs)[i]) = "allow"
  <1> DEFINE plan == rs[r].plan
             context == rs[r].context
             candidates == Candidates(plan, context)
             allowed == {x \in ToSet(candidates) : Decision(x) = "allow"}
             some == AllowedCandidates(plan, context)
  <1>1. plan.tests \in Seq(Commands) /\ context.suggested \in Seq(Commands)
    BY DEF Run
  <1>2. candidates \in Seq(Commands)
    BY <1>1 DEF Candidates
  <1>3. some = Among(candidates, allowed)
    BY DEF AllowedCandidates
  <1> HIDE DEF candidates, some
  <1>4. some \in Seq(Commands) /\ ToSet(some) = ToSet(candidates) \cap allowed
    BY <1>2, <1>3, AmongKeeps
  <1>5. VerifyMaxAttempts \in Nat
    BY PatchingAssumption
  <1>6. /\ First(some, VerifyMaxAttempts) \in Seq(Commands)
        /\ Len(First(some, VerifyMaxAttempts)) <= VerifyMaxAttempts
        /\ \A i \in 1..Len(First(some, VerifyMaxAttempts)) :
             First(some, VerifyMaxAttempts)[i] \in ToSet(some)
    BY <1>4, <1>5, FirstOf
  <1>7. CommandsIn(r, rs) = First(some, VerifyMaxAttempts)
    BY DEF CommandsIn, some
  <1>8. \A x \in ToSet(some) : x \in ToSet(candidates) /\ Decision(x) = "allow"
    BY <1>4
  <1> HIDE DEF allowed
  <1>9. Len(CommandsIn(r, rs)) \in Nat
    BY <1>6, <1>7
  <1> QED
    BY <1>6, <1>7, <1>8, <1>9 DEF candidates

LEMMA Numbered ==
    /\ MaxAttempts \in Nat \ {0} /\ VerifyMaxAttempts \in Nat \ {0} /\ 1 \in Numbers
    /\ Numbers \subseteq Nat
  BY PatchingAssumption DEF Numbers

LEMMA NoTryTyped ==
    /\ NoTry \in Attempt /\ NoTry.status = "FAILED" /\ NoTry.proposal = None
    /\ NoTry.execution = None /\ NoTry.verification = None
    /\ NoIds \in Latest /\ NoIds.proposal = None /\ NoIds.execution = None
    /\ NoIds.verification = None
  BY DEF NoTry, NoIds, Attempt, Latest, Outcome, OrNone

LEMMA IdleTyped ==
    /\ IdleCall \in Call
    /\ IdleCall.phase = "idle" /\ IdleCall.kind = "autofix" /\ IdleCall.mode = "apply"
    /\ IdleCall.place = Repo /\ IdleCall.run = None /\ IdleCall.number = 1
    /\ IdleCall.patch = None /\ IdleCall.next = 1 /\ IdleCall.changed = {}
    /\ IdleCall.target = None /\ IdleCall.ran = 0 /\ IdleCall.status = "SUCCEEDED"
    /\ IdleCall.reason = None /\ IdleCall.try = NoTry /\ IdleCall.latest = NoIds
  <1>1. Repo \in Places /\ 0 \in 0..VerifyMaxAttempts
    BY Numbered DEF Places
  <1>2. NoTry \in Attempt /\ NoIds \in Latest /\ 1 \in Numbers
    BY NoTryTyped, Numbered
  <1> HIDE DEF NoTry, NoIds
  <1> QED
    BY <1>1, <1>2 DEF IdleCall, Call, OrNone, Outcome, Modes

(* A call that is over, and one that is gone.                              *)
Dead(c) == [Over(c, "gone") EXCEPT !.changed = calls[c].changed, !.try = calls[c].try]

LEMMA OverIs ==
    ASSUME NEW c, calls[c] \in Call, NEW phase \in Ended
    PROVE  /\ Over(c, phase) \in Call
           /\ Over(c, phase) = [IdleCall EXCEPT !.phase = phase, !.kind = calls[c].kind,
                 !.mode = calls[c].mode, !.place = calls[c].place, !.run = calls[c].run]
           /\ Over(c, phase).phase = phase /\ Over(c, phase).kind = calls[c].kind
           /\ Over(c, phase).mode = calls[c].mode /\ Over(c, phase).place = calls[c].place
           /\ Over(c, phase).run = calls[c].run /\ Over(c, phase).number = 1
           /\ Over(c, phase).patch = None /\ Over(c, phase).changed = {}
           /\ Over(c, phase).try = NoTry /\ Over(c, phase).latest = NoIds
  <1> DEFINE k == calls[c]
             i == IdleCall
             s == [i EXCEPT !.phase = phase, !.kind = k.kind, !.mode = k.mode,
                            !.place = k.place, !.run = k.run]
  <1>1. /\ i \in Call /\ i.number = 1 /\ i.patch = None /\ i.changed = {}
        /\ i.try = NoTry /\ i.latest = NoIds
    BY IdleTyped
  <1>2. Over(c, phase) = s
    BY Zenon DEF Over
  <1> HIDE DEF i, k
  <1>3. k \in Call
    BY DEF k
  <1>4. /\ s \in Call /\ s.phase = phase /\ s.kind = k.kind /\ s.mode = k.mode
        /\ s.place = k.place /\ s.run = k.run
    BY <1>1, <1>3 DEF Call, Ended
  <1>5. /\ s.number = i.number /\ s.patch = i.patch /\ s.changed = i.changed
        /\ s.try = i.try /\ s.latest = i.latest
    BY <1>1 DEF Call
  <1> HIDE DEF s
  <1>6. Over(c, phase) = [IdleCall EXCEPT !.phase = phase, !.kind = calls[c].kind,
                 !.mode = calls[c].mode, !.place = calls[c].place, !.run = calls[c].run]
    BY Zenon DEF Over
  <1> QED
    BY <1>1, <1>2, <1>4, <1>5, <1>6 DEF k

LEMMA DeadIs ==
    ASSUME NEW c, calls[c] \in Call
    PROVE  /\ Dead(c) \in Call /\ Dead(c).phase = "gone" /\ Dead(c).kind = calls[c].kind
           /\ Dead(c).mode = calls[c].mode /\ Dead(c).place = calls[c].place
           /\ Dead(c).run = calls[c].run /\ Dead(c).changed = calls[c].changed
           /\ Dead(c).try = calls[c].try /\ Dead(c).patch = None
  <1> DEFINE k == calls[c]
             o == Over(c, "gone")
  <1>1. /\ o \in Call /\ o.phase = "gone" /\ o.kind = k.kind /\ o.mode = k.mode
        /\ o.place = k.place /\ o.run = k.run /\ o.patch = None
    BY OverIs DEF Ended
  <1>2. Dead(c) = [o EXCEPT !.changed = k.changed, !.try = k.try]
    BY DEF Dead
  <1> HIDE DEF o, k
  <1>3. k \in Call
    BY DEF k
  <1>4. /\ Dead(c) \in Call /\ Dead(c).changed = k.changed /\ Dead(c).try = k.try
        /\ Dead(c).phase = o.phase /\ Dead(c).kind = o.kind /\ Dead(c).mode = o.mode
        /\ Dead(c).place = o.place /\ Dead(c).run = o.run /\ Dead(c).patch = o.patch
    BY <1>1, <1>2, <1>3 DEF Call
  <1> QED
    BY <1>1, <1>4 DEF k

TablesOK ==
    /\ trees \in [Places -> Tree]
    /\ runs \in [Runs -> OrNone(Run)]
    /\ proposals \in [Ids -> OrNone(Proposal)]
    /\ executions \in [Calls -> [Numbers -> OrNone(Execution)]]
    /\ verifications \in [Calls -> [Numbers -> OrNone(Verification)]]
    /\ attempts \in [Calls -> Seq(Attempt)]
    /\ autofixes \in [Calls -> OrNone(Autofix)]
    /\ sandboxes \in [Calls -> OrNone(Sandbox)]
    /\ removed \subseteq Sandboxed

(* A step of a call that types its tables and goes on with a fit record.   *)
LEMMA Carried ==
    ASSUME TypeInv, NEW c \in Calls, NEW s \in Call, CallInv(c, s, runs),
           Becomes(c, s), runs' = runs, TablesOK'
    PROVE  TypeInv'
  <1>1. calls' = [calls EXCEPT ![c] = s] /\ calls \in [Calls -> Call]
    BY DEF Becomes, TypeInv, TypeOK
  <1>2. calls' \in [Calls -> Call] /\ calls'[c] = s /\ \A d \in Calls : d # c => calls'[d] = calls[d]
    BY <1>1
  <1>3. TypeOK'
    BY <1>2 DEF TypeOK, TablesOK
  <1>4. \A d \in Calls : CallInv(d, calls'[d], runs)
    BY <1>2, Zenon DEF TypeInv
  <1>5. \A d \in Calls : CallInv(d, calls'[d], runs')
    BY <1>4
  <1> QED
    BY <1>3, <1>5 DEF TypeInv

LEMMA TablesTyped ==
    ASSUME TypeInv
    PROVE  /\ TablesOK /\ calls \in [Calls -> Call]
           /\ \A c \in Calls : calls[c] \in Call /\ CallInv(c, calls[c], runs)
  BY DEF TypeInv, TypeOK, TablesOK

LEMMA EndsFit ==
    ASSUME TypeInv, NEW c \in Calls, ~At(c, "idle")
    PROVE  \A s \in {Over(c, "done"), Dead(c)} : s \in Call /\ CallInv(c, s, runs)
  <1> DEFINE k == calls[c]
  <1>1. k \in Call /\ CallInv(c, k, runs) /\ k.phase # "idle"
    BY TablesTyped DEF At
  <1> HIDE DEF k
  <1> SUFFICES ASSUME NEW s \in {Over(c, "done"), Dead(c)}
               PROVE  s \in Call /\ CallInv(c, s, runs)
    OBVIOUS
  <1>2. /\ s \in Call /\ s.phase \in Ended /\ s.kind = k.kind /\ s.mode = k.mode
        /\ s.place = k.place /\ s.run = k.run
    <2>1. CASE s = Over(c, "done")
      BY <1>1, <2>1, OverIs DEF k, Ended
    <2>2. CASE s = Dead(c)
      BY <1>1, <2>2, DeadIs DEF k, Ended
    <2> QED
      BY <2>1, <2>2
  <1>3. CallInv(c, s, runs)
    BY <1>1, <1>2 DEF CallInv, Ended, InLoop
  <1> QED
    BY <1>2, <1>3

LEMMA PatchTyped ==
    ASSUME NEW patch \in Patches
    PROVE  patch.id \in Ids /\ patch.ops \in Seq(Op) /\ patch.ops \in {p.ops : p \in Patches}
  <1>1. patch \in [id : Ids, ops : Seq(Op)]
    BY PatchingAssumption
  <1> QED
    BY <1>1

LEMMA OwnPatch ==
    ASSUME NEW c \in Calls, NEW patch \in PatchesOf[c]
    PROVE  patch \in Patches
  BY DEF Patches

(* What an operation that is permitted leaves in a file.                   *)
LEMMA AfterTyped ==
    ASSUME NEW op \in Op, NEW content \in {Absent} \cup Seq(Texts), NEW allowed,
           Permitted(op, content, allowed)
    PROVE  AfterText(op, content) \in Seq(Texts) /\ op.path \in Paths
  <1>1. op.path \in Paths /\ op.text \in Texts
        /\ op.type \in {"write_file", "append_text", "replace_text"}
    BY DEF Op
  <1>2. content = Absent => op.type = "write_file"
    BY Zenon DEF Permitted
  <1>3. CASE op.type = "write_file"
    BY <1>1, <1>3 DEF AfterText
  <1>4. CASE op.type = "append_text"
    <2>1. content \in Seq(Texts)
      BY <1>2, <1>4
    <2>2. AfterText(op, content) = Append(content, op.text)
      BY <1>4 DEF AfterText
    <2> QED
      BY <1>1, <2>1, <2>2
  <1>5. CASE op.type = "replace_text"
    <2> DEFINE f == [i \in DOMAIN content |->
                       IF content[i] = op.find THEN op.text ELSE content[i]]
    <2>1. content \in Seq(Texts)
      BY <1>2, <1>5
    <2>2. AfterText(op, content) = f
      BY <1>5 DEF AfterText
    <2>3. Len(content) \in Nat /\ DOMAIN content = 1..Len(content)
          /\ \A i \in 1..Len(content) : content[i] \in Texts
      BY <2>1
    <2>4. f \in [1..Len(content) -> Texts]
      BY <1>1, <2>3
    <2>5. f \in Seq(Texts)
      BY <2>3, <2>4
    <2> QED
      BY <1>1, <2>2, <2>5
  <1> QED
    BY <1>1, <1>3, <1>4, <1>5

LEMMA MaterializedTyped ==
    ASSUME trees \in [Places -> Tree]
    PROVE  Materialized \in Tree /\ Nothing \in Tree
  <1>1. Repo \in Places /\ BaseFiles \in Tree
    BY PatchingAssumption DEF Places, Tree
  <1>2. trees[Repo] \in [Paths -> {Absent} \cup Seq(Texts)]
    BY <1>1 DEF Tree
  <1>3. [p \in Paths |-> IF p \in Uncopied THEN Absent ELSE trees[Repo][p]] \in Tree
    BY <1>2 DEF Tree
  <1>4. Nothing \in Tree
    BY DEF Nothing, Tree
  <1> QED
    BY <1>1, <1>3, <1>4 DEF Materialized

-----------------------------------------------------------------------------
(* Each step keeps the types.                                              *)

LEMMA TypeInit == Init => TypeInv
  <1> SUFFICES ASSUME Init PROVE TypeInv
    OBVIOUS
  <1>1. Repo \in Places /\ BaseFiles \in Tree /\ Nothing \in Tree
    BY PatchingAssumption DEF Places, Tree, Nothing
  <1>2. trees \in [Places -> Tree]
    BY <1>1 DEF Init
  <1>3. /\ runs \in [Runs -> OrNone(Run)] /\ proposals \in [Ids -> OrNone(Proposal)]
        /\ executions \in [Calls -> [Numbers -> OrNone(Execution)]]
        /\ verifications \in [Calls -> [Numbers -> OrNone(Verification)]]
        /\ autofixes \in [Calls -> OrNone(Autofix)] /\ sandboxes \in [Calls -> OrNone(Sandbox)]
        /\ removed \subseteq Sandboxed
    BY DEF Init, OrNone
  <1>4. attempts \in [Calls -> Seq(Attempt)]
    BY DEF Init
  <1>5. calls \in [Calls -> Call] /\ \A c \in Calls : calls[c] = IdleCall
    BY IdleTyped DEF Init
  <1>6. TypeOK
    BY <1>2, <1>3, <1>4, <1>5 DEF TypeOK
  <1>7. \A c \in Calls : CallInv(c, IdleCall, runs)
    BY IdleTyped DEF CallInv, InLoop
  <1> QED
    BY <1>5, <1>6, <1>7 DEF TypeInv

LEMMA FailedRunTyped == FailedRun \in Run
  <1>1. <<>> \in Seq(Paths) /\ <<>> \in Seq(Commands)
    OBVIOUS
  <1> QED
    BY <1>1 DEF FailedRun, Run, Outcome

LEMMA PlanTyped ==
    ASSUME TypeInv, NEW r \in Runs, Plan(r)
    PROVE  TypeInv' /\ \A q \in Runs : runs[q] # None => runs'[q] = runs[q]
  <1>1. PICK row \in {PlannedRun(draft) : draft \in OrNone(Drafts)} \cup {FailedRun} :
          runs' = [runs EXCEPT ![r] = row]
    BY Zenon DEF Plan
  <1>2. row \in Run
    BY PlannedRunTyped, FailedRunTyped
  <1>3. runs \in [Runs -> OrNone(Run)] /\ runs[r] = None
    BY TablesTyped DEF TablesOK, Plan
  <1>4. runs' \in [Runs -> OrNone(Run)]
    BY <1>1, <1>2, <1>3 DEF OrNone
  <1>5. \A q \in Runs : runs[q] # None => runs'[q] = runs[q]
    BY <1>1, <1>3
  <1>6. /\ trees' = trees /\ proposals' = proposals /\ executions' = executions
        /\ verifications' = verifications /\ attempts' = attempts /\ autofixes' = autofixes
        /\ sandboxes' = sandboxes /\ removed' = removed /\ calls' = calls
    BY DEF Plan
  <1>7. TypeOK'
    BY <1>4, <1>6 DEF TypeInv, TypeOK
  <1>8. ASSUME NEW c \in Calls PROVE CallInv(c, calls[c], runs')
    <2> DEFINE k == calls[c]
    <2>1. k \in Call /\ CallInv(c, k, runs)
      BY TablesTyped
    <2> HIDE DEF k
    <2>2. k.run \in OrNone(Runs)
      BY <2>1 DEF Call
    <2>3. FoundIn(k.run, runs) => k.run \in Runs /\ FoundIn(k.run, runs')
                                  /\ runs'[k.run] = runs[k.run]
      BY <1>5, <2>2 DEF FoundIn, OrNone
    <2>4. FoundIn(k.run, runs) => CommandsIn(k.run, runs') = CommandsIn(k.run, runs)
      BY <2>3, Zenon DEF CommandsIn
    <2>5. CallInv(c, k, runs')
      BY <2>1, <2>3, <2>4 DEF CallInv, InLoop
    <2> QED
      BY <2>5 DEF k
  <1>9. \A c \in Calls : CallInv(c, calls'[c], runs')
    BY <1>6, <1>8
  <1> QED
    BY <1>5, <1>7, <1>9 DEF TypeInv

LEMMA CleanUpTyped ==
    ASSUME TypeInv, NEW s \in Sandboxed, CleanUp(s)
    PROVE  TypeInv'
  <1>1. TablesOK /\ calls \in [Calls -> Call] /\ \A c \in Calls : CallInv(c, calls[c], runs)
    BY TablesTyped
  <1>2. s \in Calls /\ s \in Places
    BY PatchingAssumption DEF Places
  <1>3. trees' \in [Places -> Tree]
    BY <1>1, <1>2, MaterializedTyped DEF CleanUp, TablesOK
  <1>4. sandboxes' \in [Calls -> OrNone(Sandbox)]
    <2>1. sandboxes[s] \in Sandbox
      BY <1>1, <1>2 DEF CleanUp, TablesOK, OrNone
    <2> DEFINE b == sandboxes[s]
    <2>2. sandboxes' = [sandboxes EXCEPT ![s] = [b EXCEPT !.status = "CLEANED_UP"]]
      BY DEF CleanUp
    <2> HIDE DEF b
    <2>3. [b EXCEPT !.status = "CLEANED_UP"] \in Sandbox
      BY <2>1 DEF Sandbox, b
    <2> QED
      BY <1>1, <2>2, <2>3 DEF TablesOK, OrNone
  <1>5. /\ runs' = runs /\ proposals' = proposals /\ executions' = executions
        /\ verifications' = verifications /\ attempts' = attempts /\ autofixes' = autofixes
        /\ removed' = removed \cup {s} /\ calls' = calls
    BY DEF CleanUp
  <1>6. TypeOK'
    BY <1>1, <1>3, <1>4, <1>5 DEF TablesOK, TypeOK
  <1>7. \A c \in Calls : CallInv(c, calls'[c], runs')
    BY <1>1, <1>5
  <1> QED
    BY <1>6, <1>7 DEF TypeInv

LEMMA NewCallTyped ==
    ASSUME NEW c \in Calls, NEW kind \in {"autofix", "patch", "verify"},
           NEW s \in Places, NEW r \in OrNone(Runs)
    PROVE  LET k == NewCall(c, kind, s, r) IN
           /\ k \in Call /\ k.phase = FirstPhase(c, kind) /\ k.kind = kind /\ k.place = s
           /\ k.run = r /\ k.mode = "apply" /\ k.number = 1 /\ k.patch = None /\ k.next = 1
           /\ k.changed = {} /\ k.target = None /\ k.ran = 0 /\ k.status = "SUCCEEDED"
           /\ k.reason = None /\ k.try = NoTry /\ k.latest = NoIds
  <1> DEFINE i == IdleCall
             k == [i EXCEPT !.phase = FirstPhase(c, kind), !.kind = kind, !.place = s, !.run = r]
  <1>1. /\ i \in Call /\ i.mode = "apply" /\ i.number = 1 /\ i.patch = None /\ i.next = 1
        /\ i.changed = {} /\ i.target = None /\ i.ran = 0 /\ i.status = "SUCCEEDED"
        /\ i.reason = None /\ i.try = NoTry /\ i.latest = NoIds
    BY IdleTyped
  <1>2. FirstPhase(c, kind) \in {"prepare", "start", "apply", "verify"}
    BY DEF FirstPhase
  <1>3. NewCall(c, kind, s, r) = k
    BY Zenon DEF NewCall
  <1> HIDE DEF i
  <1>4. /\ k \in Call /\ k.phase = FirstPhase(c, kind) /\ k.kind = kind /\ k.place = s /\ k.run = r
    BY <1>1, <1>2 DEF Call, Begun
  <1>5. /\ k.mode = "apply" /\ k.number = 1 /\ k.patch = None /\ k.next = 1
        /\ k.changed = {} /\ k.target = None /\ k.ran = 0 /\ k.status = "SUCCEEDED"
        /\ k.reason = None /\ k.try = NoTry /\ k.latest = NoIds
    BY <1>1 DEF Call
  <1> HIDE DEF k
  <1> QED
    BY <1>3, <1>4, <1>5

(* What a call begins with.                                                *)
LEMMA BeginIs ==
    ASSUME TypeInv, NEW c \in Calls, Begin(c)
    PROVE  /\ At(c, "idle") /\ UNCHANGED <<trees, tables, removed>>
           /\ \E s \in Call :
                /\ Becomes(c, s) /\ CallInv(c, s, runs)
                /\ s.phase \in {"prepare", "start", "apply", "verify"}
                /\ s.phase \in {"prepare", "apply"} /\ s.kind # "patch"
                     => s.phase = "prepare" /\ s.kind = "autofix"
                /\ s.kind = "verify" <=> s.phase = "verify"
                /\ s.phase # "prepare" => s.place = Repo \/ sandboxes[s.place] # None
                /\ c \in Sandboxed => s.phase = "prepare"
                /\ s.number = 1 /\ s.next = 1 /\ s.changed = {} /\ s.status = "SUCCEEDED"
                /\ s.ran = 0 /\ s.reason = None /\ s.try = NoTry /\ s.latest = NoIds
  <1>0. PICK kind \in KindsOf[c] : \E s \in PlacesFor(c, kind) :
          \/ kind = "autofix" /\ \E r \in Runs : BeginAutofix(c, s, r)
          \/ kind = "patch" /\ BeginPatch(c, s)
          \/ kind = "verify" /\ BeginVerify(c, s)
    BY Zenon DEF Begin
  <1>1. PICK s \in PlacesFor(c, kind) :
          \/ kind = "autofix" /\ \E r \in Runs : BeginAutofix(c, s, r)
          \/ kind = "patch" /\ BeginPatch(c, s)
          \/ kind = "verify" /\ BeginVerify(c, s)
    BY <1>0
  <1>2. At(c, "idle") /\ UNCHANGED <<trees, tables, removed>>
    BY Zenon DEF Begin
  <1>3. kind \in {"autofix", "patch", "verify"} /\ (c \in Sandboxed => kind # "verify")
    BY PatchingAssumption
  <1>4. /\ s \in Places
        /\ IF c \in Sandboxed THEN s = c ELSE kind = "autofix" => s = Repo
        /\ c \notin Sandboxed => s = Repo \/ sandboxes[s] # None
    BY DEF PlacesFor, Places
  <1>5. /\ FirstPhase(c, kind) \in {"prepare", "start", "apply", "verify"}
        /\ c \in Sandboxed => FirstPhase(c, kind) = "prepare"
        /\ c \notin Sandboxed /\ kind = "autofix" => FirstPhase(c, kind) = "start"
        /\ c \notin Sandboxed /\ kind = "patch" => FirstPhase(c, kind) = "apply"
        /\ c \notin Sandboxed /\ kind = "verify" => FirstPhase(c, kind) = "verify"
    BY <1>3 DEF FirstPhase
  <1> DEFINE Fits(k) ==
                /\ Becomes(c, k) /\ CallInv(c, k, runs)
                /\ k.phase \in {"prepare", "start", "apply", "verify"}
                /\ k.phase \in {"prepare", "apply"} /\ k.kind # "patch"
                     => k.phase = "prepare" /\ k.kind = "autofix"
                /\ k.kind = "verify" <=> k.phase = "verify"
                /\ k.phase # "prepare" => k.place = Repo \/ sandboxes[k.place] # None
                /\ c \in Sandboxed => k.phase = "prepare"
                /\ k.number = 1 /\ k.next = 1 /\ k.changed = {} /\ k.status = "SUCCEEDED"
                /\ k.ran = 0 /\ k.reason = None /\ k.try = NoTry /\ k.latest = NoIds
  <1>6. CASE kind = "autofix" /\ \E r \in Runs : BeginAutofix(c, s, r)
    <2>1. PICK r \in Runs : BeginAutofix(c, s, r)
      BY <1>6
    <2> DEFINE k == NewCall(c, "autofix", s, r)
    <2>2. /\ k \in Call /\ k.phase = FirstPhase(c, kind) /\ k.kind = kind /\ k.place = s
          /\ k.run = r /\ k.mode = "apply" /\ k.number = 1 /\ k.patch = None /\ k.next = 1
          /\ k.changed = {} /\ k.target = None /\ k.ran = 0 /\ k.status = "SUCCEEDED"
          /\ k.reason = None /\ k.try = NoTry /\ k.latest = NoIds
      BY <1>4, <1>6, NewCallTyped DEF OrNone
    <2>3. Becomes(c, k)
      BY <2>1 DEF BeginAutofix
    <2> HIDE DEF k
    <2>4. CallInv(c, k, runs)
      BY <1>4, <1>5, <1>6, <2>2 DEF CallInv, InLoop
    <2>5. Fits(k)
      BY <1>3, <1>4, <1>5, <1>6, <2>2, <2>3, <2>4
    <2> QED
      BY <1>2, <2>2, <2>5
  <1>7. CASE kind = "patch" /\ BeginPatch(c, s)
    <2>1. PICK patch \in PatchesOf[c], mode \in Modes, r \in OrNone(Runs) :
            /\ patch.ops # <<>> /\ (r = None \/ Found(r))
            /\ Becomes(c, [NewCall(c, "patch", s, r) EXCEPT !.patch = patch, !.mode = mode])
      BY <1>7, Zenon DEF BeginPatch
    <2> DEFINE n == NewCall(c, "patch", s, r)
               k == [n EXCEPT !.patch = patch, !.mode = mode]
    <2>2. /\ n \in Call /\ n.phase = FirstPhase(c, kind) /\ n.kind = kind /\ n.place = s
          /\ n.run = r /\ n.number = 1 /\ n.next = 1
          /\ n.changed = {} /\ n.target = None /\ n.ran = 0 /\ n.status = "SUCCEEDED"
          /\ n.reason = None /\ n.try = NoTry /\ n.latest = NoIds
      BY <1>4, <1>7, NewCallTyped
    <2>3. Becomes(c, k)
      BY <2>1
    <2>4. patch \in Patches /\ patch.ops \in Seq(Op)
      BY OwnPatch, PatchTyped
    <2> HIDE DEF n
    <2>5. k \in Call /\ k.patch = patch /\ k.mode = mode
      BY <2>2, <2>4 DEF Call, OrNone
    <2>6. /\ k.phase = FirstPhase(c, kind) /\ k.kind = kind /\ k.place = s
          /\ k.run = r /\ k.number = 1 /\ k.next = 1
          /\ k.changed = {} /\ k.target = None /\ k.ran = 0 /\ k.status = "SUCCEEDED"
          /\ k.reason = None /\ k.try = NoTry /\ k.latest = NoIds
      BY <2>2 DEF Call
    <2> HIDE DEF k
    <2>7. 1 \in 1..Len(patch.ops)
      BY <2>1, <2>4
    <2>8. r = None \/ FoundIn(r, runs)
      BY <2>1 DEF Found, FoundIn
    <2>9. CallInv(c, k, runs)
      BY <1>4, <1>5, <1>7, <2>1, <2>4, <2>5, <2>6, <2>7, <2>8 DEF CallInv, InLoop
    <2>10. Fits(k)
      BY <1>3, <1>4, <1>5, <1>7, <2>3, <2>6, <2>9
    <2> QED
      BY <1>2, <2>5, <2>10
  <1>8. CASE kind = "verify" /\ BeginVerify(c, s)
    <2> DEFINE n(r) == NewCall(c, "verify", s, r)
    <2>1. PICK r \in Runs, t \in OrNone(Calls \X Numbers) :
            Found(r) /\ Becomes(c, [n(r) EXCEPT !.target = t])
      <3>1. CASE \E r \in Runs : Found(r) /\ Becomes(c, NewCall(c, "verify", s, r))
        <4>1. PICK r \in Runs : Found(r) /\ Becomes(c, NewCall(c, "verify", s, r))
          BY <3>1
        <4>2. n(r) \in Call /\ n(r).target = None
          BY <1>4, NewCallTyped DEF OrNone
        <4> HIDE DEF n
        <4>3. n(r) = [n(r) EXCEPT !.target = None]
          BY <4>2 DEF Call
        <4> QED
          BY <4>1, <4>3 DEF OrNone, n
      <3>2. CASE \E e \in Calls, m \in Numbers :
                   /\ executions[e][m] # None /\ Found(executions[e][m].run)
                   /\ Becomes(c, [NewCall(c, "verify", s, executions[e][m].run) EXCEPT
                                    !.target = <<e, m>>])
        <4>1. PICK e \in Calls, m \in Numbers :
                   /\ executions[e][m] # None /\ Found(executions[e][m].run)
                   /\ Becomes(c, [NewCall(c, "verify", s, executions[e][m].run) EXCEPT
                                    !.target = <<e, m>>])
          BY <3>2
        <4>2. executions[e][m] \in Execution
          BY <4>1, TablesTyped DEF TablesOK, OrNone
        <4>3. executions[e][m].run \in Runs
          BY <4>1, <4>2 DEF Execution, OrNone, Found
        <4>4. <<e, m>> \in OrNone(Calls \X Numbers)
          BY DEF OrNone
        <4> QED
          BY <4>1, <4>3, <4>4
      <3> QED
        BY <1>8, <3>1, <3>2 DEF BeginVerify
    <2> DEFINE k == [n(r) EXCEPT !.target = t]
    <2>2. /\ n(r) \in Call /\ n(r).phase = FirstPhase(c, kind) /\ n(r).kind = kind
          /\ n(r).place = s /\ n(r).run = r /\ n(r).mode = "apply" /\ n(r).number = 1
          /\ n(r).patch = None /\ n(r).next = 1 /\ n(r).changed = {} /\ n(r).ran = 0
          /\ n(r).status = "SUCCEEDED" /\ n(r).reason = None /\ n(r).try = NoTry
          /\ n(r).latest = NoIds
      BY <1>4, <1>8, NewCallTyped DEF OrNone
    <2> HIDE DEF n
    <2>3. k \in Call
      BY <2>2 DEF Call
    <2>4. /\ k.phase = FirstPhase(c, kind) /\ k.kind = kind
          /\ k.place = s /\ k.run = r /\ k.mode = "apply" /\ k.number = 1
          /\ k.patch = None /\ k.next = 1 /\ k.changed = {} /\ k.ran = 0
          /\ k.status = "SUCCEEDED" /\ k.reason = None /\ k.try = NoTry /\ k.latest = NoIds
      BY <2>2 DEF Call
    <2>5. Becomes(c, k) /\ FoundIn(r, runs)
      BY <2>1 DEF Found, FoundIn
    <2> HIDE DEF k
    <2>6. CallInv(c, k, runs)
      BY <1>3, <1>4, <1>5, <1>8, <2>4, <2>5 DEF CallInv, InLoop
    <2>7. Fits(k)
      BY <1>3, <1>4, <1>5, <1>8, <2>4, <2>5, <2>6
    <2> QED
      BY <1>2, <2>3, <2>7
  <1> QED
    BY <1>1, <1>6, <1>7, <1>8

LEMMA BeginTyped ==
    ASSUME TypeInv, NEW c \in Calls, Begin(c)
    PROVE  TypeInv'
  <1>1. PICK s \in Call : Becomes(c, s) /\ CallInv(c, s, runs)
    BY BeginIs, Zenon
  <1>2. UNCHANGED <<trees, tables, removed>>
    BY BeginIs
  <1>3. TablesOK' /\ runs' = runs
    BY <1>2, TablesTyped DEF TablesOK, tables
  <1> QED
    BY <1>1, <1>3, Carried

-----------------------------------------------------------------------------
(* What each step of a call makes of its record and of the tables.         *)

(* The call goes on with s, for the same work in the same place.           *)
Moves(c, s) ==
    /\ Becomes(c, s) /\ CallInv(c, s, runs)
    /\ s.kind = calls[c].kind /\ s.mode = calls[c].mode
    /\ s.place = calls[c].place /\ s.run = calls[c].run

(* Where it is, and with what in hand; what its attempt has come to.       *)
SameHand(s, k) ==
    /\ s.number = k.number /\ s.patch = k.patch /\ s.next = k.next /\ s.changed = k.changed
    /\ s.target = k.target /\ s.ran = k.ran /\ s.reason = k.reason

SameTry(s, k) == s.try = k.try /\ s.latest = k.latest

Finishes(c, s) == s.phase \in {"use", "done"}

LEMMA DeadMoves ==
    ASSUME TypeInv, NEW c \in Calls, ~At(c, "idle"), Gone(c)
    PROVE  Dead(c) \in Call /\ Moves(c, Dead(c))
  <1>1. Becomes(c, Dead(c))
    BY DEF Gone, Dead
  <1>2. Dead(c) \in Call /\ CallInv(c, Dead(c), runs)
    BY EndsFit
  <1>3. calls[c] \in Call
    BY TablesTyped
  <1> QED
    BY <1>1, <1>2, <1>3, DeadIs DEF Moves

LEMMA FinishMoves ==
    ASSUME TypeInv, NEW c \in Calls, Finish(c),
           calls[c].phase \in {"execution", "verification", "save"}
    PROVE  \E s \in Call : Moves(c, s) /\ Finishes(c, s)
  <1> DEFINE k == calls[c]
  <1>1. k \in Call /\ CallInv(c, k, runs) /\ ~At(c, "idle")
    BY TablesTyped DEF At
  <1>2. CASE c \in Sandboxed
    <2> DEFINE s == [k EXCEPT !.phase = "use"]
    <2>1. Becomes(c, s)
      BY <1>2 DEF Finish, Continue
    <2> HIDE DEF k
    <2>2. /\ s \in Call /\ s.phase = "use" /\ s.kind = k.kind /\ s.mode = k.mode
          /\ s.place = k.place /\ s.run = k.run
      BY <1>1 DEF Call, Begun
    <2> HIDE DEF s
    <2>3. CallInv(c, s, runs)
      BY <1>1, <1>2, <2>2 DEF CallInv, InLoop, k
    <2> QED
      BY <2>1, <2>2, <2>3 DEF Moves, Finishes, k
  <1>3. CASE c \notin Sandboxed
    <2>1. Becomes(c, Over(c, "done"))
      BY <1>3 DEF Finish, Done
    <2>2. Over(c, "done") \in Call /\ CallInv(c, Over(c, "done"), runs)
      BY <1>1, EndsFit
    <2>3. /\ Over(c, "done").phase = "done" /\ Over(c, "done").kind = k.kind
          /\ Over(c, "done").mode = k.mode /\ Over(c, "done").place = k.place
          /\ Over(c, "done").run = k.run
      BY <1>1, OverIs DEF Ended
    <2> QED
      BY <2>1, <2>2, <2>3 DEF Moves, Finishes
  <1> QED
    BY <1>2, <1>3

LEMMA PrepareIs ==
    ASSUME TypeInv, NEW c \in Calls, Prepare(c)
    PROVE  \E s \in Call :
             /\ Moves(c, s) /\ c \in Sandboxed /\ calls[c].place = c
             /\ \/ /\ s.phase = AfterPrepare(c) /\ SameHand(s, calls[c]) /\ SameTry(s, calls[c])
                   /\ s.status = calls[c].status
                   /\ trees' = [trees EXCEPT ![c] = Materialized]
                   /\ sandboxes' = [sandboxes EXCEPT ![c] = NewSandbox("PREPARED")]
                \/ /\ s = Dead(c)
                   /\ trees' \in {trees, [trees EXCEPT ![c] = Materialized]}
                   /\ sandboxes' \in {sandboxes, [sandboxes EXCEPT ![c] = NewSandbox("FAILED")]}
  <1> DEFINE k == calls[c]
  <1>1. k \in Call /\ CallInv(c, k, runs) /\ k.phase = "prepare" /\ ~At(c, "idle")
    BY TablesTyped DEF At, Prepare
  <1>2. c \in Sandboxed /\ k.place = c /\ k.kind # "verify"
    BY <1>1 DEF CallInv
  <1>3. CASE /\ trees' = [trees EXCEPT ![c] = Materialized]
             /\ sandboxes' = [sandboxes EXCEPT ![c] = NewSandbox("PREPARED")]
             /\ Continue(c, AfterPrepare(c))
    <2> DEFINE s == [k EXCEPT !.phase = AfterPrepare(c)]
    <2>1. Becomes(c, s)
      BY <1>3 DEF Continue
    <2>2. /\ AfterPrepare(c) \in {"start", "apply"}
          /\ AfterPrepare(c) = "start" <=> k.kind = "autofix"
      BY DEF AfterPrepare
    <2> HIDE DEF k
    <2>3. /\ s \in Call /\ s.phase = AfterPrepare(c) /\ s.kind = k.kind /\ s.mode = k.mode
          /\ s.place = k.place /\ s.run = k.run /\ s.status = k.status
          /\ SameHand(s, k) /\ SameTry(s, k)
      BY <1>1, <2>2 DEF Call, Begun, SameHand, SameTry
    <2> HIDE DEF s
    <2>4. k.patch \in Patches => k.patch.ops \in Seq(Op)
      BY PatchTyped
    <2>5. CallInv(c, s, runs)
      <3>1. k.kind \in {"autofix", "patch", "verify"}
        BY <1>1 DEF Call
      <3>2. k.kind = "patch" => k.patch \in Patches /\ k.patch.ops # <<>>
        BY <1>1 DEF CallInv
      <3>3. k.kind = "patch" => 1 \in 1..Len(k.patch.ops)
        BY <3>2, <2>4
      <3>4. k.next = 1 /\ k.changed = {} /\ k.ran = 0
        BY <1>1 DEF CallInv
      <3> QED
        BY <1>1, <1>2, <2>2, <2>3, <3>1, <3>2, <3>3, <3>4 DEF CallInv, InLoop, SameHand
    <2> QED
      BY <1>2, <1>3, <2>1, <2>3, <2>5 DEF Moves, k
  <1>4. CASE /\ trees' \in {trees, [trees EXCEPT ![c] = Materialized]}
             /\ sandboxes' \in {sandboxes, [sandboxes EXCEPT ![c] = NewSandbox("FAILED")]}
             /\ Gone(c)
    <2>1. Dead(c) \in Call /\ Moves(c, Dead(c))
      BY <1>1, <1>4, DeadMoves
    <2> QED
      BY <1>2, <1>4, <2>1
  <1> QED
    BY <1>3, <1>4, Zenon DEF Prepare

LEMMA StartIs ==
    ASSUME TypeInv, NEW c \in Calls, Start(c)
    PROVE  \E s \in Call :
             /\ Moves(c, s) /\ calls[c].kind = "autofix"
             /\ \/ /\ s.phase = "generate" /\ SameHand(s, calls[c]) /\ SameTry(s, calls[c])
                   /\ s.status = calls[c].status /\ FoundIn(calls[c].run, runs)
                   /\ autofixes' = [autofixes EXCEPT ![c] = AutofixRow("RUNNING", NoIds)]
                \/ s = Dead(c) /\ autofixes' = autofixes
  <1> DEFINE k == calls[c]
  <1>1. k \in Call /\ CallInv(c, k, runs) /\ k.phase = "start" /\ ~At(c, "idle")
    BY TablesTyped DEF At, Start
  <1>2. k.kind = "autofix"
    BY <1>1 DEF CallInv
  <1>3. CASE /\ Found(calls[c].run)
             /\ autofixes' = [autofixes EXCEPT ![c] = AutofixRow("RUNNING", NoIds)]
             /\ Continue(c, "generate")
    <2> DEFINE s == [k EXCEPT !.phase = "generate"]
    <2>1. Becomes(c, s) /\ FoundIn(k.run, runs)
      BY <1>3 DEF Continue, Found, FoundIn
    <2> HIDE DEF k
    <2>2. /\ s \in Call /\ s.phase = "generate" /\ s.kind = k.kind /\ s.mode = k.mode
          /\ s.place = k.place /\ s.run = k.run /\ s.status = k.status
          /\ SameHand(s, k) /\ SameTry(s, k)
      BY <1>1 DEF Call, Begun, SameHand, SameTry
    <2> HIDE DEF s
    <2>3. CallInv(c, s, runs)
      BY <1>1, <1>2, <2>1, <2>2 DEF CallInv, InLoop, SameHand
    <2> QED
      BY <1>2, <1>3, <2>1, <2>2, <2>3 DEF Moves, k
  <1>4. CASE Gone(c) /\ UNCHANGED autofixes
    <2>1. Dead(c) \in Call /\ Moves(c, Dead(c))
      BY <1>1, <1>4, DeadMoves
    <2> QED
      BY <1>2, <1>4, <2>1
  <1> QED
    BY <1>3, <1>4, Zenon DEF Start

LEMMA GenerateIs ==
    ASSUME TypeInv, NEW c \in Calls, Generate(c)
    PROVE  \E s \in Call :
             /\ Moves(c, s) /\ calls[c].kind = "autofix" /\ FoundIn(calls[c].run, runs)
             /\ s.number = calls[c].number /\ s.changed = calls[c].changed
             /\ s.target = calls[c].target
             /\ \/ \E patch \in PatchesOf[c] :
                     /\ MayGenerate(c, patch) /\ s.phase = "apply" /\ s.patch = patch
                     /\ s.status = calls[c].status
                     /\ s.try = [calls[c].try EXCEPT !.proposal = patch.id]
                     /\ s.latest = [calls[c].latest EXCEPT !.proposal = patch.id]
                     /\ proposals' = [proposals EXCEPT ![patch.id] =
                                        [run |-> calls[c].run, ops |-> patch.ops]]
                \/ /\ s.phase = "attempt" /\ s.try = [calls[c].try EXCEPT !.status = "FAILED"]
                   /\ s.latest = calls[c].latest /\ s.patch = calls[c].patch
                   /\ s.status = calls[c].status /\ proposals' = proposals
  <1> DEFINE k == calls[c]
  <1>1. k \in Call /\ CallInv(c, k, runs) /\ k.phase = "generate" /\ ~At(c, "idle")
    BY TablesTyped DEF At, Generate
  <1>2. /\ k.kind = "autofix" /\ FoundIn(k.run, runs) /\ k.next = 1 /\ k.changed = {}
        /\ k.ran = 0
    BY <1>1 DEF CallInv, InLoop
  <1>3. k.try \in Attempt /\ k.latest \in Latest
    BY <1>1 DEF Call
  <1>4. ASSUME NEW patch \in PatchesOf[c], MayGenerate(c, patch),
               proposals' = [proposals EXCEPT ![patch.id] =
                               [run |-> calls[c].run, ops |-> patch.ops]],
               Becomes(c, [calls[c] EXCEPT !.phase = "apply", !.patch = patch,
                             !.try.proposal = patch.id, !.latest.proposal = patch.id])
        PROVE  \E s \in Call :
             /\ Moves(c, s) /\ s.number = k.number /\ s.changed = k.changed
             /\ s.target = k.target
             /\ MayGenerate(c, patch) /\ s.phase = "apply" /\ s.patch = patch
             /\ s.status = k.status
             /\ s.try = [k.try EXCEPT !.proposal = patch.id]
             /\ s.latest = [k.latest EXCEPT !.proposal = patch.id]
    <2> DEFINE t == k.try
               l == k.latest
               t2 == [t EXCEPT !.proposal = patch.id]
               l2 == [l EXCEPT !.proposal = patch.id]
               s == [k EXCEPT !.phase = "apply", !.patch = patch, !.try = t2, !.latest = l2]
    <2>1. Becomes(c, s)
      BY <1>4
    <2>2. patch \in Patches /\ patch.id \in Ids /\ patch.ops \in Seq(Op)
      BY OwnPatch, PatchTyped
    <2>3. patch.ops # <<>>
      BY <1>4, Zenon DEF MayGenerate
    <2>4. t2 \in Attempt /\ l2 \in Latest
      <3> HIDE DEF t, l
      <3>1. t \in Attempt /\ l \in Latest
        BY <1>3 DEF t, l
      <3> QED
        BY <2>2, <3>1 DEF Attempt, Latest, OrNone
    <2> HIDE DEF t2, l2, k
    <2>5. /\ s \in Call /\ s.phase = "apply" /\ s.kind = k.kind /\ s.mode = k.mode
          /\ s.place = k.place /\ s.run = k.run /\ s.status = k.status /\ s.patch = patch
          /\ s.number = k.number /\ s.changed = k.changed /\ s.target = k.target
          /\ s.next = k.next /\ s.ran = k.ran /\ s.try = t2 /\ s.latest = l2
      BY <1>1, <2>2, <2>4 DEF Call, Begun, OrNone
    <2> HIDE DEF s
    <2>6. 1 \in 1..Len(patch.ops)
      BY <2>2, <2>3
    <2>7. CallInv(c, s, runs)
      BY <1>1, <1>2, <2>2, <2>3, <2>5, <2>6 DEF CallInv, InLoop
    <2> QED
      BY <1>4, <2>1, <2>5, <2>7 DEF Moves, k, t2, l2
  <1>5. ASSUME FailAttempt(c)
        PROVE  \E s \in Call :
             /\ Moves(c, s) /\ s.number = k.number /\ s.changed = k.changed
             /\ s.target = k.target /\ s.phase = "attempt"
             /\ s.try = [k.try EXCEPT !.status = "FAILED"]
             /\ s.latest = k.latest /\ s.patch = k.patch /\ s.status = k.status
    <2> DEFINE t == k.try
               t2 == [t EXCEPT !.status = "FAILED"]
               s == [k EXCEPT !.phase = "attempt", !.try = t2]
    <2>1. Becomes(c, s)
      BY <1>5 DEF FailAttempt
    <2>2. t2 \in Attempt
      <3> HIDE DEF t
      <3>1. t \in Attempt
        BY <1>3 DEF t
      <3> QED
        BY <3>1 DEF Attempt, Outcome
    <2> HIDE DEF t2, k
    <2>3. /\ s \in Call /\ s.phase = "attempt" /\ s.kind = k.kind /\ s.mode = k.mode
          /\ s.place = k.place /\ s.run = k.run /\ s.status = k.status /\ s.patch = k.patch
          /\ s.number = k.number /\ s.changed = k.changed /\ s.target = k.target
          /\ s.next = k.next /\ s.ran = k.ran /\ s.try = t2 /\ s.latest = k.latest
      BY <1>1, <2>2 DEF Call, Begun
    <2> HIDE DEF s
    <2>4. CallInv(c, s, runs)
      BY <1>1, <1>2, <2>3 DEF CallInv, InLoop
    <2> QED
      BY <2>1, <2>3, <2>4 DEF Moves, k, t2
  <1>6. \/ \E patch \in PatchesOf[c] :
            /\ MayGenerate(c, patch)
            /\ proposals' = [proposals EXCEPT ![patch.id] =
                               [run |-> calls[c].run, ops |-> patch.ops]]
            /\ Becomes(c, [calls[c] EXCEPT !.phase = "apply", !.patch = patch,
                             !.try.proposal = patch.id, !.latest.proposal = patch.id])
        \/ FailAttempt(c) /\ UNCHANGED proposals
    BY Zenon DEF Generate
  <1> HIDE DEF k
  <1>7. CASE \E patch \in PatchesOf[c] :
            /\ MayGenerate(c, patch)
            /\ proposals' = [proposals EXCEPT ![patch.id] =
                               [run |-> calls[c].run, ops |-> patch.ops]]
            /\ Becomes(c, [calls[c] EXCEPT !.phase = "apply", !.patch = patch,
                             !.try.proposal = patch.id, !.latest.proposal = patch.id])
    <2>1. PICK patch \in PatchesOf[c] :
            /\ MayGenerate(c, patch)
            /\ proposals' = [proposals EXCEPT ![patch.id] =
                               [run |-> calls[c].run, ops |-> patch.ops]]
            /\ Becomes(c, [calls[c] EXCEPT !.phase = "apply", !.patch = patch,
                             !.try.proposal = patch.id, !.latest.proposal = patch.id])
      BY <1>7
    <2>2. PICK s \in Call :
             /\ Moves(c, s) /\ s.number = k.number /\ s.changed = k.changed
             /\ s.target = k.target
             /\ MayGenerate(c, patch) /\ s.phase = "apply" /\ s.patch = patch
             /\ s.status = k.status
             /\ s.try = [k.try EXCEPT !.proposal = patch.id]
             /\ s.latest = [k.latest EXCEPT !.proposal = patch.id]
      BY <1>4, <2>1
    <2> QED
      BY <1>2, <2>1, <2>2, Zenon DEF k
  <1>8. CASE FailAttempt(c) /\ UNCHANGED proposals
    BY <1>2, <1>5, <1>8, Zenon DEF k
  <1> QED
    BY <1>6, <1>7, <1>8

(* The operation is permitted, and what it changes, by its receipt, it     *)
(* changes in the tree unless this is a dry run.                           *)
LEMMA ApplyIs ==
    ASSUME TypeInv, NEW c \in Calls, Apply(c)
    PROVE  \E s \in Call :
             LET k == calls[c]
                 op == Operation(c)
                 tree == trees[k.place]
                 after == AfterText(op, tree[op.path])
             IN
             /\ Moves(c, s) /\ k.phase = "apply" /\ k.patch \in Patches
             /\ s.number = k.number /\ s.target = k.target /\ s.patch = k.patch
             /\ SameTry(s, k)
             /\ \/ /\ op \in Op /\ op.path \in Paths
                   /\ \E i \in DOMAIN k.patch.ops : k.patch.ops[i] = op
                   /\ Permitted(op, tree[op.path], AllowedOf(k.run))
                   /\ after \in Seq(Texts)
                   /\ trees' = IF k.mode = "apply"
                               THEN [trees EXCEPT ![k.place][op.path] = after] ELSE trees
                   /\ s.changed = IF after # tree[op.path] THEN k.changed \cup {op.path}
                                  ELSE k.changed
                   /\ s.phase \in {"apply", "execution"} /\ s.status = "SUCCEEDED"
                \/ /\ s.phase = "execution" /\ s.status = "FAILED" /\ s.changed = k.changed
                   /\ trees' = trees
  <1> DEFINE k == calls[c]
             op == Operation(c)
             tree == trees[k.place]
             after == AfterText(op, tree[op.path])
  <1>1. k \in Call /\ CallInv(c, k, runs) /\ k.phase = "apply" /\ ~At(c, "idle")
    BY TablesTyped DEF At, Apply
  <1>2. /\ k.patch \in Patches /\ k.patch.ops # <<>> /\ k.next \in 1..Len(k.patch.ops)
        /\ k.kind # "verify" /\ k.ran = 0
        /\ k.kind = "autofix" => FoundIn(k.run, runs)
    BY <1>1 DEF CallInv, InLoop
  <1>3. k.patch.ops \in Seq(Op) /\ op = k.patch.ops[k.next]
    BY <1>2, PatchTyped DEF Operation
  <1>4. op \in Op /\ op.path \in Paths /\ \E i \in DOMAIN k.patch.ops : k.patch.ops[i] = op
    <2> HIDE DEF op, k
    <2>1. op \in Op /\ \E i \in DOMAIN k.patch.ops : k.patch.ops[i] = op
      BY <1>2, <1>3
    <2> QED
      BY <2>1 DEF Op
  <1>5. tree[op.path] \in {Absent} \cup Seq(Texts)
    <2>1. k.place \in Places /\ trees \in [Places -> Tree]
      BY <1>1, TablesTyped DEF Call, TablesOK
    <2> HIDE DEF op, k
    <2> QED
      BY <1>4, <2>1 DEF Tree
  <1>6. ASSUME Mutate(c)
        PROVE  \E s \in Call :
             /\ Moves(c, s)
             /\ s.number = k.number /\ s.target = k.target /\ s.patch = k.patch
             /\ SameTry(s, k)
             /\ Permitted(op, tree[op.path], AllowedOf(k.run))
             /\ after \in Seq(Texts)
             /\ trees' = IF k.mode = "apply"
                         THEN [trees EXCEPT ![k.place][op.path] = after] ELSE trees
             /\ s.changed = IF after # tree[op.path] THEN k.changed \cup {op.path}
                            ELSE k.changed
             /\ s.phase \in {"apply", "execution"} /\ s.status = "SUCCEEDED"
    <2> DEFINE phase == IF k.next = Len(k.patch.ops) THEN "execution" ELSE "apply"
               changed == IF after # tree[op.path] THEN k.changed \cup {op.path} ELSE k.changed
               next == k.next + 1
               s == [k EXCEPT !.changed = changed, !.next = next, !.phase = phase,
                              !.status = "SUCCEEDED"]
    <2>1. /\ Permitted(op, tree[op.path], AllowedOf(k.run))
          /\ trees' = IF k.mode = "apply"
                      THEN [trees EXCEPT ![k.place][op.path] = after] ELSE trees
      BY <1>6, Zenon DEF Mutate
    <2>2. Becomes(c, s)
      BY <1>6 DEF Mutate
    <2>3. after \in Seq(Texts)
      BY <1>4, <1>5, <2>1, AfterTyped
    <2> HIDE DEF after, tree, op, k
    <2>4. k.changed \in SUBSET Paths /\ k.next \in Nat
      BY <1>1 DEF Call
    <2>5. changed \in SUBSET Paths /\ next \in Nat /\ phase \in {"apply", "execution"}
      BY <1>4, <2>4
    <2>6. phase = "apply" => next \in 1..Len(k.patch.ops)
      BY <1>2, <1>3
    <2> HIDE DEF changed, next, phase
    <2>7. /\ s \in Call /\ s.phase = phase /\ s.kind = k.kind /\ s.mode = k.mode
          /\ s.place = k.place /\ s.run = k.run /\ s.status = "SUCCEEDED" /\ s.patch = k.patch
          /\ s.number = k.number /\ s.changed = changed /\ s.target = k.target
          /\ s.next = next /\ s.ran = k.ran /\ s.try = k.try /\ s.latest = k.latest
      BY <1>1, <2>5 DEF Call, Begun, Outcome
    <2> HIDE DEF s
    <2>8. CallInv(c, s, runs)
      BY <1>1, <1>2, <2>5, <2>6, <2>7 DEF CallInv, InLoop
    <2>9. Moves(c, s) /\ SameTry(s, k)
      BY <2>2, <2>7, <2>8 DEF Moves, SameTry, k
    <2> QED
      BY <2>1, <2>3, <2>5, <2>7, <2>9 DEF changed, phase
  <1>7. ASSUME FailExecution(c)
        PROVE  \E s \in Call :
             /\ Moves(c, s)
             /\ s.number = k.number /\ s.target = k.target /\ s.patch = k.patch
             /\ SameTry(s, k)
             /\ s.phase = "execution" /\ s.status = "FAILED" /\ s.changed = k.changed
    <2> DEFINE s == [k EXCEPT !.phase = "execution", !.status = "FAILED"]
    <2>1. Becomes(c, s)
      BY <1>7 DEF FailExecution
    <2> HIDE DEF k
    <2>2. /\ s \in Call /\ s.phase = "execution" /\ s.kind = k.kind /\ s.mode = k.mode
          /\ s.place = k.place /\ s.run = k.run /\ s.status = "FAILED" /\ s.patch = k.patch
          /\ s.number = k.number /\ s.changed = k.changed /\ s.target = k.target
          /\ s.next = k.next /\ s.ran = k.ran /\ s.try = k.try /\ s.latest = k.latest
      BY <1>1 DEF Call, Begun, Outcome
    <2> HIDE DEF s
    <2>3. CallInv(c, s, runs)
      BY <1>1, <1>2, <2>2 DEF CallInv, InLoop
    <2> QED
      BY <2>1, <2>2, <2>3 DEF Moves, SameTry, k
  <1>8. Mutate(c) \/ (FailExecution(c) /\ trees' = trees)
    BY Zenon DEF Apply
  <1> HIDE DEF op, tree, after
  <1>9. CASE Mutate(c)
    <2>1. PICK s \in Call :
             /\ Moves(c, s)
             /\ s.number = k.number /\ s.target = k.target /\ s.patch = k.patch
             /\ SameTry(s, k)
             /\ Permitted(op, tree[op.path], AllowedOf(k.run))
             /\ after \in Seq(Texts)
             /\ trees' = IF k.mode = "apply"
                         THEN [trees EXCEPT ![k.place][op.path] = after] ELSE trees
             /\ s.changed = IF after # tree[op.path] THEN k.changed \cup {op.path}
                            ELSE k.changed
             /\ s.phase \in {"apply", "execution"} /\ s.status = "SUCCEEDED"
      BY <1>6, <1>9
    <2> QED
      BY <1>1, <1>2, <1>4, <2>1, Zenon DEF op, tree, after
  <1>10. CASE FailExecution(c) /\ trees' = trees
    BY <1>1, <1>2, <1>7, <1>10, Zenon DEF op, tree, after
  <1> QED
    BY <1>8, <1>9, <1>10

LEMMA SaveExecutionIs ==
    ASSUME TypeInv, NEW c \in Calls, SaveExecution(c)
    PROVE  \E s \in Call :
             LET k == calls[c] IN
             /\ Moves(c, s) /\ k.phase = "execution" /\ k.patch \in Patches
             /\ \/ /\ executions' = [executions EXCEPT ![c][k.number] = NewExecution(c)]
                   /\ k.kind = "patch" /\ Finishes(c, s)
                \/ /\ executions' = [executions EXCEPT ![c][k.number] = NewExecution(c)]
                   /\ k.kind = "autofix" /\ s.number = k.number /\ s.patch = k.patch
                   /\ s.status = k.status /\ s.changed = {} /\ s.target = <<c, k.number>>
                   /\ s.phase = IF k.status = "SUCCEEDED" THEN "verify" ELSE "attempt"
                   /\ s.try = [k.try EXCEPT !.execution = k.number]
                   /\ s.latest = [k.latest EXCEPT !.execution = k.number]
                \/ /\ executions' = executions /\ k.status = "SUCCEEDED"
                   /\ s.phase = "execution" /\ s.status = "FAILED" /\ SameTry(s, k)
                   /\ s.number = k.number /\ s.patch = k.patch /\ s.target = k.target
                   /\ s.changed = k.changed
                \/ /\ executions' = executions /\ k.status = "FAILED" /\ k.kind = "patch"
                   /\ s = Dead(c)
                \/ /\ executions' = executions /\ k.status = "FAILED" /\ k.kind = "autofix"
                   /\ s.phase = "attempt" /\ SameTry(s, k) /\ s.status = k.status
                   /\ s.number = k.number /\ s.patch = k.patch /\ s.target = k.target
                   /\ s.changed = {}
  <1> DEFINE k == calls[c]
             Saved == executions' = [executions EXCEPT ![c][k.number] = NewExecution(c)]
  <1>1. k \in Call /\ CallInv(c, k, runs) /\ k.phase = "execution" /\ ~At(c, "idle")
    BY TablesTyped DEF At, SaveExecution
  <1>2. /\ k.patch \in Patches /\ k.patch.ops # <<>> /\ k.kind \in {"autofix", "patch"}
        /\ k.ran = 0 /\ k.kind = "autofix" => FoundIn(k.run, runs)
    BY <1>1 DEF CallInv, InLoop, Call
  <1>3. \/ Saved /\ Executed(c)
        \/ k.status = "SUCCEEDED" /\ FailExecution(c) /\ executions' = executions
        \/ /\ k.status = "FAILED" /\ executions' = executions
           /\ IF k.kind = "patch" THEN Gone(c)
              ELSE Becomes(c, [k EXCEPT !.phase = "attempt", !.next = 1, !.changed = {}])
    BY Zenon DEF SaveExecution
  <1>4. CASE Saved /\ Executed(c) /\ k.kind = "patch"
    <2>1. Finish(c)
      BY <1>4 DEF Executed
    <2>2. \E s \in Call : Moves(c, s) /\ Finishes(c, s)
      BY <1>1, <2>1, FinishMoves
    <2> QED
      BY <1>1, <1>2, <1>4, <2>2, Zenon
  <1>5. CASE Saved /\ Executed(c) /\ k.kind = "autofix"
    <2> DEFINE n == k.number
               t == k.try
               l == k.latest
               t2 == [t EXCEPT !.execution = n]
               l2 == [l EXCEPT !.execution = n]
               phase == IF k.status = "SUCCEEDED" THEN "verify" ELSE "attempt"
               i == [k EXCEPT !.next = 1, !.changed = {}]
               s == [i EXCEPT !.phase = phase, !.target = <<c, n>>, !.try = t2, !.latest = l2]
    <2>1. n \in Numbers /\ t \in Attempt /\ l \in Latest
      BY <1>1 DEF Call
    <2>2. /\ i \in Call /\ i.kind = k.kind /\ i.mode = k.mode /\ i.place = k.place
          /\ i.run = k.run /\ i.status = k.status /\ i.patch = k.patch /\ i.ran = k.ran
          /\ i.number = n /\ i.changed = {} /\ i.next = 1 /\ i.try = t /\ i.latest = l
      <3> HIDE DEF k
      <3> QED
        BY <1>1 DEF Call
    <2>3. Becomes(c, [i EXCEPT !.phase = IF i.status = "SUCCEEDED" THEN "verify" ELSE "attempt",
               !.target = <<c, n>>, !.try.execution = n, !.latest.execution = n])
      BY <1>5 DEF Executed
    <2> HIDE DEF i
    <2>4. Becomes(c, s)
      BY <2>2, <2>3
    <2>5. t2 \in Attempt /\ l2 \in Latest
      <3> HIDE DEF t, l, n
      <3> QED
        BY <2>1 DEF Attempt, Latest, OrNone
    <2>6. <<c, n>> \in OrNone(Calls \X Numbers) /\ phase \in {"verify", "attempt"}
      BY <2>1 DEF OrNone
    <2> HIDE DEF t2, l2, phase, k, n
    <2>7. /\ s \in Call /\ s.phase = phase /\ s.kind = i.kind /\ s.mode = i.mode
          /\ s.place = i.place /\ s.run = i.run /\ s.status = i.status /\ s.patch = i.patch
          /\ s.number = i.number /\ s.changed = i.changed /\ s.target = <<c, n>>
          /\ s.next = i.next /\ s.ran = i.ran /\ s.try = t2 /\ s.latest = l2
      BY <2>2, <2>5, <2>6 DEF Call, Begun
    <2> HIDE DEF s
    <2>8. CallInv(c, s, runs)
      BY <1>1, <1>2, <1>5, <2>2, <2>6, <2>7 DEF CallInv, InLoop
    <2>9. Moves(c, s)
      BY <2>2, <2>4, <2>7, <2>8 DEF Moves, k
    <2> QED
      BY <1>1, <1>2, <1>5, <2>2, <2>7, <2>9 DEF k, n, phase, t2, l2
  <1>6. CASE k.status = "SUCCEEDED" /\ FailExecution(c) /\ executions' = executions
    <2> DEFINE s == [k EXCEPT !.phase = "execution", !.status = "FAILED"]
    <2>1. Becomes(c, s)
      BY <1>6 DEF FailExecution
    <2> HIDE DEF k
    <2>2. /\ s \in Call /\ s.phase = "execution" /\ s.kind = k.kind /\ s.mode = k.mode
          /\ s.place = k.place /\ s.run = k.run /\ s.status = "FAILED" /\ s.patch = k.patch
          /\ s.number = k.number /\ s.changed = k.changed /\ s.target = k.target
          /\ s.next = k.next /\ s.ran = k.ran /\ s.try = k.try /\ s.latest = k.latest
      BY <1>1 DEF Call, Begun, Outcome
    <2> HIDE DEF s
    <2>3. CallInv(c, s, runs)
      BY <1>1, <1>2, <2>2 DEF CallInv, InLoop
    <2>4. Moves(c, s) /\ SameTry(s, k)
      BY <2>1, <2>2, <2>3 DEF Moves, SameTry, k
    <2> QED
      BY <1>1, <1>2, <1>6, <2>2, <2>4 DEF k
  <1>7. CASE k.status = "FAILED" /\ executions' = executions /\ k.kind = "patch" /\ Gone(c)
    <2>1. Dead(c) \in Call /\ Moves(c, Dead(c))
      BY <1>1, <1>7, DeadMoves
    <2> QED
      BY <1>1, <1>2, <1>7, <2>1
  <1>8. CASE /\ k.status = "FAILED" /\ executions' = executions /\ k.kind = "autofix"
             /\ Becomes(c, [k EXCEPT !.phase = "attempt", !.next = 1, !.changed = {}])
    <2> DEFINE s == [k EXCEPT !.phase = "attempt", !.next = 1, !.changed = {}]
    <2>1. Becomes(c, s)
      BY <1>8
    <2> HIDE DEF k
    <2>2. /\ s \in Call /\ s.phase = "attempt" /\ s.kind = k.kind /\ s.mode = k.mode
          /\ s.place = k.place /\ s.run = k.run /\ s.status = k.status /\ s.patch = k.patch
          /\ s.number = k.number /\ s.changed = {} /\ s.target = k.target
          /\ s.next = 1 /\ s.ran = k.ran /\ s.try = k.try /\ s.latest = k.latest
      BY <1>1 DEF Call, Begun
    <2> HIDE DEF s
    <2>3. CallInv(c, s, runs)
      BY <1>1, <1>2, <1>8, <2>2 DEF CallInv, InLoop
    <2>4. Moves(c, s) /\ SameTry(s, k)
      BY <2>1, <2>2, <2>3 DEF Moves, SameTry, k
    <2> QED
      BY <1>1, <1>2, <1>8, <2>2, <2>4 DEF k
  <1> HIDE DEF Saved, k
  <1> QED
    BY <1>2, <1>3, <1>4, <1>5, <1>6, <1>7, <1>8

(* A verification that succeeds has seen a command of the plan or of its   *)
(* context, one that the policy allows, pass in the tree.                  *)
SeenToPass(r, tree) ==
    \E command \in ToSet(Candidates(runs[r].plan, runs[r].context)) :
        Decision(command) = "allow" /\ Passes(command, tree)

LEMMA VerifyIs ==
    ASSUME TypeInv, NEW c \in Calls, Verify(c)
    PROVE  \E s \in Call :
             LET k == calls[c] IN
             /\ Moves(c, s) /\ k.phase = "verify" /\ k.kind # "patch"
             /\ s.number = k.number /\ s.patch = k.patch /\ s.target = k.target
             /\ SameTry(s, k) /\ s.changed = k.changed
             /\ \/ s.phase = "verify" /\ s.status = k.status
                \/ /\ s.phase = "verification"
                   /\ s.status = "SUCCEEDED" => SeenToPass(k.run, trees[k.place])
  <1> DEFINE k == calls[c]
             commands == CommandsOf(k.run)
  <1>1. k \in Call /\ CallInv(c, k, runs) /\ k.phase = "verify" /\ ~At(c, "idle")
    BY TablesTyped DEF At, Verify
  <1>2. /\ k.kind # "patch" /\ k.next = 1 /\ k.changed = {} /\ FoundIn(k.run, runs)
        /\ k.ran = 0 \/ k.ran < Len(CommandsIn(k.run, runs))
    BY <1>1 DEF CallInv, InLoop
  <1>3. commands = CommandsIn(k.run, runs)
    BY DEF CommandsOf, CommandsIn
  <1>4. runs[k.run] \in Run
    <2>1. k.run \in Runs
      BY <1>1, <1>2 DEF Call, FoundIn, OrNone
    <2> QED
      BY <1>2, <2>1, TablesTyped DEF TablesOK, FoundIn, OrNone
  <1>5. /\ commands \in Seq(Commands) /\ Len(commands) \in Nat
        /\ Len(commands) <= VerifyMaxAttempts
        /\ \A i \in 1..Len(commands) :
             /\ commands[i] \in ToSet(Candidates(runs[k.run].plan, runs[k.run].context))
             /\ Decision(commands[i]) = "allow"
    BY <1>3, <1>4, CommandsAllowed
  <1> HIDE DEF commands
  <1>6. ASSUME NEW status \in Outcome, NEW reason \in Reasons, Verified(c, status, reason)
        PROVE  \E s \in Call :
                 /\ Moves(c, s) /\ s.number = k.number /\ s.patch = k.patch
                 /\ s.target = k.target /\ SameTry(s, k) /\ s.changed = k.changed
                 /\ s.phase = "verification" /\ s.status = status
    <2> DEFINE s == [k EXCEPT !.phase = "verification", !.status = status, !.reason = reason]
    <2>1. Becomes(c, s)
      BY <1>6 DEF Verified
    <2> HIDE DEF k
    <2>2. reason # None
      BY NoneAssumption
    <2>3. /\ s \in Call /\ s.phase = "verification" /\ s.kind = k.kind /\ s.mode = k.mode
          /\ s.place = k.place /\ s.run = k.run /\ s.status = status /\ s.patch = k.patch
          /\ s.number = k.number /\ s.changed = k.changed /\ s.target = k.target
          /\ s.next = k.next /\ s.reason = reason /\ s.try = k.try /\ s.latest = k.latest
      BY <1>1 DEF Call, Begun, OrNone
    <2> HIDE DEF s
    <2>4. CallInv(c, s, runs)
      BY <1>1, <1>2, <2>2, <2>3 DEF CallInv, InLoop
    <2> QED
      BY <2>1, <2>3, <2>4 DEF Moves, SameTry, k
  <1>7. CASE NoCommand(c)
    <2>1. PICK reason \in Reasons : Verified(c, "FAILED", reason)
      BY <1>7 DEF NoCommand, Reasons
    <2> QED
      BY <1>1, <1>2, <1>6, <2>1 DEF Outcome
  <1>8. CASE CommandRaises(c)
    <2>1. Verified(c, "FAILED", "execution_error") /\ "execution_error" \in Reasons
      BY <1>8 DEF CommandRaises, Reasons
    <2> QED
      BY <1>1, <1>2, <1>6, <2>1 DEF Outcome
  <1>9. CASE RunCommand(c)
    <2> DEFINE tree == trees[k.place]
               ran == k.ran + 1
    <2>1. /\ commands # <<>>
          /\ IF Passes(commands[ran], tree) THEN Verified(c, "SUCCEEDED", "success")
             ELSE IF ran = Len(commands) THEN Verified(c, "FAILED", LastReason(ran))
             ELSE Becomes(c, [k EXCEPT !.ran = ran])
      BY <1>9, Zenon DEF RunCommand, commands
    <2>2. ran \in 1..Len(commands)
      <3>1. k.ran \in Nat
        BY <1>1, Numbered DEF Call
      <3> QED
        BY <1>2, <1>3, <1>5, <2>1, <3>1
    <2> HIDE DEF ran, tree
    <2>3. CASE Passes(commands[ran], tree)
      <3>1. Verified(c, "SUCCEEDED", "success")
        BY <2>1, <2>3
      <3>2. SeenToPass(k.run, tree)
        BY <1>5, <2>2, <2>3 DEF SeenToPass
      <3>3. PICK s \in Call :
                 /\ Moves(c, s) /\ s.number = k.number /\ s.patch = k.patch
                 /\ s.target = k.target /\ SameTry(s, k) /\ s.changed = k.changed
                 /\ s.phase = "verification" /\ s.status = "SUCCEEDED"
        BY <1>6, <3>1 DEF Outcome, Reasons
      <3> HIDE DEF k
      <3> QED
        BY <1>1, <1>2, <3>2, <3>3, Zenon DEF tree, k
    <2>4. CASE ~Passes(commands[ran], tree) /\ ran = Len(commands)
      <3>1. Verified(c, "FAILED", LastReason(ran)) /\ LastReason(ran) \in Reasons
        BY <2>1, <2>4 DEF LastReason, Reasons
      <3>2. PICK s \in Call :
                 /\ Moves(c, s) /\ s.number = k.number /\ s.patch = k.patch
                 /\ s.target = k.target /\ SameTry(s, k) /\ s.changed = k.changed
                 /\ s.phase = "verification" /\ s.status = "FAILED"
        BY <1>6, <3>1 DEF Outcome
      <3> HIDE DEF k
      <3> QED
        BY <1>1, <1>2, <3>2 DEF k
    <2>5. CASE ~Passes(commands[ran], tree) /\ ran # Len(commands)
      <3> DEFINE s == [k EXCEPT !.ran = ran]
      <3>1. Becomes(c, s)
        BY <2>1, <2>5
      <3>2. ran \in 0..VerifyMaxAttempts /\ ran < Len(commands)
        BY <1>5, <2>2, <2>5, Numbered
      <3> HIDE DEF k
      <3>3. /\ s \in Call /\ s.phase = k.phase /\ s.kind = k.kind /\ s.mode = k.mode
            /\ s.place = k.place /\ s.run = k.run /\ s.status = k.status /\ s.patch = k.patch
            /\ s.number = k.number /\ s.changed = k.changed /\ s.target = k.target
            /\ s.next = k.next /\ s.ran = ran /\ s.try = k.try /\ s.latest = k.latest
        BY <1>1, <3>2 DEF Call
      <3> HIDE DEF s
      <3>4. CallInv(c, s, runs)
        BY <1>1, <1>2, <1>3, <3>2, <3>3 DEF CallInv, InLoop
      <3>5. Moves(c, s) /\ SameTry(s, k)
        BY <3>1, <3>3, <3>4 DEF Moves, SameTry, k
      <3> QED
        BY <1>1, <1>2, <3>3, <3>5 DEF k
    <2> QED
      BY <2>3, <2>4, <2>5
  <1> QED
    BY <1>7, <1>8, <1>9, Zenon DEF Verify

LEMMA SaveVerificationIs ==
    ASSUME TypeInv, NEW c \in Calls, SaveVerification(c)
    PROVE  \E s \in Call :
             LET k == calls[c] IN
             /\ Moves(c, s) /\ k.phase = "verification" /\ k.kind # "patch"
             /\ \/ /\ verifications' =
                        [verifications EXCEPT ![c][k.number] = NewVerification(c)]
                   /\ k.kind = "verify" /\ Finishes(c, s)
                \/ /\ verifications' =
                        [verifications EXCEPT ![c][k.number] = NewVerification(c)]
                   /\ k.kind = "autofix" /\ s.phase = "attempt"
                   /\ s.number = k.number /\ s.patch = k.patch /\ s.target = k.target
                   /\ s.changed = k.changed /\ s.status = k.status
                   /\ s.try = [k.try EXCEPT !.status = k.status, !.verification = k.number]
                   /\ s.latest = [k.latest EXCEPT !.verification = k.number]
                \/ verifications' = verifications /\ k.kind = "verify" /\ s = Dead(c)
                \/ /\ verifications' = verifications /\ k.kind = "autofix"
                   /\ s.phase = "attempt" /\ SameTry(s, k) /\ s.changed = k.changed
                   /\ s.number = k.number /\ s.patch = k.patch /\ s.target = k.target
                   /\ s.status = k.status
  <1> DEFINE k == calls[c]
             Saved == verifications' =
                        [verifications EXCEPT ![c][k.number] = NewVerification(c)]
  <1>0. 0 \in 0..VerifyMaxAttempts /\ None \in OrNone(Reasons)
    BY Numbered DEF OrNone
  <1>1. k \in Call /\ CallInv(c, k, runs) /\ k.phase = "verification" /\ ~At(c, "idle")
    BY TablesTyped DEF At, SaveVerification
  <1>2. /\ k.kind \in {"autofix", "verify"} /\ k.next = 1 /\ k.changed = {}
        /\ FoundIn(k.run, runs)
    BY <1>1 DEF CallInv, InLoop, Call
  <1>3. \/ Saved /\ VerificationSaved(c)
        \/ VerificationUnsaved(c) /\ verifications' = verifications
    BY Zenon DEF SaveVerification
  <1>4. CASE Saved /\ VerificationSaved(c) /\ k.kind = "verify"
    <2>1. Finish(c)
      BY <1>4 DEF VerificationSaved
    <2>2. \E s \in Call : Moves(c, s) /\ Finishes(c, s)
      BY <1>1, <2>1, FinishMoves
    <2> QED
      BY <1>1, <1>2, <1>4, <2>2, Zenon
  <1>5. CASE Saved /\ VerificationSaved(c) /\ k.kind = "autofix"
    <2> DEFINE n == k.number
               t == k.try
               l == k.latest
               t2 == [t EXCEPT !.status = k.status, !.verification = n]
               l2 == [l EXCEPT !.verification = n]
               s == [k EXCEPT !.phase = "attempt", !.ran = 0, !.reason = None,
                              !.try = t2, !.latest = l2]
    <2>1. n \in Numbers /\ t \in Attempt /\ l \in Latest /\ k.status \in Outcome
      BY <1>1 DEF Call
    <2>2. Becomes(c, s)
      BY <1>5 DEF VerificationSaved
    <2>3. t2 \in Attempt /\ l2 \in Latest
      <3> HIDE DEF t, l, n, k
      <3> QED
        BY <2>1 DEF Attempt, Latest, OrNone
    <2> HIDE DEF t2, l2, k, n
    <2>4. /\ s \in Call /\ s.phase = "attempt" /\ s.kind = k.kind /\ s.mode = k.mode
          /\ s.place = k.place /\ s.run = k.run /\ s.status = k.status /\ s.patch = k.patch
          /\ s.number = k.number /\ s.changed = k.changed /\ s.target = k.target
          /\ s.next = k.next /\ s.ran = 0 /\ s.try = t2 /\ s.latest = l2
      BY <1>0, <1>1, <2>3 DEF Call, Begun
    <2> HIDE DEF s
    <2>5. CallInv(c, s, runs)
      BY <1>1, <1>2, <1>5, <2>4 DEF CallInv, InLoop
    <2>6. Moves(c, s)
      BY <2>2, <2>4, <2>5 DEF Moves, k
    <2> QED
      BY <1>1, <1>2, <1>5, <2>4, <2>6 DEF k, n, t2, l2
  <1>6. CASE VerificationUnsaved(c) /\ verifications' = verifications /\ k.kind = "verify"
    <2>1. Gone(c)
      BY <1>6 DEF VerificationUnsaved
    <2>2. Dead(c) \in Call /\ Moves(c, Dead(c))
      BY <1>1, <2>1, DeadMoves
    <2> QED
      BY <1>1, <1>2, <1>6, <2>2
  <1>7. CASE VerificationUnsaved(c) /\ verifications' = verifications /\ k.kind = "autofix"
    <2> DEFINE s == [k EXCEPT !.phase = "attempt", !.ran = 0, !.reason = None]
    <2>1. Becomes(c, s)
      BY <1>7 DEF VerificationUnsaved
    <2> HIDE DEF k
    <2>2. /\ s \in Call /\ s.phase = "attempt" /\ s.kind = k.kind /\ s.mode = k.mode
          /\ s.place = k.place /\ s.run = k.run /\ s.status = k.status /\ s.patch = k.patch
          /\ s.number = k.number /\ s.changed = k.changed /\ s.target = k.target
          /\ s.next = k.next /\ s.ran = 0 /\ s.try = k.try /\ s.latest = k.latest
      BY <1>0, <1>1 DEF Call, Begun
    <2> HIDE DEF s
    <2>3. CallInv(c, s, runs)
      BY <1>1, <1>2, <1>7, <2>2 DEF CallInv, InLoop
    <2>4. Moves(c, s) /\ SameTry(s, k)
      BY <2>1, <2>2, <2>3 DEF Moves, SameTry, k
    <2> QED
      BY <1>1, <1>2, <1>7, <2>2, <2>4 DEF k
  <1> HIDE DEF Saved, k
  <1> QED
    BY <1>2, <1>3, <1>4, <1>5, <1>6, <1>7

LEMMA SaveAttemptIs ==
    ASSUME TypeInv, NEW c \in Calls, SaveAttempt(c)
    PROVE  \E s \in Call :
             LET k == calls[c] IN
             /\ Moves(c, s) /\ k.phase = "attempt" /\ k.kind = "autofix"
             /\ FoundIn(k.run, runs)
             /\ \/ /\ attempts' = [attempts EXCEPT ![c] = Append(attempts[c], k.try)]
                   /\ s.phase = "save" /\ s.target = None /\ s.patch = None
                   /\ s.status = "SUCCEEDED" /\ SameTry(s, k)
                   /\ s.number = k.number /\ s.changed = k.changed
                \/ attempts' = attempts /\ s = Dead(c)
  <1> DEFINE k == calls[c]
  <1>1. k \in Call /\ CallInv(c, k, runs) /\ k.phase = "attempt" /\ ~At(c, "idle")
    BY TablesTyped DEF At, SaveAttempt
  <1>2. k.kind = "autofix" /\ k.next = 1 /\ k.changed = {} /\ k.ran = 0 /\ FoundIn(k.run, runs)
    BY <1>1 DEF CallInv, InLoop
  <1>3. \/ /\ attempts' = [attempts EXCEPT ![c] = Append(attempts[c], k.try)]
           /\ Becomes(c, [k EXCEPT !.phase = "save", !.target = None, !.patch = None,
                                   !.status = "SUCCEEDED"])
        \/ Gone(c) /\ attempts' = attempts
    BY DEF SaveAttempt
  <1>4. CASE /\ attempts' = [attempts EXCEPT ![c] = Append(attempts[c], k.try)]
             /\ Becomes(c, [k EXCEPT !.phase = "save", !.target = None, !.patch = None,
                                     !.status = "SUCCEEDED"])
    <2> DEFINE s == [k EXCEPT !.phase = "save", !.target = None, !.patch = None,
                              !.status = "SUCCEEDED"]
    <2>1. Becomes(c, s)
      BY <1>4
    <2> HIDE DEF k
    <2>2. /\ s \in Call /\ s.phase = "save" /\ s.kind = k.kind /\ s.mode = k.mode
          /\ s.place = k.place /\ s.run = k.run /\ s.status = "SUCCEEDED" /\ s.patch = None
          /\ s.number = k.number /\ s.changed = k.changed /\ s.target = None
          /\ s.next = k.next /\ s.ran = k.ran /\ s.try = k.try /\ s.latest = k.latest
      BY <1>1 DEF Call, Begun, OrNone, Outcome
    <2> HIDE DEF s
    <2>3. CallInv(c, s, runs)
      BY <1>1, <1>2, <2>2 DEF CallInv, InLoop
    <2>4. Moves(c, s) /\ SameTry(s, k)
      BY <2>1, <2>2, <2>3 DEF Moves, SameTry, k
    <2> QED
      BY <1>1, <1>2, <1>4, <2>2, <2>4 DEF k
  <1>5. CASE Gone(c) /\ attempts' = attempts
    <2>1. Dead(c) \in Call /\ Moves(c, Dead(c))
      BY <1>1, <1>5, DeadMoves
    <2> QED
      BY <1>1, <1>2, <1>5, <2>1
  <1> QED
    BY <1>3, <1>4, <1>5

LEMMA StatusIs ==
    ASSUME TypeInv, NEW c \in Calls
    PROVE  /\ AutofixStatus(c) \in Outcome \cup {"RUNNING"}
           /\ AutofixStatus(c) = "SUCCEEDED" <=> calls[c].try.status = "SUCCEEDED"
           /\ AutofixStatus(c) = "RUNNING" =>
                calls[c].try.status = "FAILED" /\ calls[c].number + 1 \in Numbers
           /\ AutofixStatus(c) = "FAILED" =>
                calls[c].try.status = "FAILED" /\ calls[c].number = MaxAttempts
  <1> DEFINE k == calls[c]
             t == k.try
  <1>1. k \in Call
    BY TablesTyped
  <1>2. t \in Attempt /\ k.number \in Numbers
    BY <1>1 DEF Call
  <1>3. t.status \in {"SUCCEEDED", "FAILED"}
    BY <1>2 DEF Attempt, Outcome
  <1>4. k.number \in 1..MaxAttempts /\ MaxAttempts \in Nat
    BY <1>2, Numbered DEF Numbers
  <1>5. HasRemaining(c) <=> k.number < MaxAttempts
    BY DEF HasRemaining
  <1>6. AutofixStatus(c) = IF t.status = "SUCCEEDED" THEN "SUCCEEDED"
                           ELSE IF HasRemaining(c) THEN "RUNNING" ELSE "FAILED"
    BY <1>3 DEF AutofixStatus
  <1> HIDE DEF t, k
  <1>7. HasRemaining(c) => k.number + 1 \in Numbers
    BY <1>4, <1>5 DEF Numbers
  <1>8. ~HasRemaining(c) => k.number = MaxAttempts
    BY <1>4, <1>5
  <1>9. /\ AutofixStatus(c) \in Outcome \cup {"RUNNING"}
        /\ AutofixStatus(c) = "SUCCEEDED" <=> t.status = "SUCCEEDED"
        /\ AutofixStatus(c) = "RUNNING" => t.status = "FAILED" /\ k.number + 1 \in Numbers
        /\ AutofixStatus(c) = "FAILED" => t.status = "FAILED" /\ k.number = MaxAttempts
    BY <1>3, <1>6, <1>7, <1>8 DEF Outcome
  <1> QED
    BY <1>9, Zenon DEF t, k

LEMMA SaveAutofixIs ==
    ASSUME TypeInv, NEW c \in Calls, SaveAutofix(c)
    PROVE  \E s \in Call :
             LET k == calls[c] IN
             /\ Moves(c, s) /\ k.phase = "save" /\ k.kind = "autofix"
             /\ \/ /\ autofixes' = [autofixes EXCEPT ![c] = NewAutofix(c)]
                   /\ AutofixStatus(c) = "RUNNING" /\ s.phase = "generate"
                   /\ s.try = NoTry /\ s.number = k.number + 1 /\ s.latest = k.latest
                   /\ s.patch = k.patch /\ s.target = k.target /\ s.changed = k.changed
                   /\ s.status = k.status
                \/ /\ autofixes' = [autofixes EXCEPT ![c] = NewAutofix(c)]
                   /\ AutofixStatus(c) # "RUNNING" /\ Finishes(c, s)
                \/ autofixes' = autofixes /\ s = Dead(c)
  <1> DEFINE k == calls[c]
             Saved == autofixes' = [autofixes EXCEPT ![c] = NewAutofix(c)]
  <1>1. k \in Call /\ CallInv(c, k, runs) /\ k.phase = "save" /\ ~At(c, "idle")
    BY TablesTyped DEF At, SaveAutofix
  <1>2. k.kind = "autofix" /\ k.next = 1 /\ k.changed = {} /\ k.ran = 0 /\ FoundIn(k.run, runs)
    BY <1>1 DEF CallInv, InLoop
  <1>3. \/ /\ Saved
           /\ IF AutofixStatus(c) = "RUNNING" THEN Becomes(c, NextAttempt(c)) ELSE Finish(c)
        \/ Gone(c) /\ autofixes' = autofixes
    BY Zenon DEF SaveAutofix
  <1>4. CASE Saved /\ AutofixStatus(c) = "RUNNING" /\ Becomes(c, NextAttempt(c))
    <2> DEFINE n == k.number + 1
               s == [k EXCEPT !.phase = "generate", !.try = NoTry, !.number = n]
    <2>1. Becomes(c, s)
      BY <1>4 DEF NextAttempt
    <2>2. n \in Numbers
      BY <1>4, StatusIs
    <2>3. NoTry \in Attempt
      BY NoTryTyped
    <2> HIDE DEF k, n
    <2>4. /\ s \in Call /\ s.phase = "generate" /\ s.kind = k.kind /\ s.mode = k.mode
          /\ s.place = k.place /\ s.run = k.run /\ s.status = k.status /\ s.patch = k.patch
          /\ s.number = n /\ s.changed = k.changed /\ s.target = k.target
          /\ s.next = k.next /\ s.ran = k.ran /\ s.try = NoTry /\ s.latest = k.latest
      BY <1>1, <2>2, <2>3 DEF Call, Begun
    <2> HIDE DEF s
    <2>5. CallInv(c, s, runs)
      BY <1>1, <1>2, <2>4 DEF CallInv, InLoop
    <2>6. Moves(c, s)
      BY <2>1, <2>4, <2>5 DEF Moves, k
    <2> QED
      BY <1>1, <1>2, <1>4, <2>4, <2>6 DEF k, n
  <1>5. CASE Saved /\ AutofixStatus(c) # "RUNNING" /\ Finish(c)
    <2>1. \E s \in Call : Moves(c, s) /\ Finishes(c, s)
      BY <1>1, <1>5, FinishMoves
    <2> QED
      BY <1>1, <1>2, <1>5, <2>1, Zenon
  <1>6. CASE Gone(c) /\ autofixes' = autofixes
    <2>1. Dead(c) \in Call /\ Moves(c, Dead(c))
      BY <1>1, <1>6, DeadMoves
    <2> QED
      BY <1>1, <1>2, <1>6, <2>1
  <1> HIDE DEF Saved, k
  <1> QED
    BY <1>3, <1>4, <1>5, <1>6

LEMMA MarkUsedIs ==
    ASSUME TypeInv, NEW c \in Calls, MarkUsed(c)
    PROVE  \E s \in Call :
             /\ Moves(c, s) /\ calls[c].phase = "use" /\ c \in Sandboxed
             /\ \/ /\ sandboxes' = [sandboxes EXCEPT ![c] =
                         [status |-> "USED", autofix |-> calls[c].kind = "autofix",
                          execution |-> calls[c].kind = "patch"]]
                   /\ Finishes(c, s)
                \/ sandboxes' = sandboxes /\ s = Dead(c)
  <1> DEFINE k == calls[c]
  <1>1. k \in Call /\ CallInv(c, k, runs) /\ k.phase = "use" /\ ~At(c, "idle")
    BY TablesTyped DEF At, MarkUsed
  <1>2. c \in Sandboxed
    BY <1>1 DEF CallInv
  <1>3. CASE /\ sandboxes' = [sandboxes EXCEPT ![c] =
                   [status |-> "USED", autofix |-> calls[c].kind = "autofix",
                    execution |-> calls[c].kind = "patch"]]
             /\ Done(c)
    <2>1. Becomes(c, Over(c, "done"))
      BY <1>3 DEF Done
    <2>2. Over(c, "done") \in Call /\ CallInv(c, Over(c, "done"), runs)
      BY <1>1, EndsFit
    <2>3. /\ Over(c, "done").phase = "done" /\ Over(c, "done").kind = k.kind
          /\ Over(c, "done").mode = k.mode /\ Over(c, "done").place = k.place
          /\ Over(c, "done").run = k.run
      BY <1>1, OverIs DEF Ended
    <2>4. Moves(c, Over(c, "done")) /\ Finishes(c, Over(c, "done"))
      BY <2>1, <2>2, <2>3 DEF Moves, Finishes
    <2> QED
      BY <1>1, <1>2, <1>3, <2>2, <2>4
  <1>4. CASE Gone(c) /\ UNCHANGED sandboxes
    <2>1. Dead(c) \in Call /\ Moves(c, Dead(c))
      BY <1>1, <1>4, DeadMoves
    <2> QED
      BY <1>1, <1>2, <1>4, <2>1
  <1> QED
    BY <1>3, <1>4, Zenon DEF MarkUsed

LEMMA DieIs ==
    ASSUME TypeInv, NEW c \in Calls, Die(c)
    PROVE  Dead(c) \in Call /\ Moves(c, Dead(c)) /\ calls[c].phase \in Begun
  <1>1. Gone(c) /\ calls[c].phase \in Begun
    BY DEF Die, Underway
  <1>2. ~At(c, "idle")
    BY <1>1 DEF At, Begun
  <1> QED
    BY <1>1, <1>2, DeadMoves

LEMMA NestedTyped ==
    ASSUME NEW T, NEW row \in T, NEW table \in [Calls -> [Numbers -> OrNone(T)]],
           NEW c \in Calls, NEW n \in Numbers
    PROVE  [table EXCEPT ![c][n] = row] \in [Calls -> [Numbers -> OrNone(T)]]
  <1>1. [table[c] EXCEPT ![n] = row] \in [Numbers -> OrNone(T)]
    BY DEF OrNone
  <1> QED
    BY <1>1

LEMMA PrepareTyped ==
    ASSUME TypeInv, NEW c \in Calls, Prepare(c)
    PROVE  TypeInv'
  <1>1. PICK s \in Call :
             /\ Moves(c, s) /\ c \in Sandboxed
             /\ trees' \in {trees, [trees EXCEPT ![c] = Materialized]}
             /\ sandboxes' \in {sandboxes} \cup {[sandboxes EXCEPT ![c] = NewSandbox(status)] :
                                                 status \in {"PREPARED", "FAILED"}}
    BY PrepareIs
  <1>2. TablesOK /\ c \in Places
    BY <1>1, TablesTyped DEF Places
  <1>3. trees' \in [Places -> Tree]
    BY <1>1, <1>2, MaterializedTyped DEF TablesOK
  <1>4. \A status \in {"PREPARED", "FAILED"} : NewSandbox(status) \in Sandbox
    BY DEF NewSandbox, Sandbox
  <1>5. sandboxes' \in [Calls -> OrNone(Sandbox)]
    <2>1. sandboxes \in [Calls -> OrNone(Sandbox)]
      BY <1>2 DEF TablesOK
    <2> QED
      BY <1>1, <1>4, <2>1 DEF OrNone
  <1>6. /\ runs' = runs /\ proposals' = proposals /\ executions' = executions
        /\ verifications' = verifications /\ attempts' = attempts /\ autofixes' = autofixes
        /\ removed' = removed
    BY DEF Prepare
  <1>7. TablesOK'
    BY <1>2, <1>3, <1>5, <1>6 DEF TablesOK
  <1> QED
    BY <1>1, <1>6, <1>7, Carried DEF Moves

LEMMA RowTyped ==
    ASSUME NEW status \in Outcome \cup {"RUNNING"}, NEW ids \in Latest
    PROVE  AutofixRow(status, ids) \in Autofix
  BY DEF AutofixRow, Autofix, Latest

LEMMA StartTyped ==
    ASSUME TypeInv, NEW c \in Calls, Start(c)
    PROVE  TypeInv'
  <1>1. PICK s \in Call :
             /\ Moves(c, s)
             /\ autofixes' \in {autofixes, [autofixes EXCEPT ![c] = AutofixRow("RUNNING", NoIds)]}
    BY StartIs
  <1>2. TablesOK
    BY TablesTyped
  <1>3. autofixes' \in [Calls -> OrNone(Autofix)]
    <2>1. AutofixRow("RUNNING", NoIds) \in Autofix
      BY NoTryTyped, RowTyped
    <2> QED
      BY <1>1, <1>2, <2>1 DEF TablesOK, OrNone
  <1>4. /\ trees' = trees /\ runs' = runs /\ proposals' = proposals
        /\ executions' = executions /\ verifications' = verifications
        /\ attempts' = attempts /\ sandboxes' = sandboxes /\ removed' = removed
    BY DEF Start
  <1>5. TablesOK'
    BY <1>2, <1>3, <1>4 DEF TablesOK
  <1> QED
    BY <1>1, <1>4, <1>5, Carried DEF Moves

LEMMA GenerateTyped ==
    ASSUME TypeInv, NEW c \in Calls, Generate(c)
    PROVE  TypeInv'
  <1>1. PICK s \in Call :
             /\ Moves(c, s) /\ FoundIn(calls[c].run, runs)
             /\ proposals' \in {proposals} \cup
                  {[proposals EXCEPT ![patch.id] = [run |-> calls[c].run, ops |-> patch.ops]] :
                     patch \in PatchesOf[c]}
    BY GenerateIs
  <1>2. TablesOK /\ calls[c] \in Call
    BY TablesTyped
  <1>3. proposals' \in [Ids -> OrNone(Proposal)]
    <2>1. calls[c].run \in Runs
      BY <1>1, <1>2 DEF Call, FoundIn, OrNone
    <2>2. \A patch \in PatchesOf[c] :
            patch.id \in Ids /\ [run |-> calls[c].run, ops |-> patch.ops] \in OrNone(Proposal)
      BY <2>1, OwnPatch, PatchTyped DEF Proposal, OrNone
    <2>3. proposals \in [Ids -> OrNone(Proposal)]
      BY <1>2 DEF TablesOK
    <2> QED
      BY <1>1, <2>2, <2>3
  <1>4. /\ trees' = trees /\ runs' = runs /\ executions' = executions
        /\ verifications' = verifications /\ attempts' = attempts /\ autofixes' = autofixes
        /\ sandboxes' = sandboxes /\ removed' = removed
    BY DEF Generate
  <1>5. TablesOK'
    BY <1>2, <1>3, <1>4 DEF TablesOK
  <1> QED
    BY <1>1, <1>4, <1>5, Carried DEF Moves

LEMMA ApplyTyped ==
    ASSUME TypeInv, NEW c \in Calls, Apply(c)
    PROVE  TypeInv'
  <1>1. PICK s \in Call, p \in Paths, after \in Seq(Texts) :
             /\ Moves(c, s)
             /\ trees' \in {trees, [trees EXCEPT ![calls[c].place][p] = after]}
    <2>1. <<>> \in Seq(Texts)
      OBVIOUS
    <2>2. PICK s \in Call :
             LET k == calls[c]
                 op == Operation(c)
                 after == AfterText(op, trees[k.place][op.path])
             IN
             /\ Moves(c, s) /\ k.patch \in Patches
             /\ \/ /\ op.path \in Paths
                   /\ after \in Seq(Texts)
                   /\ trees' = IF k.mode = "apply"
                               THEN [trees EXCEPT ![k.place][op.path] = after] ELSE trees
                \/ trees' = trees /\ k.phase = "apply"
      BY ApplyIs
    <2>3. \E p \in Paths : TRUE
      <3>1. calls[c].patch \in Patches /\ calls[c].phase = "apply" /\ CallInv(c, calls[c], runs)
        BY <2>2, TablesTyped DEF Apply, At
      <3>2. calls[c].patch.ops \in Seq(Op) /\ calls[c].patch.ops # <<>>
        BY <3>1, PatchTyped DEF CallInv
      <3>3. PICK op \in Op : TRUE
        BY <3>2
      <3> QED
        BY <3>3 DEF Op
    <2> QED
      BY <2>1, <2>2, <2>3
  <1>2. TablesOK /\ calls[c].place \in Places
    BY TablesTyped DEF Call
  <1>3. trees' \in [Places -> Tree]
    <2> DEFINE x == calls[c].place
    <2>1. x \in Places /\ trees \in [Places -> Tree]
      BY <1>2 DEF TablesOK
    <2>2. trees' \in {trees, [trees EXCEPT ![x][p] = after]}
      BY <1>1
    <2> HIDE DEF x
    <2>3. [trees[x] EXCEPT ![p] = after] \in Tree
      BY <2>1 DEF Tree
    <2> QED
      BY <2>1, <2>2, <2>3
  <1>4. /\ runs' = runs /\ proposals' = proposals /\ executions' = executions
        /\ verifications' = verifications /\ attempts' = attempts /\ autofixes' = autofixes
        /\ sandboxes' = sandboxes /\ removed' = removed
    BY DEF Apply, tables
  <1>5. TablesOK'
    BY <1>2, <1>3, <1>4 DEF TablesOK
  <1> QED
    BY <1>1, <1>4, <1>5, Carried DEF Moves

LEMMA SaveExecutionTyped ==
    ASSUME TypeInv, NEW c \in Calls, SaveExecution(c)
    PROVE  TypeInv' /\ NewExecution(c) \in Execution
  <1>1. PICK s \in Call :
             /\ Moves(c, s) /\ calls[c].patch \in Patches
             /\ executions' \in
                  {executions, [executions EXCEPT ![c][calls[c].number] = NewExecution(c)]}
    BY SaveExecutionIs
  <1>2. TablesOK /\ calls[c] \in Call
    BY TablesTyped
  <1>3. NewExecution(c) \in Execution
    <2>1. calls[c].patch.id \in Ids
      BY <1>1, PatchTyped
    <2> QED
      BY <1>2, <2>1 DEF NewExecution, Execution, Call
  <1>4. executions' \in [Calls -> [Numbers -> OrNone(Execution)]]
    <2> DEFINE n == calls[c].number
               row == NewExecution(c)
    <2>1. /\ executions \in [Calls -> [Numbers -> OrNone(Execution)]]
          /\ n \in Numbers /\ row \in Execution
          /\ executions' \in {executions, [executions EXCEPT ![c][n] = row]}
      BY <1>1, <1>2, <1>3 DEF TablesOK, Call
    <2> HIDE DEF n, row
    <2>2. [executions EXCEPT ![c][n] = row] \in [Calls -> [Numbers -> OrNone(Execution)]]
      BY <2>1, NestedTyped
    <2> QED
      BY <2>1, <2>2
  <1>5. /\ trees' = trees /\ runs' = runs /\ proposals' = proposals
        /\ verifications' = verifications /\ attempts' = attempts /\ autofixes' = autofixes
        /\ sandboxes' = sandboxes /\ removed' = removed
    BY DEF SaveExecution
  <1>6. TablesOK'
    BY <1>2, <1>4, <1>5 DEF TablesOK
  <1> QED
    BY <1>1, <1>3, <1>5, <1>6, Carried DEF Moves

LEMMA VerifyTyped ==
    ASSUME TypeInv, NEW c \in Calls, Verify(c)
    PROVE  TypeInv'
  <1>1. PICK s \in Call : Moves(c, s)
    BY VerifyIs
  <1>2. TablesOK' /\ runs' = runs
    BY TablesTyped DEF TablesOK, Verify, tables
  <1> QED
    BY <1>1, <1>2, Carried DEF Moves

LEMMA SaveVerificationTyped ==
    ASSUME TypeInv, NEW c \in Calls, SaveVerification(c)
    PROVE  TypeInv' /\ NewVerification(c) \in Verification
  <1>1. PICK s \in Call :
             /\ Moves(c, s) /\ calls[c].phase = "verification" /\ calls[c].kind # "patch"
             /\ verifications' \in
                  {verifications, [verifications EXCEPT ![c][calls[c].number] = NewVerification(c)]}
    BY SaveVerificationIs
  <1>2. TablesOK /\ calls[c] \in Call /\ CallInv(c, calls[c], runs)
    BY TablesTyped
  <1>3. calls[c].reason # None /\ FoundIn(calls[c].run, runs)
    BY <1>1, <1>2 DEF CallInv, InLoop
  <1>4. NewVerification(c) \in Verification
    BY <1>2, <1>3 DEF NewVerification, Verification, Call, OrNone, FoundIn
  <1>5. verifications' \in [Calls -> [Numbers -> OrNone(Verification)]]
    <2> DEFINE n == calls[c].number
               row == NewVerification(c)
    <2>1. /\ verifications \in [Calls -> [Numbers -> OrNone(Verification)]]
          /\ n \in Numbers /\ row \in Verification
          /\ verifications' \in {verifications, [verifications EXCEPT ![c][n] = row]}
      BY <1>1, <1>2, <1>4 DEF TablesOK, Call
    <2> HIDE DEF n, row
    <2>2. [verifications EXCEPT ![c][n] = row] \in [Calls -> [Numbers -> OrNone(Verification)]]
      BY <2>1, NestedTyped
    <2> QED
      BY <2>1, <2>2
  <1>6. /\ trees' = trees /\ runs' = runs /\ proposals' = proposals
        /\ executions' = executions /\ attempts' = attempts /\ autofixes' = autofixes
        /\ sandboxes' = sandboxes /\ removed' = removed
    BY DEF SaveVerification
  <1>7. TablesOK'
    BY <1>2, <1>5, <1>6 DEF TablesOK
  <1> QED
    BY <1>1, <1>4, <1>6, <1>7, Carried DEF Moves

LEMMA SaveAttemptTyped ==
    ASSUME TypeInv, NEW c \in Calls, SaveAttempt(c)
    PROVE  TypeInv'
  <1>1. PICK s \in Call :
             /\ Moves(c, s)
             /\ attempts' \in {attempts,
                               [attempts EXCEPT ![c] = Append(attempts[c], calls[c].try)]}
    BY SaveAttemptIs
  <1>2. TablesOK /\ calls[c].try \in Attempt
    BY TablesTyped DEF Call
  <1>3. attempts' \in [Calls -> Seq(Attempt)]
    <2> DEFINE t == calls[c].try
    <2>1. attempts \in [Calls -> Seq(Attempt)]
      BY <1>2 DEF TablesOK
    <2>2. t \in Attempt /\ attempts' \in {attempts, [attempts EXCEPT ![c] = Append(attempts[c], t)]}
      BY <1>1, <1>2
    <2> HIDE DEF t
    <2>3. Append(attempts[c], t) \in Seq(Attempt)
      BY <2>1, <2>2
    <2> QED
      BY <2>1, <2>2, <2>3
  <1>4. /\ trees' = trees /\ runs' = runs /\ proposals' = proposals
        /\ executions' = executions /\ verifications' = verifications
        /\ autofixes' = autofixes /\ sandboxes' = sandboxes /\ removed' = removed
    BY DEF SaveAttempt
  <1>5. TablesOK'
    BY <1>2, <1>3, <1>4 DEF TablesOK
  <1> QED
    BY <1>1, <1>4, <1>5, Carried DEF Moves

LEMMA SaveAutofixTyped ==
    ASSUME TypeInv, NEW c \in Calls, SaveAutofix(c)
    PROVE  TypeInv'
  <1>1. PICK s \in Call :
             Moves(c, s) /\ autofixes' \in {autofixes, [autofixes EXCEPT ![c] = NewAutofix(c)]}
    BY SaveAutofixIs
  <1>2. TablesOK /\ calls[c].latest \in Latest
    BY TablesTyped DEF Call
  <1>3. NewAutofix(c) \in Autofix
    BY <1>2, StatusIs, RowTyped DEF NewAutofix
  <1>4. autofixes' \in [Calls -> OrNone(Autofix)]
    BY <1>1, <1>2, <1>3 DEF TablesOK, OrNone
  <1>5. /\ trees' = trees /\ runs' = runs /\ proposals' = proposals
        /\ executions' = executions /\ verifications' = verifications
        /\ attempts' = attempts /\ sandboxes' = sandboxes /\ removed' = removed
    BY DEF SaveAutofix
  <1>6. TablesOK'
    BY <1>2, <1>4, <1>5 DEF TablesOK
  <1> QED
    BY <1>1, <1>5, <1>6, Carried DEF Moves

LEMMA MarkUsedTyped ==
    ASSUME TypeInv, NEW c \in Calls, MarkUsed(c)
    PROVE  TypeInv'
  <1> DEFINE row == [status |-> "USED", autofix |-> calls[c].kind = "autofix",
                     execution |-> calls[c].kind = "patch"]
  <1>1. PICK s \in Call :
             Moves(c, s) /\ sandboxes' \in {sandboxes, [sandboxes EXCEPT ![c] = row]}
    BY MarkUsedIs
  <1>2. TablesOK
    BY TablesTyped
  <1>3. row \in Sandbox
    BY DEF Sandbox
  <1>4. sandboxes' \in [Calls -> OrNone(Sandbox)]
    BY <1>1, <1>2, <1>3 DEF TablesOK, OrNone
  <1>5. /\ trees' = trees /\ runs' = runs /\ proposals' = proposals
        /\ executions' = executions /\ verifications' = verifications
        /\ attempts' = attempts /\ autofixes' = autofixes /\ removed' = removed
    BY DEF MarkUsed
  <1>6. TablesOK'
    BY <1>2, <1>4, <1>5 DEF TablesOK
  <1> QED
    BY <1>1, <1>5, <1>6, Carried DEF Moves

LEMMA DieTyped ==
    ASSUME TypeInv, NEW c \in Calls, Die(c)
    PROVE  TypeInv'
  <1>1. TablesOK' /\ runs' = runs
    BY TablesTyped DEF TablesOK, Die, tables
  <1> QED
    BY <1>1, DieIs, Carried DEF Moves

LEMMA TypeStep ==
    ASSUME TypeInv, [Next]_vars
    PROVE  TypeInv'
  <1>1. ASSUME NEW r \in Runs, Plan(r) PROVE TypeInv'
    BY <1>1, PlanTyped
  <1>2. ASSUME NEW c \in Calls, Begin(c) \/ Step(c) \/ Die(c) PROVE TypeInv'
    BY <1>2, BeginTyped, PrepareTyped, StartTyped, GenerateTyped, ApplyTyped,
       SaveExecutionTyped, VerifyTyped, SaveVerificationTyped, SaveAttemptTyped,
       SaveAutofixTyped, MarkUsedTyped, DieTyped, Zenon DEF Step
  <1>3. ASSUME NEW s \in Sandboxed, CleanUp(s) PROVE TypeInv'
    BY <1>3, CleanUpTyped
  <1>4. CASE UNCHANGED vars
    <2>1. TablesOK' /\ runs' = runs /\ calls' = calls
      BY <1>4, TablesTyped DEF TablesOK, vars, tables
    <2>2. TypeOK'
      BY <2>1, TablesTyped DEF TypeOK, TablesOK
    <2>3. \A c \in Calls : CallInv(c, calls'[c], runs')
      BY <2>1, TablesTyped
    <2> QED
      BY <2>2, <2>3 DEF TypeInv
  <1> QED
    BY <1>1, <1>2, <1>3, <1>4, Zenon DEF Next

LEMMA TypesKept == Spec => []TypeInv
  <1>1. Init => TypeInv
    BY TypeInit
  <1>2. TypeInv /\ [Next]_vars => TypeInv'
    BY TypeStep
  <1> QED
    BY <1>1, <1>2, PTL DEF Spec

(* Every tree, every row of the seven tables and every call keeps its      *)
(* type, whatever calls run beside one another, fail or die: no loop       *)
(* counts an attempt or runs a command beyond its bound.                   *)
THEOREM TypeCorrect == Spec => []TypeOK
  <1>1. TypeInv => TypeOK
    BY DEF TypeInv
  <1> QED
    BY <1>1, TypesKept, PTL

-----------------------------------------------------------------------------
(* What every step leaves as it is: the work of a call that has begun, the *)
(* runs that are recorded and what they allow.                             *)

LEMMA CallStep ==
    ASSUME TypeInv, NEW c \in Calls, Step(c) \/ Die(c)
    PROVE  \E s \in Call :
              /\ Moves(c, s) /\ s.phase \in Begun \cup Ended
              /\ calls[c].phase \in Begun /\ runs' = runs
              /\ s.phase = "apply" /\ s.kind = "autofix" =>
                   Generate(c) \/ calls[c].phase = "apply"
  <1>1. CASE Prepare(c)
    <2>1. PICK s \in Call : Moves(c, s) /\ s.phase \in {"start", "apply", "gone"}
                            /\ (s.phase = "apply" => s.kind # "autofix")
      <3>1. /\ AfterPrepare(c) \in {"start", "apply"} /\ Dead(c).phase = "gone"
            /\ AfterPrepare(c) = "apply" => calls[c].kind # "autofix"
        BY DeadIs, TablesTyped DEF AfterPrepare
      <3> QED
        BY <1>1, <3>1, PrepareIs DEF Moves
    <2> QED
      BY <1>1, <2>1 DEF Prepare, At, Begun, Ended
  <1>2. CASE Start(c)
    <2>1. PICK s \in Call : Moves(c, s) /\ s.phase \in {"generate", "gone"}
      BY <1>2, StartIs, DeadIs, TablesTyped
    <2> QED
      BY <1>2, <2>1 DEF Start, At, Begun, Ended
  <1>3. CASE Generate(c)
    <2>1. PICK s \in Call : Moves(c, s) /\ s.phase \in {"apply", "attempt"}
      BY <1>3, GenerateIs
    <2> QED
      BY <1>3, <2>1 DEF Generate, At, Begun, Ended
  <1>4. CASE Apply(c)
    <2>1. PICK s \in Call : Moves(c, s) /\ s.phase \in {"apply", "execution"}
      BY <1>4, ApplyIs
    <2> QED
      BY <1>4, <2>1 DEF Apply, tables, At, Begun, Ended
  <1>5. CASE SaveExecution(c)
    <2>1. PICK s \in Call : /\ Moves(c, s)
             /\ s.phase \in {"use", "done", "gone", "execution", "verify", "attempt"}
      <3>1. Dead(c).phase = "gone"
        BY DeadIs, TablesTyped
      <3> QED
        BY <1>5, <3>1, SaveExecutionIs, ZenonT(30) DEF Finishes
    <2> QED
      BY <1>5, <2>1 DEF SaveExecution, At, Begun, Ended
  <1>6. CASE Verify(c)
    <2>1. PICK s \in Call : Moves(c, s) /\ s.phase \in {"verify", "verification"}
      BY <1>6, VerifyIs
    <2> QED
      BY <1>6, <2>1 DEF Verify, tables, At, Begun, Ended
  <1>7. CASE SaveVerification(c)
    <2>1. PICK s \in Call : Moves(c, s) /\ s.phase \in {"use", "done", "gone", "attempt"}
      <3>1. Dead(c).phase = "gone"
        BY DeadIs, TablesTyped
      <3> QED
        BY <1>7, <3>1, SaveVerificationIs, ZenonT(30) DEF Finishes
    <2> QED
      BY <1>7, <2>1 DEF SaveVerification, At, Begun, Ended
  <1>8. CASE SaveAttempt(c)
    <2>1. PICK s \in Call : Moves(c, s) /\ s.phase \in {"save", "gone"}
      BY <1>8, SaveAttemptIs, DeadIs, TablesTyped
    <2> QED
      BY <1>8, <2>1 DEF SaveAttempt, At, Begun, Ended
  <1>9. CASE SaveAutofix(c)
    <2>1. PICK s \in Call : Moves(c, s) /\ s.phase \in {"generate", "use", "done", "gone"}
      BY <1>9, SaveAutofixIs, DeadIs, TablesTyped DEF Finishes
    <2> QED
      BY <1>9, <2>1 DEF SaveAutofix, At, Begun, Ended
  <1>10. CASE MarkUsed(c)
    <2>1. PICK s \in Call : Moves(c, s) /\ s.phase \in {"use", "done", "gone"}
      BY <1>10, MarkUsedIs, DeadIs, TablesTyped DEF Finishes
    <2> QED
      BY <1>10, <2>1 DEF MarkUsed, At, Begun, Ended
  <1>11. CASE Die(c)
    <2>1. Dead(c).phase = "gone"
      BY DeadIs, TablesTyped
    <2> QED
      BY <1>11, <2>1, DieIs DEF Die, tables, Ended
  <1> QED
    BY <1>1, <1>2, <1>3, <1>4, <1>5, <1>6, <1>7, <1>8, <1>9, <1>10, <1>11, Zenon DEF Step

LEMMA MovesIs ==
    ASSUME TypeInv, NEW c \in Calls, NEW s, Becomes(c, s)
    PROVE  calls'[c] = s /\ \A d \in Calls : d # c => calls'[d] = calls[d]
  BY TablesTyped DEF Becomes

(* What a call works for, and where, is settled when it begins.            *)
SameWork(s, k) ==
    s.kind = k.kind /\ s.mode = k.mode /\ s.place = k.place /\ s.run = k.run

LEMMA WorkKept ==
    ASSUME TypeInv, [Next]_vars, NEW d \in Calls, calls[d].phase # "idle"
    PROVE  SameWork(calls'[d], calls[d]) /\ calls'[d].phase # "idle"
           /\ (calls[d].phase \in Ended => calls'[d] = calls[d])
  <1>1. CASE calls' = calls
    BY <1>1 DEF SameWork
  <1>2. ASSUME NEW c \in Calls, Begin(c) PROVE calls'[d] = calls[d]
    <2>1. PICK s \in Call : Becomes(c, s)
      BY <1>2, BeginIs, Zenon
    <2>2. c # d
      BY <1>2, BeginIs DEF At
    <2> QED
      BY <2>1, <2>2, MovesIs
  <1>3. ASSUME NEW c \in Calls, Step(c) \/ Die(c)
        PROVE  /\ SameWork(calls'[d], calls[d]) /\ calls'[d].phase # "idle"
               /\ (calls[d].phase \in Ended => calls'[d] = calls[d])
    <2>1. PICK s \in Call : /\ Moves(c, s) /\ s.phase \in Begun \cup Ended
                            /\ calls[c].phase \in Begun
      BY <1>3, CallStep, Zenon
    <2>2. Becomes(c, s) /\ SameWork(s, calls[c])
      BY <2>1 DEF Moves, SameWork
    <2>3. s.phase # "idle" /\ calls[c].phase \notin Ended
      BY <2>1 DEF Begun, Ended
    <2>4. CASE d = c
      BY <2>2, <2>3, <2>4, MovesIs
    <2>5. CASE d # c
      BY <2>2, <2>5, MovesIs DEF SameWork
    <2> QED
      BY <2>4, <2>5
  <1>4. ASSUME NEW r \in Runs, Plan(r) PROVE calls' = calls
    BY <1>4 DEF Plan
  <1>5. ASSUME NEW s \in Sandboxed, CleanUp(s) PROVE calls' = calls
    BY <1>5 DEF CleanUp
  <1>6. CASE UNCHANGED vars
    BY <1>1, <1>6 DEF vars
  <1>7. calls'[d] = calls[d] => SameWork(calls'[d], calls[d]) /\ calls'[d].phase # "idle"
    BY DEF SameWork
  <1> QED
    BY <1>1, <1>2, <1>3, <1>4, <1>5, <1>6, <1>7, Zenon DEF Next

LEMMA RunsKept ==
    ASSUME TypeInv, [Next]_vars, NEW r \in Runs, runs[r] # None
    PROVE  runs'[r] = runs[r]
  <1>1. ASSUME NEW q \in Runs, Plan(q) PROVE runs'[r] = runs[r]
    BY <1>1, PlanTyped
  <1>2. ASSUME NEW c \in Calls, Begin(c) PROVE runs' = runs
    BY <1>2 DEF Begin, tables
  <1>3. ASSUME NEW c \in Calls, Step(c) \/ Die(c) PROVE runs' = runs
    BY <1>3, CallStep, Zenon
  <1>4. ASSUME NEW s \in Sandboxed, CleanUp(s) PROVE runs' = runs
    BY <1>4 DEF CleanUp
  <1>5. CASE UNCHANGED vars
    BY <1>5 DEF vars, tables
  <1> QED
    BY <1>1, <1>2, <1>3, <1>4, <1>5, Zenon DEF Next

LEMMA AllowedKept ==
    ASSUME TypeInv, [Next]_vars
    PROVE  /\ \A r \in OrNone(Runs) : r = None \/ FoundIn(r, runs) =>
                AllowedOf(r)' = AllowedOf(r)
           /\ \A r \in Runs : AllowedOf(r) # {} => FoundIn(r, runs)
  <1>1. AllowedOf(None) = {} /\ AllowedOf(None)' = {}
    BY DEF AllowedOf, Found
  <1>2. ASSUME NEW r \in Runs, FoundIn(r, runs) PROVE AllowedOf(r)' = AllowedOf(r)
    <2>1. runs'[r] = runs[r] /\ r # None /\ runs[r] # None
      BY <1>2, RunsKept DEF FoundIn
    <2>2. AllowedOf(r) = ToSet(runs[r].plan.files) \cup ToSet(runs[r].context.ranked)
      BY <2>1 DEF AllowedOf, Found
    <2>3. AllowedOf(r)' = ToSet(runs'[r].plan.files) \cup ToSet(runs'[r].context.ranked)
      BY <2>1 DEF AllowedOf, Found
    <2> QED
      BY <2>1, <2>2, <2>3
  <1>3. \A r \in Runs : AllowedOf(r) # {} => FoundIn(r, runs)
    BY DEF AllowedOf, Found, FoundIn
  <1> QED
    BY <1>1, <1>2, <1>3 DEF OrNone, FoundIn

-----------------------------------------------------------------------------
(* ScopeKept.                                                              *)

(* Only a patch of no run, or of one whose plan names no file, is loose.   *)
Loose(s) == \E c \in Users(s) : Unrestricted(c)

(* Who works in a sandbox has found it made.  What a place lacks of the    *)
(* commit it was not given, or that was taken away again.                  *)
AtWork(k) == k.phase \notin {"idle", "prepare", "gone"}
Made(c, k, boxes) ==
    AtWork(k) => /\ k.place # Repo => boxes[k.place] # None
                 /\ c \in Sandboxed => boxes[c].status # "FAILED"
Differs(s, p) == BaseFiles[p] # Absent /\ trees[s][p] \notin {BaseFiles[p], Absent}
Missing(s, p) == BaseFiles[p] # Absent /\ trees[s][p] = Absent
Planned(s, p) == \E r \in Runs :
    p \in AllowedOf(r) \/ (Lacking(s, p) /\ MayCreate(p, AllowedOf(r)))

Accounted(s, p) ==
    /\ Differs(s, p) => Loose(s) \/ Loose(Repo) \/ Planned(s, p)
    /\ Missing(s, p) => s # Repo /\ (sandboxes[s] = None \/ Lacking(s, p))
Confined(k) == k.phase = "apply" /\ k.kind = "autofix" => AllowedOf(k.run) # {}

ScopeInv ==
    /\ \A s \in Places, p \in Paths : Accounted(s, p)
    /\ \A c \in Calls : Made(c, calls[c], sandboxes) /\ Confined(calls[c])

LEMMA LooseKept ==
    ASSUME TypeInv, [Next]_vars, NEW s \in Places, Loose(s)
    PROVE  Loose(s)'
  <1>1. PICK c \in Calls : /\ calls[c].phase # "idle" /\ calls[c].place = s
                           /\ calls[c].kind = "patch" /\ calls[c].mode = "apply"
                           /\ AllowedOf(calls[c].run) = {}
    BY DEF Loose, Users, Unrestricted, At
  <1>2. SameWork(calls'[c], calls[c]) /\ calls'[c].phase # "idle"
    BY <1>1, WorkKept
  <1>3. calls[c].run \in OrNone(Runs) /\ CallInv(c, calls[c], runs)
    BY TablesTyped DEF Call
  <1>4. calls[c].run = None \/ FoundIn(calls[c].run, runs)
    BY <1>1, <1>3 DEF CallInv
  <1>5. PICK r \in OrNone(Runs) : r = calls[c].run
    BY <1>3
  <1>6. AllowedOf(r)' = AllowedOf(r)
    BY <1>4, <1>5, AllowedKept
  <1>7. calls'[c].run = r /\ AllowedOf(r)' = {}
    BY <1>1, <1>2, <1>5, <1>6 DEF SameWork
  <1>8. Unrestricted(c)'
    BY <1>1, <1>2, <1>7 DEF Unrestricted, At, SameWork
  <1> QED
    BY <1>1, <1>2, <1>8 DEF Loose, Users, At, SameWork

(* What the sandboxes' rows never lose.                                    *)
LEMMA BoxesKept ==
    ASSUME TypeInv, [Next]_vars, NEW x \in Calls
    PROVE  /\ sandboxes[x] # None => sandboxes'[x] # None
           /\ sandboxes'[x].status = "FAILED" =>
                sandboxes'[x] = sandboxes[x] \/ calls'[x].phase = "gone"
  <1> DEFINE Kept == /\ sandboxes[x] # None => sandboxes'[x] # None
                     /\ sandboxes'[x].status = "FAILED" =>
                          sandboxes'[x] = sandboxes[x] \/ calls'[x].phase = "gone"
  <1>0. sandboxes \in [Calls -> OrNone(Sandbox)]
    BY TablesTyped DEF TablesOK
  <1>1. ASSUME sandboxes' = sandboxes PROVE Kept
    BY <1>1
  <1>2. ASSUME NEW c \in Calls, Prepare(c) PROVE Kept
    <2>1. PICK s \in Call :
             /\ Moves(c, s)
             /\ \/ sandboxes' = [sandboxes EXCEPT ![c] = NewSandbox("PREPARED")]
                \/ /\ s = Dead(c)
                   /\ sandboxes' \in {sandboxes, [sandboxes EXCEPT ![c] = NewSandbox("FAILED")]}
      BY <1>2, PrepareIs
    <2>2. \A status \in {"PREPARED", "FAILED"} :
            NewSandbox(status).status = status /\ NewSandbox(status) # None
      <3>1. \A status \in {"PREPARED", "FAILED"} :
              NewSandbox(status).status = status /\ NewSandbox(status) \in Sandbox
        BY DEF NewSandbox, Sandbox
      <3> QED
        BY <3>1, NoneAssumption
    <2>3. Dead(c).phase = "gone" /\ calls'[c] = s
      BY <2>1, DeadIs, TablesTyped, MovesIs DEF Moves
    <2> QED
      BY <1>0, <2>1, <2>2, <2>3
  <1>3. ASSUME NEW c \in Calls, MarkUsed(c) PROVE Kept
    <2> DEFINE row == [status |-> "USED", autofix |-> calls[c].kind = "autofix",
                       execution |-> calls[c].kind = "patch"]
    <2>1. sandboxes' \in {sandboxes, [sandboxes EXCEPT ![c] = row]}
      BY <1>3, MarkUsedIs
    <2>2. row \in Sandbox
      BY DEF Sandbox
    <2>3. row.status = "USED" /\ row # None
      BY <2>2, NoneAssumption
    <2> HIDE DEF row
    <2> QED
      BY <1>0, <2>1, <2>3
  <1>4. ASSUME NEW s \in Sandboxed, CleanUp(s) PROVE Kept
    <2> DEFINE b == sandboxes[s]
               b2 == [b EXCEPT !.status = "CLEANED_UP"]
    <2>1. s \in Calls /\ b \in Sandbox
      BY <1>0, <1>4, PatchingAssumption DEF CleanUp, OrNone
    <2>2. sandboxes' = [sandboxes EXCEPT ![s] = b2]
      BY <1>4 DEF CleanUp
    <2> HIDE DEF b
    <2>3. b2 \in Sandbox /\ b2.status = "CLEANED_UP"
      BY <2>1 DEF Sandbox
    <2>4. b2 # None
      BY <2>3, NoneAssumption
    <2> HIDE DEF b2
    <2> QED
      BY <1>0, <2>1, <2>2, <2>3, <2>4
  <1>5. ASSUME NEW c \in Calls, Begin(c) \/ Step(c) \/ Die(c), ~Prepare(c), ~MarkUsed(c)
        PROVE  sandboxes' = sandboxes
    BY <1>5, Zenon DEF Begin, Step, Die, Start, Generate, Apply, SaveExecution, Verify,
       SaveVerification, SaveAttempt, SaveAutofix, tables
  <1>6. ASSUME NEW r \in Runs, Plan(r) PROVE sandboxes' = sandboxes
    BY <1>6 DEF Plan
  <1>7. ASSUME UNCHANGED vars PROVE sandboxes' = sandboxes
    BY <1>7 DEF vars, tables
  <1> HIDE DEF Kept
  <1>8. sandboxes' = sandboxes => Kept
    BY <1>1 DEF Kept
  <1>9. ASSUME NEW c \in Calls, Begin(c) \/ Step(c) \/ Die(c) PROVE Kept
    BY <1>2, <1>3, <1>5, <1>8, <1>9
  <1>10. \/ \E r \in Runs : Plan(r)
         \/ \E c \in Calls : Begin(c) \/ Step(c) \/ Die(c)
         \/ \E s \in Sandboxed : CleanUp(s)
         \/ UNCHANGED vars
    BY Zenon DEF Next
  <1>11. Kept
    BY <1>4, <1>6, <1>7, <1>8, <1>9, <1>10
  <1> QED
    BY <1>11 DEF Kept

LEMMA AllowedGrows ==
    ASSUME TypeInv, [Next]_vars, NEW r \in Runs
    PROVE  AllowedOf(r) \subseteq AllowedOf(r)'
  <1>1. CASE FoundIn(r, runs)
    BY <1>1, AllowedKept DEF OrNone
  <1>2. CASE ~FoundIn(r, runs)
    BY <1>2, AllowedKept
  <1> QED
    BY <1>1, <1>2

LEMMA CreateGrows ==
    ASSUME NEW p, NEW S, NEW T, S \subseteq T, MayCreate(p, S)
    PROVE  MayCreate(p, T)
  BY DEF MayCreate, SuggestedDirs

(* A file that a step leaves alone, and that is lacking no less.           *)
LEMMA AccountKept ==
    ASSUME TypeInv, [Next]_vars, NEW s \in Places, NEW p \in Paths, Accounted(s, p),
           trees'[s][p] = trees[s][p], Lacking(s, p) => Lacking(s, p)',
           sandboxes[s] = None => sandboxes'[s] = None \/ Lacking(s, p)' \/ s = Repo
    PROVE  Accounted(s, p)'
  <1>1. Differs(s, p)' <=> Differs(s, p)
    BY DEF Differs
  <1>2. Missing(s, p)' <=> Missing(s, p)
    BY DEF Missing
  <1>3. Repo \in Places
    BY DEF Places
  <1>4. Planned(s, p) => Planned(s, p)'
    <2> SUFFICES ASSUME NEW r \in Runs,
                        p \in AllowedOf(r) \/ (Lacking(s, p) /\ MayCreate(p, AllowedOf(r)))
                 PROVE  Planned(s, p)'
      BY DEF Planned
    <2>1. AllowedOf(r) \subseteq AllowedOf(r)'
      BY AllowedGrows
    <2>2. CASE p \in AllowedOf(r)
      BY <2>1, <2>2 DEF Planned
    <2>3. CASE Lacking(s, p) /\ MayCreate(p, AllowedOf(r))
      <3>1. MayCreate(p, AllowedOf(r)')
        BY <2>1, <2>3, CreateGrows
      <3>2. MayCreate(p, AllowedOf(r))'
        BY <3>1 DEF MayCreate, SuggestedDirs
      <3> QED
        BY <2>3, <3>2 DEF Planned
    <2> QED
      BY <2>2, <2>3
  <1>5. (Loose(s) => Loose(s)') /\ (Loose(Repo) => Loose(Repo)')
    BY <1>3, LooseKept
  <1>6. Differs(s, p)' => Loose(s)' \/ Loose(Repo)' \/ Planned(s, p)'
    BY <1>1, <1>4, <1>5 DEF Accounted
  <1>7. Missing(s, p)' => s # Repo /\ (sandboxes'[s] = None \/ Lacking(s, p)')
    BY <1>2 DEF Accounted
  <1> QED
    BY <1>6, <1>7 DEF Accounted

LEMMA MadeStays ==
    ASSUME TypeInv, [Next]_vars, NEW d \in Calls, NEW k \in Call, Made(d, k, sandboxes),
           AtWork(k) => calls'[d].phase # "gone"
    PROVE  Made(d, k, sandboxes')
  <1>1. k.place = Repo \/ k.place \in Calls
    BY PatchingAssumption DEF Call, Places
  <1>2. k.place \in Calls /\ sandboxes[k.place] # None => sandboxes'[k.place] # None
    BY BoxesKept
  <1>3. AtWork(k) /\ sandboxes'[d].status = "FAILED" => sandboxes[d].status = "FAILED"
    BY BoxesKept
  <1> QED
    BY <1>1, <1>2, <1>3 DEF Made

LEMMA ConfinedStays ==
    ASSUME TypeInv, [Next]_vars, NEW r \in OrNone(Runs), AllowedOf(r) # {}
    PROVE  AllowedOf(r)' # {}
  <1>1. r \in Runs
    BY DEF AllowedOf, Found, OrNone
  <1>2. AllowedOf(r) \subseteq AllowedOf(r)'
    BY <1>1, AllowedGrows
  <1> QED
    BY <1>2

LEMMA ScopeOfCalls ==
    ASSUME TypeInv, ScopeInv, [Next]_vars, NEW d \in Calls
    PROVE  Made(d, calls'[d], sandboxes') /\ Confined(calls[d])'
  <1>1. calls[d] \in Call /\ Made(d, calls[d], sandboxes) /\ Confined(calls[d])
    BY TablesTyped DEF ScopeInv
  <1>2. ASSUME NEW k \in Call, calls'[d] = k,
               k.phase = "apply" /\ k.kind = "autofix" => AllowedOf(k.run) # {}
        PROVE  Confined(calls[d])'
    <2>1. PICK r \in OrNone(Runs) : r = k.run
      BY DEF Call
    <2>2. AllowedOf(r) # {} => AllowedOf(r)' # {}
      BY ConfinedStays
    <2>3. k.phase = "apply" /\ k.kind = "autofix" => AllowedOf(r)' # {}
      BY <1>2, <2>1, <2>2
    <2>4. calls'[d].run = r /\ calls'[d].phase = k.phase /\ calls'[d].kind = k.kind
      BY <1>2, <2>1
    <2> QED
      BY <2>3, <2>4 DEF Confined
  <1>3. ASSUME calls'[d] = calls[d]
        PROVE  Made(d, calls'[d], sandboxes') /\ Confined(calls[d])'
    <2>1. Made(d, calls[d], sandboxes')
      BY <1>1, <1>3, MadeStays DEF AtWork
    <2>2. Confined(calls[d])'
      BY <1>1, <1>2, <1>3 DEF Confined
    <2> QED
      BY <1>3, <2>1, <2>2
  <1>4. ASSUME Begin(d)
        PROVE  Made(d, calls'[d], sandboxes') /\ Confined(calls[d])'
    <2>1. PICK s \in Call :
            /\ Becomes(d, s) /\ s.phase \in {"prepare", "start", "apply", "verify"}
            /\ s.phase \in {"prepare", "apply"} /\ s.kind # "patch"
                     => s.phase = "prepare" /\ s.kind = "autofix"
            /\ s.phase # "prepare" => s.place = Repo \/ sandboxes[s.place] # None
            /\ d \in Sandboxed => s.phase = "prepare"
      BY <1>4, BeginIs, Zenon
    <2>2. calls'[d] = s
      BY <2>1, MovesIs
    <2>3. Made(d, s, sandboxes)
      BY <2>1 DEF Made, AtWork
    <2>4. Made(d, s, sandboxes')
      BY <2>1, <2>2, <2>3, MadeStays
    <2>5. Confined(calls[d])'
      BY <1>2, <2>1, <2>2
    <2> QED
      BY <2>2, <2>4, <2>5
  <1>5. ASSUME Step(d) \/ Die(d)
        PROVE  Made(d, calls'[d], sandboxes') /\ Confined(calls[d])'
    <2>1. PICK s \in Call : /\ Moves(d, s) /\ s.phase \in Begun \cup Ended
                            /\ calls[d].phase \in Begun
                            /\ s.phase = "apply" /\ s.kind = "autofix" =>
                                 Generate(d) \/ calls[d].phase = "apply"
      BY <1>5, CallStep, Zenon
    <2>2. calls'[d] = s /\ s.kind = calls[d].kind /\ s.place = calls[d].place
          /\ s.run = calls[d].run
      BY <2>1, MovesIs DEF Moves
    <2>3. ASSUME Generate(d), s.phase = "apply" PROVE AllowedOf(s.run) # {}
      <3>1. Shown(d) # {}
        <4>1. \E patch \in PatchesOf[d] : MayGenerate(d, patch)
          <5>1. PICK z \in Call :
                  /\ Moves(d, z)
                  /\ (\E patch \in PatchesOf[d] : MayGenerate(d, patch)) \/ z.phase = "attempt"
            BY <2>3, GenerateIs
          <5>2. z = s
            BY <2>2, <5>1, MovesIs DEF Moves
          <5> QED
            BY <2>3, <5>1, <5>2
        <4> QED
          BY <4>1, Zenon DEF MayGenerate
      <3> QED
        BY <2>2, <3>1 DEF Shown
    <2>4. Confined(calls[d])'
      BY <1>1, <1>2, <2>1, <2>2, <2>3 DEF Confined
    <2>5. CASE Prepare(d)
      <3>1. PICK z \in Call :
             /\ Moves(d, z) /\ d \in Sandboxed /\ calls[d].place = d
             /\ sandboxes' = [sandboxes EXCEPT ![d] = NewSandbox("PREPARED")] \/ z = Dead(d)
        BY <2>5, PrepareIs
      <3>2. z = s
        BY <2>2, <3>1, MovesIs DEF Moves
      <3>3. CASE z = Dead(d)
        BY <2>2, <2>4, <3>2, <3>3, DeadIs, TablesTyped DEF Made, AtWork
      <3>4. CASE sandboxes' = [sandboxes EXCEPT ![d] = NewSandbox("PREPARED")]
        <4>1. sandboxes'[d] = NewSandbox("PREPARED")
          BY <3>4, TablesTyped DEF TablesOK
        <4>2. NewSandbox("PREPARED") \in Sandbox /\ NewSandbox("PREPARED").status = "PREPARED"
          BY DEF NewSandbox, Sandbox
        <4> QED
          BY <2>2, <2>4, <3>1, <4>1, <4>2, NoneAssumption DEF Made
      <3> QED
        BY <2>4, <3>1, <3>3, <3>4
    <2>6. CASE calls[d].phase # "prepare"
      <3>1. Made(d, s, sandboxes)
        BY <1>1, <2>1, <2>2, <2>6 DEF Made, AtWork, Begun
      <3>2. Made(d, s, sandboxes')
        BY <2>2, <3>1, MadeStays DEF AtWork
      <3> QED
        BY <2>2, <2>4, <3>2
    <2>7. CASE calls[d].phase = "prepare" /\ ~Prepare(d)
      <3>1. Die(d)
        BY <1>5, <2>7 DEF Step, Start, Generate, Apply, SaveExecution, Verify,
             SaveVerification, SaveAttempt, SaveAutofix, MarkUsed, At
      <3>2. Moves(d, Dead(d)) /\ Dead(d).phase = "gone"
        BY <3>1, DieIs, DeadIs, TablesTyped
      <3>3. s = Dead(d)
        BY <2>2, <3>2, MovesIs DEF Moves
      <3> QED
        BY <2>2, <2>4, <3>2, <3>3 DEF Made, AtWork
    <2> QED
      BY <2>5, <2>6, <2>7
  <1>6. ASSUME NEW c \in Calls, c # d, Begin(c) \/ Step(c) \/ Die(c)
        PROVE  calls'[d] = calls[d]
    <2>1. \E s : Becomes(c, s)
      <3>1. CASE Begin(c)
        BY <3>1, BeginIs, Zenon
      <3>2. CASE Step(c) \/ Die(c)
        BY <3>2, CallStep, Zenon DEF Moves
      <3> QED
        BY <1>6, <3>1, <3>2
    <2> QED
      BY <1>6, <2>1, MovesIs
  <1>7. ASSUME NEW r \in Runs, Plan(r) PROVE calls'[d] = calls[d]
    BY <1>7 DEF Plan
  <1>8. ASSUME NEW s \in Sandboxed, CleanUp(s) PROVE calls'[d] = calls[d]
    BY <1>8 DEF CleanUp
  <1>9. ASSUME UNCHANGED vars PROVE calls'[d] = calls[d]
    BY <1>9 DEF vars
  <1>10. \/ \E r \in Runs : Plan(r)
         \/ \E c \in Calls : Begin(c) \/ Step(c) \/ Die(c)
         \/ \E s \in Sandboxed : CleanUp(s)
         \/ UNCHANGED vars
    BY Zenon DEF Next
  <1> QED
    BY <1>3, <1>4, <1>5, <1>6, <1>7, <1>8, <1>9, <1>10

LEMMA ScopeOfPrepare ==
    ASSUME TypeInv, ScopeInv, [Next]_vars, NEW c \in Calls, Prepare(c),
           NEW s \in Places, NEW p \in Paths
    PROVE  Accounted(s, p)'
  <1>1. PICK z \in Call :
             /\ Moves(c, z) /\ c \in Sandboxed
             /\ \/ /\ trees' = [trees EXCEPT ![c] = Materialized]
                   /\ sandboxes' = [sandboxes EXCEPT ![c] = NewSandbox("PREPARED")]
                \/ /\ trees' \in {trees, [trees EXCEPT ![c] = Materialized]}
                   /\ sandboxes' \in {sandboxes, [sandboxes EXCEPT ![c] = NewSandbox("FAILED")]}
    BY PrepareIs
  <1>2. /\ trees \in [Places -> Tree] /\ sandboxes \in [Calls -> OrNone(Sandbox)]
        /\ c \in Places /\ c # Repo /\ Repo \in Places /\ removed' = removed
    BY <1>1, TablesTyped, PatchingAssumption DEF TablesOK, Places, Prepare
  <1>3. \A status \in {"PREPARED", "FAILED"} :
          NewSandbox(status).status = status /\ NewSandbox(status) # None
    <2>1. \A status \in {"PREPARED", "FAILED"} :
            NewSandbox(status).status = status /\ NewSandbox(status) \in Sandbox
      BY DEF NewSandbox, Sandbox
    <2> QED
      BY <2>1, NoneAssumption
  <1>4. Accounted(s, p) /\ Accounted(Repo, p)
    BY <1>2 DEF ScopeInv
  <1>5. CASE s # c
    <2>1. trees'[s] = trees[s]
      BY <1>1, <1>2, <1>5
    <2>2. s # Repo => s \in Calls /\ sandboxes'[s] = sandboxes[s]
      BY <1>1, <1>2, <1>5, PatchingAssumption DEF Places
    <2>3. Lacking(s, p) => Lacking(s, p)'
      BY <1>2, <2>2 DEF Lacking
    <2> QED
      BY <1>4, <2>1, <2>2, <2>3, AccountKept
  <1>6. CASE s = c /\ trees'[c] = Materialized
    <2>1. Differs(c, p)' => Differs(Repo, p)
      BY <1>2, <1>6 DEF Differs, Materialized
    <2>2. Missing(c, p)' => p \in Uncopied \/ Missing(Repo, p)
      BY <1>2, <1>6 DEF Missing, Materialized
    <2>3. ~Missing(Repo, p) /\ (Differs(Repo, p) => Loose(Repo) \/ Planned(Repo, p))
      BY <1>4 DEF Accounted
    <2>4. Loose(Repo) => Loose(Repo)'
      BY <1>2, LooseKept
    <2>5. Planned(Repo, p) => Planned(c, p)'
      <3>1. ASSUME Planned(Repo, p) PROVE \E r \in Runs : p \in AllowedOf(r)'
        <4>1. PICK r \in Runs : p \in AllowedOf(r)
          BY <3>1 DEF Planned, Lacking
        <4> QED
          BY <4>1, AllowedGrows
      <3> QED
        BY <3>1 DEF Planned
    <2>6. sandboxes'[c] = None \/ (p \in Uncopied => Lacking(c, p)')
      BY <1>2 DEF Lacking
    <2>7. Differs(c, p)' => Loose(c)' \/ Loose(Repo)' \/ Planned(c, p)'
      BY <2>1, <2>3, <2>4, <2>5
    <2>8. Missing(c, p)' => c # Repo /\ (sandboxes'[c] = None \/ Lacking(c, p)')
      BY <1>2, <2>2, <2>3, <2>6
    <2>9. Accounted(c, p)'
      BY <2>7, <2>8 DEF Accounted
    <2> QED
      BY <1>6, <2>9
  <1>7. CASE s = c /\ trees'[c] # Materialized
    <2>1. trees'[c] = trees[c]
          /\ sandboxes' \in {sandboxes, [sandboxes EXCEPT ![c] = NewSandbox("FAILED")]}
      BY <1>1, <1>2, <1>7
    <2>2. sandboxes'[c] = sandboxes[c] \/ (sandboxes'[c] # None /\ sandboxes'[c].status = "FAILED")
      BY <1>2, <1>3, <2>1
    <2>3. Lacking(c, p) => Lacking(c, p)'
      BY <1>2, <2>2 DEF Lacking
    <2>4. sandboxes[c] = None => sandboxes'[c] = None \/ Lacking(c, p)'
      BY <1>2, <2>2 DEF Lacking
    <2>5. Accounted(c, p)'
      BY <1>2, <1>4, <1>7, <2>1, <2>3, <2>4, AccountKept
    <2> QED
      BY <1>7, <2>5
  <1> QED
    BY <1>5, <1>6, <1>7

(* An operation changes a file as its run allows, unless it is of none.    *)
LEMMA ScopeOfApply ==
    ASSUME TypeInv, ScopeInv, [Next]_vars, NEW c \in Calls, Apply(c),
           NEW s \in Places, NEW p \in Paths
    PROVE  Accounted(s, p)'
  <1> DEFINE k == calls[c]
             op == Operation(c)
             content == trees[k.place][op.path]
             after == AfterText(op, content)
             allowed == AllowedOf(k.run)
  <1>1. PICK z \in Call :
             /\ Moves(c, z) /\ k.phase = "apply"
             /\ \/ /\ op.path \in Paths
                   /\ Permitted(op, content, allowed)
                   /\ after \in Seq(Texts)
                   /\ trees' = IF k.mode = "apply"
                               THEN [trees EXCEPT ![k.place][op.path] = after] ELSE trees
                \/ trees' = trees
    BY ApplyIs
  <1>2. /\ k \in Call /\ CallInv(c, k, runs) /\ k.place \in Places
        /\ trees \in [Places -> Tree] /\ sandboxes' = sandboxes /\ removed' = removed
        /\ Made(c, k, sandboxes) /\ Confined(k) /\ Accounted(s, p)
    BY TablesTyped DEF TablesOK, Apply, tables, ScopeInv, Call
  <1>3. Lacking(s, p) => Lacking(s, p)'
    BY <1>2 DEF Lacking
  <1>4. ASSUME trees'[s][p] = trees[s][p] PROVE Accounted(s, p)'
    BY <1>2, <1>3, <1>4, AccountKept
  <1>5. ASSUME trees'[s][p] # trees[s][p]
        PROVE  /\ s = k.place /\ p = op.path /\ k.mode = "apply" /\ trees'[s][p] = after
               /\ Permitted(op, content, allowed) /\ after \in Seq(Texts)
    <2> HIDE DEF after, content, allowed, op, k
    <2>1. /\ op.path \in Paths /\ k.mode = "apply"
          /\ trees' = [trees EXCEPT ![k.place][op.path] = after]
          /\ Permitted(op, content, allowed) /\ after \in Seq(Texts)
      BY <1>1, <1>5
    <2>2. trees[s] \in [Paths -> {Absent} \cup Seq(Texts)]
      BY <1>2 DEF Tree
    <2> QED
      BY <1>2, <1>5, <2>1, <2>2
  <1>6. CASE trees'[s][p] # trees[s][p]
    <2>1. /\ s = k.place /\ p = op.path /\ k.mode = "apply" /\ trees'[s][p] # Absent
          /\ Permitted(op, content, allowed)
      BY <1>5, <1>6, NoneAssumption
    <2>2. k.phase = "apply" /\ k.kind \in {"autofix", "patch"}
      BY <1>1, <1>2 DEF CallInv, Call
    <2>3. CASE allowed = {}
      <3>1. k.kind = "patch"
        BY <1>2, <2>2, <2>3 DEF Confined
      <3>2. Loose(s)
        BY <2>1, <2>2, <2>3, <3>1 DEF Loose, Users, Unrestricted, At
      <3>3. Loose(s)'
        BY <3>2, LooseKept
      <3> QED
        BY <2>1, <3>3 DEF Accounted, Missing
    <2>4. CASE allowed # {}
      <3>1. PICK r \in Runs : r = k.run
        BY <1>2, <2>4 DEF AllowedOf, Found, Call, OrNone
      <3>2. allowed \subseteq AllowedOf(r)'
        BY <3>1, AllowedGrows
      <3>3. CASE content # Absent
        <4>1. p \in allowed
          BY <2>1, <2>4, <3>3, Zenon DEF Permitted
        <4>2. Planned(s, p)'
          BY <3>2, <4>1 DEF Planned
        <4> QED
          BY <2>1, <4>2 DEF Accounted, Missing
      <3>4. CASE content = Absent
        <4>1. MayCreate(p, allowed)
          BY <2>1, <2>4, <3>4, Zenon DEF Permitted
        <4>2. MayCreate(p, AllowedOf(r)')
          BY <3>2, <4>1, CreateGrows
        <4>3. MayCreate(p, AllowedOf(r))'
          BY <4>2 DEF MayCreate, SuggestedDirs
        <4>4. CASE BaseFiles[p] = Absent
          BY <2>1, <4>4 DEF Accounted, Missing, Differs
        <4>5. CASE BaseFiles[p] # Absent
          <5>1. Missing(s, p)
            BY <2>1, <3>4, <4>5 DEF Missing
          <5>2. s # Repo /\ sandboxes[s] # None
            BY <1>2, <2>1, <2>2, <5>1 DEF Accounted, Made, AtWork
          <5>3. Lacking(s, p)
            BY <1>2, <5>1, <5>2 DEF Accounted
          <5>4. Planned(s, p)'
            BY <1>3, <4>3, <5>3 DEF Planned
          <5> QED
            BY <2>1, <5>4 DEF Accounted, Missing
        <4> QED
          BY <4>4, <4>5
      <3> QED
        BY <3>3, <3>4
    <2> QED
      BY <2>3, <2>4
  <1> QED
    BY <1>4, <1>6

LEMMA ScopeOfMarkUsed ==
    ASSUME TypeInv, ScopeInv, [Next]_vars, NEW c \in Calls, MarkUsed(c),
           NEW s \in Places, NEW p \in Paths
    PROVE  Accounted(s, p)'
  <1> DEFINE row == [status |-> "USED", autofix |-> calls[c].kind = "autofix",
                     execution |-> calls[c].kind = "patch"]
  <1>1. c \in Sandboxed /\ sandboxes' \in {sandboxes, [sandboxes EXCEPT ![c] = row]}
    BY MarkUsedIs
  <1>2. /\ sandboxes \in [Calls -> OrNone(Sandbox)] /\ c # Repo /\ c \in Calls
        /\ calls[c].place = c /\ calls[c].phase = "use"
        /\ trees' = trees /\ removed' = removed
    BY <1>1, TablesTyped, PatchingAssumption DEF TablesOK, CallInv, MarkUsed, At
  <1>3. row \in Sandbox
    BY DEF Sandbox
  <1>4. row # None
    BY <1>3, NoneAssumption
  <1>5. sandboxes[c] # None /\ sandboxes[c].status # "FAILED"
    BY <1>1, <1>2 DEF ScopeInv, Made, AtWork
  <1> HIDE DEF row
  <1>6. s # Repo /\ s # c => sandboxes'[s] = sandboxes[s]
    BY <1>1, <1>2, PatchingAssumption DEF Places
  <1>7. sandboxes'[c] # None
    BY <1>1, <1>2, <1>4, <1>5
  <1>8. Lacking(s, p) => Lacking(s, p)'
    <2>1. CASE s = c
      BY <1>2, <1>5, <1>7, <2>1 DEF Lacking
    <2>2. CASE s # c
      BY <1>2, <1>6, <2>2 DEF Lacking
    <2> QED
      BY <2>1, <2>2
  <1>9. sandboxes[s] = None => sandboxes'[s] = None \/ s = Repo
    BY <1>5, <1>6
  <1>10. Accounted(s, p)
    BY DEF ScopeInv
  <1> QED
    BY <1>2, <1>8, <1>9, <1>10, AccountKept

LEMMA ScopeOfCleanUp ==
    ASSUME TypeInv, ScopeInv, [Next]_vars, NEW x \in Sandboxed, CleanUp(x),
           NEW s \in Places, NEW p \in Paths
    PROVE  Accounted(s, p)'
  <1>1. /\ trees \in [Places -> Tree] /\ sandboxes \in [Calls -> OrNone(Sandbox)]
        /\ x \in Places /\ x \in Calls /\ x # Repo /\ removed' = removed \cup {x}
        /\ trees' = [trees EXCEPT ![x] = Nothing] /\ sandboxes[x] # None
    BY TablesTyped, PatchingAssumption DEF TablesOK, Places, CleanUp
  <1>2. \E b : sandboxes' = [sandboxes EXCEPT ![x] = b]
    BY DEF CleanUp
  <1>3. sandboxes'[x] # None
    BY <1>1, BoxesKept
  <1>4. Accounted(s, p)
    BY DEF ScopeInv
  <1>5. CASE s # x
    <2>1. trees'[s] = trees[s] /\ (s # Repo => sandboxes'[s] = sandboxes[s])
      BY <1>1, <1>2, <1>5, PatchingAssumption DEF Places
    <2>2. Lacking(s, p) => Lacking(s, p)'
      BY <1>1, <2>1 DEF Lacking
    <2> QED
      BY <1>4, <2>1, <2>2, AccountKept
  <1>6. CASE s = x
    <2>1. trees'[x][p] = Absent
      BY <1>1 DEF Nothing
    <2>2. Lacking(x, p)'
      BY <1>1, <1>3 DEF Lacking
    <2> QED
      BY <1>1, <1>6, <2>1, <2>2 DEF Accounted, Differs
  <1> QED
    BY <1>5, <1>6

LEMMA ScopeOfPlaces ==
    ASSUME TypeInv, ScopeInv, [Next]_vars, NEW s \in Places, NEW p \in Paths
    PROVE  Accounted(s, p)'
  <1>1. ASSUME trees' = trees, sandboxes' = sandboxes, removed' = removed
        PROVE  Accounted(s, p)'
    <2>1. Lacking(s, p) => Lacking(s, p)'
      BY <1>1 DEF Lacking
    <2> QED
      BY <1>1, <2>1, AccountKept DEF ScopeInv
  <1>2. ASSUME NEW c \in Calls, Begin(c) \/ Step(c) \/ Die(c),
               ~Prepare(c), ~Apply(c), ~MarkUsed(c)
        PROVE  trees' = trees /\ sandboxes' = sandboxes /\ removed' = removed
    BY <1>2, Zenon DEF Begin, Step, Die, Start, Generate, SaveExecution, Verify,
       SaveVerification, SaveAttempt, SaveAutofix, tables
  <1>3. ASSUME NEW c \in Calls, Begin(c) \/ Step(c) \/ Die(c) PROVE Accounted(s, p)'
    BY <1>1, <1>2, <1>3, ScopeOfPrepare, ScopeOfApply, ScopeOfMarkUsed
  <1>4. ASSUME NEW r \in Runs, Plan(r) PROVE Accounted(s, p)'
    BY <1>1, <1>4 DEF Plan
  <1>5. ASSUME NEW x \in Sandboxed, CleanUp(x) PROVE Accounted(s, p)'
    BY <1>5, ScopeOfCleanUp
  <1>6. ASSUME UNCHANGED vars PROVE Accounted(s, p)'
    BY <1>1, <1>6 DEF vars, tables
  <1>7. \/ \E r \in Runs : Plan(r)
        \/ \E c \in Calls : Begin(c) \/ Step(c) \/ Die(c)
        \/ \E x \in Sandboxed : CleanUp(x)
        \/ UNCHANGED vars
    BY Zenon DEF Next
  <1> QED
    BY <1>3, <1>4, <1>5, <1>6, <1>7

LEMMA ScopeStep ==
    ASSUME TypeInv, ScopeInv, [Next]_vars
    PROVE  ScopeInv'
  BY ScopeOfPlaces, ScopeOfCalls DEF ScopeInv

LEMMA ScopeInit == Init => ScopeInv
  <1> SUFFICES ASSUME Init PROVE ScopeInv
    OBVIOUS
  <1>1. /\ \A s \in Places, p \in Paths : trees[s][p] = IF s = Repo THEN BaseFiles[p] ELSE Absent
        /\ \A s \in Places : s # Repo => s \in Calls
    BY PatchingAssumption DEF Init, Places, Nothing
  <1>2. \A s \in Calls : sandboxes[s] = None /\ calls[s].phase = "idle"
    BY IdleTyped DEF Init
  <1>3. \A s \in Places, p \in Paths : Accounted(s, p)
    BY <1>1, <1>2 DEF Accounted, Differs, Missing
  <1> QED
    BY <1>2, <1>3 DEF ScopeInv, Made, AtWork, Confined

(* A file of the commit that no plan names stays as it is in every place,  *)
(* through any number of runs, loops, patches and sandboxes: unless a      *)
(* patch is applied there or in the repository that is bound by no plan,   *)
(* or a sandbox that lacks the file gets a new one where files may be      *)
(* created.                                                                *)
THEOREM ScopeIsKept == Spec => []ScopeKept
  <1>1. ScopeInv => ScopeKept
    <2> SUFFICES ASSUME ScopeInv, NEW s \in Places, NEW p \in Paths,
                        Differs(s, p), \A c \in Users(s) \cup Users(Repo) : ~Unrestricted(c)
                 PROVE  Planned(s, p)
      BY DEF ScopeKept, Differs, Planned
    <2> QED
      BY DEF ScopeInv, Accounted, Loose
  <1>2. Init => ScopeInv
    BY ScopeInit
  <1>3. TypeInv /\ ScopeInv /\ [Next]_vars => ScopeInv'
    BY ScopeStep
  <1> QED
    BY <1>1, <1>2, <1>3, TypesKept, PTL DEF Spec

-----------------------------------------------------------------------------
(* AttemptsAddUp.  Only a call itself writes its rows.                     *)

LEMMA OwnRows ==
    ASSUME TypeInv, NEW c \in Calls, NEW d \in Calls, d # c, Begin(c) \/ Step(c) \/ Die(c)
    PROVE  /\ calls'[d] = calls[d] /\ autofixes'[d] = autofixes[d]
           /\ attempts'[d] = attempts[d] /\ executions'[d] = executions[d]
           /\ verifications'[d] = verifications[d]
  <1> DEFINE Kept == /\ autofixes'[d] = autofixes[d] /\ attempts'[d] = attempts[d]
                     /\ executions'[d] = executions[d] /\ verifications'[d] = verifications[d]
  <1>1. TablesOK
    BY TablesTyped
  <1>2. ASSUME Begin(c) \/ Die(c) \/ Apply(c) \/ Verify(c) \/ Prepare(c) \/ Generate(c) \/ MarkUsed(c)
        PROVE  Kept
    <2>1. /\ autofixes' = autofixes /\ attempts' = attempts
          /\ executions' = executions /\ verifications' = verifications
      BY <1>2, Zenon DEF Begin, Die, Apply, Verify, Prepare, Generate, MarkUsed, tables
    <2> QED
      BY <2>1
  <1>3. ASSUME Start(c)
        PROVE  Kept
    BY <1>1, <1>3 DEF Start, TablesOK
  <1>4. ASSUME SaveExecution(c)
        PROVE  Kept
    BY <1>1, <1>4 DEF SaveExecution, TablesOK
  <1>5. ASSUME SaveVerification(c)
        PROVE  Kept
    BY <1>1, <1>5 DEF SaveVerification, TablesOK
  <1>6. ASSUME SaveAttempt(c)
        PROVE  Kept
    BY <1>1, <1>6 DEF SaveAttempt, TablesOK
  <1>7. ASSUME SaveAutofix(c)
        PROVE  Kept
    BY <1>1, <1>7 DEF SaveAutofix, TablesOK
  <1>8. Kept
    BY <1>2, <1>3, <1>4, <1>5, <1>6, <1>7, Zenon DEF Step
  <1>9. \E s : Becomes(c, s)
    <2>1. CASE Begin(c)
      BY <2>1, BeginIs, Zenon
    <2>2. CASE Step(c) \/ Die(c)
      BY <2>2, CallStep, Zenon DEF Moves
    <2> QED
      BY <2>1, <2>2
  <1> QED
    BY <1>8, <1>9, MovesIs

LEMMA Unmoved ==
    ASSUME TypeInv, [Next]_vars, NEW c \in Calls, ~Begin(c), ~Step(c), ~Die(c)
    PROVE  /\ calls'[c] = calls[c] /\ autofixes'[c] = autofixes[c]
           /\ attempts'[c] = attempts[c] /\ executions'[c] = executions[c]
           /\ verifications'[c] = verifications[c]
  <1> DEFINE Kept == /\ calls'[c] = calls[c] /\ autofixes'[c] = autofixes[c]
                     /\ attempts'[c] = attempts[c] /\ executions'[c] = executions[c]
                     /\ verifications'[c] = verifications[c]
  <1>1. ASSUME NEW d \in Calls, Begin(d) \/ Step(d) \/ Die(d) PROVE Kept
    BY <1>1, OwnRows
  <1>2. ASSUME NEW r \in Runs, Plan(r) PROVE Kept
    BY <1>2 DEF Plan
  <1>3. ASSUME NEW s \in Sandboxed, CleanUp(s) PROVE Kept
    BY <1>3 DEF CleanUp
  <1>4. ASSUME UNCHANGED vars PROVE Kept
    BY <1>4 DEF vars, tables
  <1>5. \/ \E r \in Runs : Plan(r)
        \/ \E d \in Calls : Begin(d) \/ Step(d) \/ Die(d)
        \/ \E s \in Sandboxed : CleanUp(s)
        \/ UNCHANGED vars
    BY Zenon DEF Next
  <1> QED
    BY <1>1, <1>2, <1>3, <1>4, <1>5

(* What the n-th attempt has come to in each phase, and what the attempts  *)
(* before it came to.                                                      *)
AllFailed(tries, n) == \A i \in 1..n : tries[i].status = "FAILED"
Tried(proposal, execution) == [status |-> "FAILED", proposal |-> proposal,
                               execution |-> execution, verification |-> None]
Executes(row, id, place) ==
    row # None /\ row.status = "SUCCEEDED" /\ row.proposal = id /\ row.place = place
Verifies(row, c, n) == row # None /\ row.status = "SUCCEEDED" /\ row.execution = <<c, n>>

Going(c, k, tries, rows) ==
    LET n == k.number IN
    /\ Len(tries) = (IF k.phase = "save" THEN n ELSE n - 1)
    /\ AllFailed(tries, n - 1)
    /\ k.phase = "save" => tries[n] = k.try
    /\ k.phase = "generate" => k.try = NoTry
    /\ k.phase \in {"apply", "execution"} =>
         k.try = Tried(k.patch.id, None) /\ k.latest.proposal = k.patch.id
    /\ k.phase \in {"verify", "verification"} =>
         /\ k.try = Tried(k.try.proposal, n) /\ k.latest.proposal = k.try.proposal
         /\ k.latest.execution = n /\ k.target = <<c, n>>
         /\ Executes(rows[n], k.try.proposal, k.place)

(* What an attempt that succeeded has to show.                             *)
Shows(c, try, place, rows, checks) ==
    /\ try.proposal # None /\ try.execution \in Numbers /\ try.verification \in Numbers
    /\ Executes(rows[try.execution], try.proposal, place)
    /\ Verifies(checks[try.verification], c, try.execution)
Showing(c, k, rows, checks) ==
    /\ Shows(c, k.try, k.place, rows, checks)
    /\ k.try.proposal = k.latest.proposal /\ k.try.execution = k.latest.execution
    /\ k.try.verification = k.latest.verification

(* The row and the attempts of a loop that is over.                        *)
Settled(c, k, row, tries, rows, checks) ==
    /\ k.phase \in {"use", "done", "gone"}
    /\ Len(tries) <= MaxAttempts /\ AllFailed(tries, Len(tries) - 1)
    /\ row.status = "RUNNING" => k.phase = "gone"
    /\ row.status = "FAILED" =>
         Len(tries) = MaxAttempts /\ tries[Len(tries)].status = "FAILED"
    /\ row.status = "SUCCEEDED" =>
         /\ tries # <<>>
         /\ tries[Len(tries)] = [status |-> "SUCCEEDED", proposal |-> row.proposal,
               execution |-> row.execution, verification |-> row.verification]
         /\ Shows(c, tries[Len(tries)], k.place, rows, checks)

LoopInv(c, k, row, tries, rows, checks, rs) ==
    /\ k.phase \in {"prepare", "start"} => k.number = 1 /\ k.try = NoTry
    /\ k.kind = "autofix" /\ k.phase \in InLoop =>
         row # None /\ row.status = "RUNNING" /\ Going(c, k, tries, rows)
    /\ k.phase \in {"attempt", "save"} /\ k.try.status = "SUCCEEDED" =>
         Showing(c, k, rows, checks)
    /\ row = None => tries = <<>>
    /\ row # None => k.kind = "autofix" /\ FoundIn(k.run, rs)
    /\ row # None => k.phase \in InLoop \/ Settled(c, k, row, tries, rows, checks)

Loop(c) ==
    LoopInv(c, calls[c], autofixes[c], attempts[c], executions[c], verifications[c], runs)
AttemptInv == \A c \in Calls : Loop(c)

LEMMA LoopOf ==
    ASSUME TypeInv, NEW c \in Calls, NEW s, Becomes(c, s), runs' = runs,
           LoopInv(c, s, autofixes'[c], attempts'[c], executions'[c], verifications'[c], runs)
    PROVE  Loop(c)'
  <1>1. calls'[c] = s
    BY MovesIs
  <1> QED
    BY <1>1 DEF Loop

(* A loop that goes on has not used up its attempts.                       *)
LEMMA GoingCounts ==
    ASSUME NEW c, NEW k \in Call, NEW tries \in Seq(Attempt), NEW rows,
           Going(c, k, tries, rows)
    PROVE  Len(tries) <= MaxAttempts /\ AllFailed(tries, Len(tries) - 1)
  <1>1. k.number \in 1..MaxAttempts /\ MaxAttempts \in Nat /\ Len(tries) \in Nat
    BY Numbered DEF Call, Numbers
  <1>2. /\ Len(tries) = k.number \/ Len(tries) = k.number - 1
        /\ AllFailed(tries, k.number - 1)
    BY DEF Going
  <1>3. Len(tries) <= MaxAttempts
    BY <1>1, <1>2
  <1>4. \A i \in 1..(Len(tries) - 1) : i \in 1..(k.number - 1)
    BY <1>1, <1>2
  <1> QED
    BY <1>2, <1>3, <1>4 DEF AllFailed

(* A call of another kind has neither row nor attempts.                    *)
LEMMA LoopOfOthers ==
    ASSUME NEW c, NEW k, NEW s, NEW row, NEW tries, NEW rows, NEW checks, NEW rs,
           NEW newRows, NEW newChecks,
           LoopInv(c, k, row, tries, rows, checks, rs), k.kind # "autofix",
           s.kind = k.kind, s.phase \notin {"attempt", "save", "prepare", "start"}
    PROVE  LoopInv(c, s, row, tries, newRows, newChecks, rs)
  BY DEF LoopInv

(* A loop that dies, or is over and goes on from "use".                    *)
LEMMA LoopEnds ==
    ASSUME NEW c, NEW k \in Call, NEW s, NEW row, NEW tries \in Seq(Attempt), NEW rows,
           NEW checks, NEW rs,
           LoopInv(c, k, row, tries, rows, checks, rs),
           s.phase \in {"use", "done", "gone"},
           k.phase = "use" \/ s.phase = "gone" \/ row = None \/ k.kind # "autofix",
           s.kind = k.kind, s.place = k.place, s.run = k.run
    PROVE  LoopInv(c, s, row, tries, rows, checks, rs)
  <1>1. s.phase \notin InLoop /\ s.phase \notin {"attempt", "save"}
    BY DEF InLoop
  <1>2. ASSUME row # None PROVE Settled(c, s, row, tries, rows, checks)
    <2>1. k.kind = "autofix" /\ (k.phase \in InLoop \/ Settled(c, k, row, tries, rows, checks))
      BY <1>2 DEF LoopInv
    <2>2. CASE k.phase \in InLoop
      <3>1. row.status = "RUNNING" /\ Going(c, k, tries, rows)
        BY <2>1, <2>2 DEF LoopInv
      <3>2. Len(tries) <= MaxAttempts /\ AllFailed(tries, Len(tries) - 1)
        BY <3>1, GoingCounts
      <3>3. s.phase = "gone"
        BY <1>2, <2>1, <2>2 DEF InLoop
      <3> QED
        BY <3>1, <3>2, <3>3 DEF Settled
    <2>3. CASE Settled(c, k, row, tries, rows, checks) /\ k.phase \notin InLoop
      <3>1. row.status = "RUNNING" => s.phase = "gone"
        BY <1>2, <2>1, <2>3 DEF Settled
      <3> QED
        BY <2>3, <3>1 DEF Settled
    <2> QED
      BY <2>1, <2>2, <2>3
  <1> QED
    BY <1>1, <1>2 DEF LoopInv

(* A step that does not touch the tables of the loop, by one who is not in *)
(* it yet.                                                                 *)
LEMMA LoopOfBegin ==
    ASSUME TypeInv, NEW c \in Calls, Loop(c), Begin(c)
    PROVE  Loop(c)'
  <1>1. At(c, "idle") /\ UNCHANGED <<trees, tables, removed>>
    BY BeginIs
  <1>2. PICK s \in Call : /\ Becomes(c, s) /\ s.phase \in {"prepare", "start", "apply", "verify"}
                          /\ s.phase \in {"prepare", "apply"} /\ s.kind # "patch"
                               => s.phase = "prepare" /\ s.kind = "autofix"
                          /\ s.kind = "verify" <=> s.phase = "verify"
                          /\ s.number = 1 /\ s.try = NoTry
    BY BeginIs, Zenon
  <1>3. s.phase \in InLoop => s.kind # "autofix"
    BY <1>2 DEF InLoop
  <1>4. /\ autofixes'[c] = autofixes[c] /\ attempts'[c] = attempts[c]
        /\ executions'[c] = executions[c] /\ verifications'[c] = verifications[c]
        /\ runs' = runs
    BY <1>1 DEF tables
  <1>5. calls[c].phase = "idle"
    BY <1>1 DEF At
  <1>6. autofixes[c] = None
    BY <1>5 DEF Loop, LoopInv, Settled, InLoop
  <1>7. attempts[c] = <<>>
    BY <1>6 DEF Loop, LoopInv
  <1>8. LoopInv(c, s, None, <<>>, executions[c], verifications[c], runs)
    BY <1>2, <1>3 DEF LoopInv
  <1> QED
    BY <1>2, <1>4, <1>6, <1>7, <1>8, LoopOf

LEMMA LoopOfDie ==
    ASSUME TypeInv, NEW c \in Calls, Loop(c), ~At(c, "idle"),
           Becomes(c, Dead(c)), runs' = runs, autofixes' = autofixes,
           attempts' = attempts, executions' = executions, verifications' = verifications
    PROVE  Loop(c)'
  <1>1. calls[c] \in Call /\ attempts[c] \in Seq(Attempt)
    BY TablesTyped DEF TablesOK
  <1>2. /\ Dead(c).phase = "gone" /\ Dead(c).kind = calls[c].kind
        /\ Dead(c).place = calls[c].place /\ Dead(c).run = calls[c].run
    BY <1>1, DeadIs
  <1>3. LoopInv(c, Dead(c), autofixes[c], attempts[c], executions[c], verifications[c], runs)
    BY <1>1, <1>2, LoopEnds DEF Loop
  <1> QED
    BY <1>3, LoopOf

LEMMA LoopOfPrepare ==
    ASSUME TypeInv, NEW c \in Calls, Loop(c), Prepare(c)
    PROVE  Loop(c)'
  <1>1. /\ runs' = runs /\ autofixes' = autofixes /\ attempts' = attempts
        /\ executions' = executions /\ verifications' = verifications
        /\ calls[c].phase = "prepare"
    BY DEF Prepare, At
  <1>2. PICK s \in Call :
             /\ Moves(c, s)
             /\ (s.phase = AfterPrepare(c) /\ SameHand(s, calls[c]) /\ SameTry(s, calls[c]))
                \/ s = Dead(c)
    BY PrepareIs
  <1>3. ASSUME s.phase = AfterPrepare(c), SameHand(s, calls[c]), SameTry(s, calls[c])
        PROVE  Loop(c)'
    <2>1. s.phase \in InLoop => s.kind # "autofix"
      BY <1>2, <1>3 DEF AfterPrepare, InLoop, Moves
    <2>2. s.phase \notin {"attempt", "save"}
      BY <1>3 DEF AfterPrepare
    <2>3. autofixes[c] = None /\ attempts[c] = <<>>
      BY <1>1 DEF Loop, LoopInv, Settled, InLoop
    <2>4. s.number = 1 /\ s.try = NoTry
      BY <1>1, <1>3 DEF Loop, LoopInv, SameHand, SameTry
    <2>5. LoopInv(c, s, None, <<>>, executions[c], verifications[c], runs)
      BY <2>1, <2>2, <2>4 DEF LoopInv
    <2> QED
      BY <1>1, <1>2, <2>3, <2>5, LoopOf DEF Moves
  <1>4. ASSUME s = Dead(c) PROVE Loop(c)'
    BY <1>1, <1>2, <1>4, LoopOfDie DEF Moves, At
  <1> QED
    BY <1>2, <1>3, <1>4

LEMMA LoopOfStart ==
    ASSUME TypeInv, NEW c \in Calls, Loop(c), Start(c)
    PROVE  Loop(c)'
  <1>1. /\ runs' = runs /\ attempts' = attempts
        /\ executions' = executions /\ verifications' = verifications
        /\ calls[c].phase = "start"
    BY DEF Start, At
  <1>2. PICK s \in Call :
             /\ Moves(c, s) /\ calls[c].kind = "autofix"
             /\ \/ /\ s.phase = "generate" /\ SameHand(s, calls[c]) /\ SameTry(s, calls[c])
                   /\ FoundIn(calls[c].run, runs)
                   /\ autofixes' = [autofixes EXCEPT ![c] = AutofixRow("RUNNING", NoIds)]
                \/ s = Dead(c) /\ autofixes' = autofixes
    BY StartIs
  <1>3. ASSUME s.phase = "generate", SameHand(s, calls[c]), SameTry(s, calls[c]),
               FoundIn(calls[c].run, runs),
               autofixes' = [autofixes EXCEPT ![c] = AutofixRow("RUNNING", NoIds)]
        PROVE  Loop(c)'
    <2>1. autofixes'[c] = AutofixRow("RUNNING", NoIds)
      BY <1>3, TablesTyped DEF TablesOK
    <2>2. /\ AutofixRow("RUNNING", NoIds) # None
          /\ AutofixRow("RUNNING", NoIds).status = "RUNNING"
      BY RowTyped, NoTryTyped, NoneAssumption DEF AutofixRow
    <2>3. autofixes[c] = None /\ attempts[c] = <<>>
      BY <1>1 DEF Loop, LoopInv, Settled, InLoop
    <2>4. s.number = 1 /\ s.try = NoTry
      BY <1>1, <1>3 DEF Loop, LoopInv, SameHand, SameTry
    <2>5. Going(c, s, <<>>, executions[c])
      BY <1>3, <2>4 DEF Going, AllFailed
    <2>6. LoopInv(c, s, autofixes'[c], <<>>, executions[c], verifications[c], runs)
      BY <1>2, <1>3, <2>1, <2>2, <2>5 DEF LoopInv, InLoop, Moves
    <2> QED
      BY <1>1, <1>2, <2>3, <2>6, LoopOf DEF Moves
  <1>4. ASSUME s = Dead(c), autofixes' = autofixes PROVE Loop(c)'
    BY <1>1, <1>2, <1>4, LoopOfDie DEF Moves, At
  <1> QED
    BY <1>2, <1>3, <1>4

(* The rows of a loop that goes on.                                        *)
LEMMA LoopGoes ==
    ASSUME TypeInv, NEW c \in Calls, Loop(c), calls[c].kind = "autofix",
           calls[c].phase \in InLoop
    PROVE  /\ autofixes[c] # None /\ autofixes[c].status = "RUNNING"
           /\ Going(c, calls[c], attempts[c], executions[c])
           /\ FoundIn(calls[c].run, runs)
           /\ calls[c] \in Call /\ attempts[c] \in Seq(Attempt)
           /\ calls[c].number \in Numbers /\ calls[c].number \in Nat
           /\ calls[c].try \in Attempt /\ calls[c].latest \in Latest
  <1>1. calls[c] \in Call /\ attempts[c] \in Seq(Attempt)
    BY TablesTyped DEF TablesOK
  <1>2. /\ calls[c].number \in Numbers /\ calls[c].try \in Attempt
        /\ calls[c].latest \in Latest
    BY <1>1 DEF Call
  <1> QED
    BY <1>1, <1>2, Numbered DEF Loop, LoopInv

(* What is left to show of a step after which the loop goes on.            *)
LEMMA LoopGoesOn ==
    ASSUME TypeInv, NEW c \in Calls, Loop(c), calls[c].kind = "autofix",
           calls[c].phase \in InLoop, NEW s, Moves(c, s), s.phase \in InLoop,
           runs' = runs, autofixes' = autofixes,
           Going(c, s, attempts'[c], executions'[c]),
           s.phase \in {"attempt", "save"} /\ s.try.status = "SUCCEEDED" =>
             Showing(c, s, executions'[c], verifications'[c])
    PROVE  Loop(c)'
  <1>1. /\ autofixes[c] # None /\ autofixes[c].status = "RUNNING"
        /\ FoundIn(calls[c].run, runs)
    BY LoopGoes
  <1>2. s.kind = "autofix" /\ s.run = calls[c].run /\ s.phase \notin {"prepare", "start"}
    BY DEF Moves, InLoop
  <1>3. LoopInv(c, s, autofixes'[c], attempts'[c], executions'[c], verifications'[c], runs)
    BY <1>1, <1>2 DEF LoopInv
  <1> QED
    BY <1>3, LoopOf DEF Moves

LEMMA LoopOfGenerate ==
    ASSUME TypeInv, NEW c \in Calls, Loop(c), Generate(c)
    PROVE  Loop(c)'
  <1> DEFINE k == calls[c]
  <1>1. /\ runs' = runs /\ autofixes' = autofixes /\ attempts' = attempts
        /\ executions' = executions /\ verifications' = verifications
        /\ k.phase = "generate" /\ k.phase \in InLoop
    BY DEF Generate, At, InLoop
  <1>2. PICK s \in Call :
             /\ Moves(c, s) /\ calls[c].kind = "autofix" /\ FoundIn(calls[c].run, runs)
             /\ s.number = calls[c].number /\ s.changed = calls[c].changed
             /\ s.target = calls[c].target
             /\ \/ \E patch \in PatchesOf[c] :
                     /\ MayGenerate(c, patch) /\ s.phase = "apply" /\ s.patch = patch
                     /\ s.status = calls[c].status
                     /\ s.try = [calls[c].try EXCEPT !.proposal = patch.id]
                     /\ s.latest = [calls[c].latest EXCEPT !.proposal = patch.id]
                     /\ proposals' = [proposals EXCEPT ![patch.id] =
                                        [run |-> calls[c].run, ops |-> patch.ops]]
                \/ /\ s.phase = "attempt" /\ s.try = [calls[c].try EXCEPT !.status = "FAILED"]
                   /\ s.latest = calls[c].latest /\ s.patch = calls[c].patch
                   /\ s.status = calls[c].status /\ proposals' = proposals
    BY GenerateIs
  <1>3. /\ Going(c, k, attempts[c], executions[c]) /\ k.number \in Nat
        /\ k.try \in Attempt /\ k.latest \in Latest
    BY <1>1, <1>2, LoopGoes
  <1>4. /\ Len(attempts[c]) = k.number - 1 /\ AllFailed(attempts[c], k.number - 1)
        /\ k.try = NoTry
    BY <1>1, <1>3 DEF Going
  <1>5. /\ Going(c, s, attempts[c], executions[c]) /\ s.phase \in InLoop
        /\ ~(s.phase \in {"attempt", "save"} /\ s.try.status = "SUCCEEDED")
    <2>1. ASSUME s.phase = "apply", NEW patch \in PatchesOf[c], s.patch = patch,
                 s.try = [k.try EXCEPT !.proposal = patch.id],
                 s.latest = [k.latest EXCEPT !.proposal = patch.id]
          PROVE  s.try = Tried(s.patch.id, None) /\ s.latest.proposal = s.patch.id
      BY <1>3, <1>4, <2>1 DEF NoTry, Tried, Latest
    <2>2. ASSUME s.phase = "attempt", s.try = [k.try EXCEPT !.status = "FAILED"]
          PROVE  s.try.status = "FAILED"
      BY <1>4, <2>2 DEF NoTry
    <2>3. s.phase \in {"apply", "attempt"}
      BY <1>2
    <2>4. s.phase = "apply" => s.try = Tried(s.patch.id, None) /\ s.latest.proposal = s.patch.id
      BY <1>2, <2>1
    <2>5. s.phase = "attempt" => s.try.status = "FAILED"
      BY <1>2, <2>2
    <2>6. s.number = k.number
      BY <1>2
    <2> HIDE DEF k
    <2> QED
      BY <1>4, <2>3, <2>4, <2>5, <2>6 DEF Going, InLoop
  <1> QED
    BY <1>1, <1>2, <1>5, LoopGoesOn

LEMMA LoopOfApply ==
    ASSUME TypeInv, NEW c \in Calls, Loop(c), Apply(c)
    PROVE  Loop(c)'
  <1> DEFINE k == calls[c]
  <1>1. /\ runs' = runs /\ autofixes' = autofixes /\ attempts' = attempts
        /\ executions' = executions /\ verifications' = verifications
        /\ k.phase = "apply" /\ k.phase \in InLoop
    BY DEF Apply, At, InLoop, tables
  <1>2. PICK s \in Call :
             /\ Moves(c, s) /\ s.number = k.number /\ s.patch = k.patch /\ SameTry(s, k)
             /\ s.phase \in {"apply", "execution"}
    BY ApplyIs
  <1>3. CASE k.kind = "autofix"
    <2>1. Going(c, k, attempts[c], executions[c])
      BY <1>1, <1>3, LoopGoes
    <2>2. Going(c, s, attempts[c], executions[c]) /\ s.phase \in InLoop
          /\ s.phase \notin {"attempt", "save"}
      BY <1>1, <1>2, <2>1 DEF Going, InLoop, SameTry
    <2> QED
      BY <1>1, <1>2, <1>3, <2>2, LoopGoesOn
  <1>4. CASE k.kind # "autofix"
    <2>1. LoopInv(c, s, autofixes[c], attempts[c], executions[c], verifications[c], runs)
      BY <1>2, <1>4, LoopOfOthers DEF Loop, Moves
    <2> QED
      BY <1>1, <1>2, <2>1, LoopOf DEF Moves
  <1> QED
    BY <1>3, <1>4

LEMMA LoopOfVerify ==
    ASSUME TypeInv, NEW c \in Calls, Loop(c), Verify(c)
    PROVE  Loop(c)'
  <1> DEFINE k == calls[c]
  <1>1. /\ runs' = runs /\ autofixes' = autofixes /\ attempts' = attempts
        /\ executions' = executions /\ verifications' = verifications
        /\ k.phase = "verify" /\ k.phase \in InLoop
    BY DEF Verify, At, InLoop, tables
  <1>2. PICK s \in Call :
             /\ Moves(c, s) /\ s.number = k.number /\ s.target = k.target /\ SameTry(s, k)
             /\ s.phase \in {"verify", "verification"}
    BY VerifyIs
  <1>3. CASE k.kind = "autofix"
    <2>1. Going(c, k, attempts[c], executions[c])
      BY <1>1, <1>3, LoopGoes
    <2>2. Going(c, s, attempts[c], executions[c]) /\ s.phase \in InLoop
          /\ s.phase \notin {"attempt", "save"}
      BY <1>1, <1>2, <2>1 DEF Going, InLoop, SameTry, Moves
    <2> QED
      BY <1>1, <1>2, <1>3, <2>2, LoopGoesOn
  <1>4. CASE k.kind # "autofix"
    <2>1. LoopInv(c, s, autofixes[c], attempts[c], executions[c], verifications[c], runs)
      BY <1>2, <1>4, LoopOfOthers DEF Loop, Moves
    <2> QED
      BY <1>1, <1>2, <2>1, LoopOf DEF Moves
  <1> QED
    BY <1>3, <1>4

LEMMA TriedExtends ==
    ASSUME NEW id \in OrNone(Ids), NEW n \in Numbers
    PROVE  [Tried(id, None) EXCEPT !.execution = n] = Tried(id, n)
  BY DEF Tried

LEMMA LoopOfSaveExecution ==
    ASSUME TypeInv, NEW c \in Calls, Loop(c), SaveExecution(c)
    PROVE  Loop(c)'
  <1> DEFINE k == calls[c]
             Saved == executions' = [executions EXCEPT ![c][k.number] = NewExecution(c)]
  <1>1. /\ runs' = runs /\ autofixes' = autofixes /\ attempts' = attempts
        /\ verifications' = verifications
        /\ k.phase = "execution" /\ k.phase \in InLoop /\ ~At(c, "idle")
    BY DEF SaveExecution, At, InLoop
  <1>2. PICK s \in Call :
             /\ Moves(c, s) /\ k.patch \in Patches
             /\ \/ Saved /\ k.kind = "patch" /\ s.phase \in {"use", "done"}
                \/ /\ Saved /\ k.kind = "autofix" /\ s.number = k.number
                   /\ s.target = <<c, k.number>>
                   /\ s.phase = IF k.status = "SUCCEEDED" THEN "verify" ELSE "attempt"
                   /\ s.try = [k.try EXCEPT !.execution = k.number]
                   /\ s.latest = [k.latest EXCEPT !.execution = k.number]
                \/ /\ executions' = executions
                   /\ s.phase = "execution" /\ SameTry(s, k)
                   /\ s.number = k.number /\ s.patch = k.patch
                \/ executions' = executions /\ k.kind = "patch" /\ s = Dead(c)
                \/ /\ executions' = executions /\ k.kind = "autofix"
                   /\ s.phase = "attempt" /\ SameTry(s, k) /\ s.number = k.number
    <2>1. PICK s \in Call :
             /\ Moves(c, s) /\ calls[c].phase = "execution" /\ calls[c].patch \in Patches
             /\ \/ /\ executions' = [executions EXCEPT ![c][calls[c].number] = NewExecution(c)]
                   /\ calls[c].kind = "patch" /\ Finishes(c, s)
                \/ /\ executions' = [executions EXCEPT ![c][calls[c].number] = NewExecution(c)]
                   /\ calls[c].kind = "autofix" /\ s.number = calls[c].number
                   /\ s.patch = calls[c].patch
                   /\ s.status = calls[c].status /\ s.changed = {}
                   /\ s.target = <<c, calls[c].number>>
                   /\ s.phase = IF calls[c].status = "SUCCEEDED" THEN "verify" ELSE "attempt"
                   /\ s.try = [calls[c].try EXCEPT !.execution = calls[c].number]
                   /\ s.latest = [calls[c].latest EXCEPT !.execution = calls[c].number]
                \/ /\ executions' = executions /\ calls[c].status = "SUCCEEDED"
                   /\ s.phase = "execution" /\ s.status = "FAILED" /\ SameTry(s, calls[c])
                   /\ s.number = calls[c].number /\ s.patch = calls[c].patch
                   /\ s.target = calls[c].target /\ s.changed = calls[c].changed
                \/ /\ executions' = executions /\ calls[c].status = "FAILED"
                   /\ calls[c].kind = "patch" /\ s = Dead(c)
                \/ /\ executions' = executions /\ calls[c].status = "FAILED"
                   /\ calls[c].kind = "autofix"
                   /\ s.phase = "attempt" /\ SameTry(s, calls[c]) /\ s.status = calls[c].status
                   /\ s.number = calls[c].number /\ s.patch = calls[c].patch
                   /\ s.target = calls[c].target /\ s.changed = {}
      BY SaveExecutionIs
    <2> QED
      BY <2>1 DEF Finishes
  <1>3. /\ k \in Call /\ k.patch.id \in Ids /\ attempts[c] \in Seq(Attempt)
        /\ executions \in [Calls -> [Numbers -> OrNone(Execution)]] /\ k.number \in Numbers
        /\ k.latest \in Latest
    BY <1>2, TablesTyped, PatchTyped DEF TablesOK, Call
  <1>4. ASSUME k.kind = "patch", s.phase \in {"use", "done", "gone"}
        PROVE  Loop(c)'
    <2>1. LoopInv(c, s, autofixes[c], attempts[c], executions'[c], verifications[c], runs)
      BY <1>2, <1>4, LoopOfOthers DEF Loop, Moves
    <2> QED
      BY <1>1, <1>2, <2>1, LoopOf DEF Moves
  <1>5. ASSUME s = Dead(c) PROVE s.phase = "gone"
    BY <1>3, <1>5, DeadIs
  <1>6. ASSUME k.kind # "autofix", s.phase = "execution" PROVE Loop(c)'
    <2>1. LoopInv(c, s, autofixes[c], attempts[c], executions'[c], verifications[c], runs)
      BY <1>2, <1>6, LoopOfOthers DEF Loop, Moves
    <2> QED
      BY <1>1, <1>2, <2>1, LoopOf DEF Moves
  <1>7. ASSUME k.kind = "autofix"
        PROVE  /\ Going(c, k, attempts[c], executions[c]) /\ k.number \in Nat
               /\ Len(attempts[c]) = k.number - 1 /\ AllFailed(attempts[c], k.number - 1)
               /\ k.try = Tried(k.patch.id, None) /\ k.latest.proposal = k.patch.id
               /\ k.try.status = "FAILED"
    <2>1. Going(c, k, attempts[c], executions[c]) /\ k.number \in Nat
      BY <1>1, <1>7, LoopGoes
    <2> HIDE DEF k
    <2> QED
      BY <1>1, <2>1 DEF Going, Tried
  <1>8. ASSUME k.kind = "autofix", s.phase = "execution", SameTry(s, k), s.number = k.number,
               s.patch = k.patch, executions' = executions
        PROVE  Loop(c)'
    <2>1. Going(c, s, attempts[c], executions[c]) /\ s.phase \in InLoop
      BY <1>7, <1>8 DEF Going, InLoop, SameTry
    <2> QED
      BY <1>1, <1>2, <1>8, <2>1, LoopGoesOn
  <1>9. ASSUME k.kind = "autofix", s.phase = "attempt", SameTry(s, k), s.number = k.number
        PROVE  Loop(c)'
    <2>1. Going(c, s, attempts[c], executions'[c]) /\ s.phase \in InLoop
          /\ s.try.status = "FAILED"
      BY <1>7, <1>9 DEF Going, InLoop, SameTry
    <2> QED
      BY <1>1, <1>2, <1>9, <2>1, LoopGoesOn
  <1>10. ASSUME Saved, k.kind = "autofix", s.number = k.number, s.target = <<c, k.number>>,
                s.phase = IF k.status = "SUCCEEDED" THEN "verify" ELSE "attempt",
                s.try = [k.try EXCEPT !.execution = k.number],
                s.latest = [k.latest EXCEPT !.execution = k.number]
         PROVE  Loop(c)'
    <2> DEFINE n == k.number
               id == k.patch.id
    <2>1. executions'[c][n] = NewExecution(c)
      BY <1>3, <1>10
    <2>2. s.try = Tried(id, n) /\ s.try.proposal = id /\ s.try.status = "FAILED"
      <3>1. k.try = Tried(id, None)
        BY <1>7, <1>10
      <3>2. s.try = [Tried(id, None) EXCEPT !.execution = n]
        BY <1>10, <3>1
      <3>3. id \in OrNone(Ids)
        BY <1>3 DEF OrNone
      <3> HIDE DEF id, n
      <3> QED
        BY <1>3, <3>2, <3>3, TriedExtends DEF Tried, n
    <2>3. s.latest.proposal = id /\ s.latest.execution = n
      <3>1. k.latest.proposal = id /\ k.latest \in Latest
        BY <1>3, <1>7, <1>10
      <3> QED
        BY <1>10, <3>1 DEF Latest
    <2>4. NewExecution(c) \in Execution
      BY SaveExecutionTyped
    <2>5. /\ NewExecution(c).status = k.status /\ NewExecution(c).proposal = id
          /\ NewExecution(c).place = k.place /\ NewExecution(c) # None
      BY <2>4, NoneAssumption DEF NewExecution
    <2>6. k.status = "SUCCEEDED" => Executes(executions'[c][n], id, s.place)
      BY <1>2, <2>1, <2>5 DEF Executes, Moves
    <2>7. Len(attempts[c]) = n - 1 /\ AllFailed(attempts[c], n - 1)
      BY <1>7, <1>10
    <2>8. /\ Going(c, s, attempts[c], executions'[c]) /\ s.phase \in InLoop
          /\ s.try.status = "FAILED"
      <3>1. s.phase \in {"verify", "attempt"} /\ (s.phase = "verify" => k.status = "SUCCEEDED")
        BY <1>10
      <3>2. s.number = n /\ s.target = <<c, n>>
        BY <1>10
      <3> HIDE DEF n, id, k
      <3> QED
        BY <2>2, <2>3, <2>6, <2>7, <3>1, <3>2 DEF Going, InLoop
    <2> QED
      BY <1>1, <1>2, <1>10, <2>8, LoopGoesOn
  <1> QED
    BY <1>2, <1>4, <1>5, <1>6, <1>8, <1>9, <1>10

LEMMA LoopOfSaveVerification ==
    ASSUME TypeInv, NEW c \in Calls, Loop(c), SaveVerification(c)
    PROVE  Loop(c)'
  <1> DEFINE k == calls[c]
             Saved == verifications' =
                        [verifications EXCEPT ![c][k.number] = NewVerification(c)]
  <1>1. /\ runs' = runs /\ autofixes' = autofixes /\ attempts' = attempts
        /\ executions' = executions
        /\ k.phase = "verification" /\ k.phase \in InLoop
    BY DEF SaveVerification, At, InLoop
  <1>2. PICK s \in Call :
             /\ Moves(c, s) /\ k.kind # "patch"
             /\ \/ Saved /\ k.kind = "verify" /\ s.phase \in {"use", "done"}
                \/ /\ Saved /\ k.kind = "autofix" /\ s.phase = "attempt" /\ s.number = k.number
                   /\ s.try = [k.try EXCEPT !.status = k.status, !.verification = k.number]
                   /\ s.latest = [k.latest EXCEPT !.verification = k.number]
                \/ k.kind = "verify" /\ s = Dead(c)
                \/ /\ verifications' = verifications /\ k.kind = "autofix"
                   /\ s.phase = "attempt" /\ SameTry(s, k) /\ s.number = k.number
    <2>1. PICK s \in Call :
             /\ Moves(c, s) /\ calls[c].phase = "verification" /\ calls[c].kind # "patch"
             /\ \/ /\ verifications' =
                        [verifications EXCEPT ![c][calls[c].number] = NewVerification(c)]
                   /\ calls[c].kind = "verify" /\ Finishes(c, s)
                \/ /\ verifications' =
                        [verifications EXCEPT ![c][calls[c].number] = NewVerification(c)]
                   /\ calls[c].kind = "autofix" /\ s.phase = "attempt"
                   /\ s.number = calls[c].number /\ s.patch = calls[c].patch
                   /\ s.target = calls[c].target
                   /\ s.changed = calls[c].changed /\ s.status = calls[c].status
                   /\ s.try = [calls[c].try EXCEPT !.status = calls[c].status,
                                                   !.verification = calls[c].number]
                   /\ s.latest = [calls[c].latest EXCEPT !.verification = calls[c].number]
                \/ verifications' = verifications /\ calls[c].kind = "verify" /\ s = Dead(c)
                \/ /\ verifications' = verifications /\ calls[c].kind = "autofix"
                   /\ s.phase = "attempt" /\ SameTry(s, calls[c])
                   /\ s.changed = calls[c].changed
                   /\ s.number = calls[c].number /\ s.patch = calls[c].patch
                   /\ s.target = calls[c].target /\ s.status = calls[c].status
      BY SaveVerificationIs
    <2> QED
      BY <2>1 DEF Finishes
  <1>3. /\ k \in Call /\ attempts[c] \in Seq(Attempt) /\ k.number \in Numbers
        /\ verifications \in [Calls -> [Numbers -> OrNone(Verification)]]
        /\ executions[c] \in [Numbers -> OrNone(Execution)] /\ k.latest \in Latest
        /\ k.status \in Outcome /\ k.try \in Attempt
    BY TablesTyped DEF TablesOK, Call
  <1>4. ASSUME k.kind = "verify", s.phase \in {"use", "done", "gone"}
        PROVE  Loop(c)'
    <2>1. LoopInv(c, s, autofixes[c], attempts[c], executions[c], verifications'[c], runs)
      BY <1>2, <1>4, LoopOfOthers DEF Loop, Moves
    <2> QED
      BY <1>1, <1>2, <2>1, LoopOf DEF Moves
  <1>5. ASSUME s = Dead(c) PROVE s.phase = "gone"
    BY <1>3, <1>5, DeadIs
  <1>6. ASSUME k.kind = "autofix"
        PROVE  /\ k.number \in Nat
               /\ Len(attempts[c]) = k.number - 1 /\ AllFailed(attempts[c], k.number - 1)
               /\ k.try = Tried(k.try.proposal, k.number)
               /\ k.latest.proposal = k.try.proposal /\ k.latest.execution = k.number
               /\ k.target = <<c, k.number>>
               /\ Executes(executions[c][k.number], k.try.proposal, k.place)
               /\ k.try.status = "FAILED"
    <2>1. Going(c, k, attempts[c], executions[c]) /\ k.number \in Nat
      BY <1>1, <1>6, LoopGoes
    <2>2. /\ Len(attempts[c]) = k.number - 1 /\ AllFailed(attempts[c], k.number - 1)
          /\ k.try = Tried(k.try.proposal, k.number)
          /\ k.latest.proposal = k.try.proposal /\ k.latest.execution = k.number
          /\ k.target = <<c, k.number>>
          /\ Executes(executions[c][k.number], k.try.proposal, k.place)
      BY <1>1, <2>1 DEF Going
    <2>3. k.try.status = "FAILED"
      BY <2>2 DEF Tried
    <2> QED
      BY <2>1, <2>2, <2>3
  <1>7. ASSUME k.kind = "autofix", s.phase = "attempt", SameTry(s, k), s.number = k.number
        PROVE  Loop(c)'
    <2>1. Going(c, s, attempts[c], executions[c]) /\ s.phase \in InLoop
          /\ s.try.status = "FAILED"
      BY <1>6, <1>7 DEF Going, InLoop, SameTry
    <2> QED
      BY <1>1, <1>2, <1>7, <2>1, LoopGoesOn
  <1>8. ASSUME Saved, k.kind = "autofix", s.phase = "attempt", s.number = k.number,
               s.try = [k.try EXCEPT !.status = k.status, !.verification = k.number],
               s.latest = [k.latest EXCEPT !.verification = k.number]
        PROVE  Loop(c)'
    <2> DEFINE n == k.number
               id == k.try.proposal
    <2>1. verifications'[c][n] = NewVerification(c)
      BY <1>3, <1>8
    <2>2. id \in OrNone(Ids)
      BY <1>3 DEF Attempt
    <2>3. s.try = [status |-> k.status, proposal |-> id, execution |-> n, verification |-> n]
      <3>1. k.try = Tried(id, n)
        BY <1>6, <1>8
      <3>2. s.try = [Tried(id, n) EXCEPT !.status = k.status, !.verification = n]
        BY <1>8, <3>1
      <3> HIDE DEF id, n
      <3> HIDE DEF k
      <3>3. [Tried(id, n) EXCEPT !.status = k.status] =
              [status |-> k.status, proposal |-> id, execution |-> n, verification |-> None]
        BY DEF Tried
      <3>4. [[status |-> k.status, proposal |-> id, execution |-> n, verification |-> None]
               EXCEPT !.verification = n] =
              [status |-> k.status, proposal |-> id, execution |-> n, verification |-> n]
        OBVIOUS
      <3> QED
        BY <3>2, <3>3, <3>4
    <2>4. s.latest.proposal = id /\ s.latest.execution = n /\ s.latest.verification = n
      <3>1. k.latest.proposal = id /\ k.latest.execution = n /\ k.latest \in Latest
        BY <1>3, <1>6, <1>8
      <3> QED
        BY <1>8, <3>1 DEF Latest
    <2>5. NewVerification(c) \in Verification
      BY SaveVerificationTyped
    <2>6. /\ NewVerification(c).status = k.status /\ NewVerification(c).execution = <<c, n>>
          /\ NewVerification(c) # None
      BY <1>6, <1>8, <2>5, NoneAssumption DEF NewVerification
    <2>7. k.status = "SUCCEEDED" => Verifies(verifications'[c][n], c, n)
      BY <2>1, <2>6 DEF Verifies
    <2>8. Executes(executions[c][n], id, s.place) /\ id # None
      <3>1. Executes(executions[c][n], id, k.place) /\ s.place = k.place
        BY <1>2, <1>6, <1>8 DEF Moves
      <3>2. executions[c][n] \in OrNone(Execution)
        BY <1>3
      <3>3. executions[c][n] \in Execution /\ executions[c][n].proposal = id
        BY <3>1, <3>2 DEF Executes, OrNone
      <3>4. id \in Ids
        BY <3>3 DEF Execution
      <3> QED
        BY <3>1, <3>4, NoneAssumption
    <2>9. s.try.status = "SUCCEEDED" => Showing(c, s, executions[c], verifications'[c])
      <3>1. /\ s.try.status = k.status /\ s.try.proposal = id /\ s.try.execution = n
            /\ s.try.verification = n
        BY <2>3
      <3> HIDE DEF n, id
      <3> QED
        BY <1>3, <2>4, <2>7, <2>8, <3>1 DEF Showing, Shows, n
    <2>10. Going(c, s, attempts[c], executions[c]) /\ s.phase \in InLoop
      BY <1>6, <1>8 DEF Going, InLoop
    <2> QED
      BY <1>1, <1>2, <1>8, <2>9, <2>10, LoopGoesOn
  <1> QED
    BY <1>2, <1>4, <1>5, <1>7, <1>8

LEMMA LoopOfSaveAttempt ==
    ASSUME TypeInv, NEW c \in Calls, Loop(c), SaveAttempt(c)
    PROVE  Loop(c)'
  <1> DEFINE k == calls[c]
  <1>1. /\ runs' = runs /\ autofixes' = autofixes /\ executions' = executions
        /\ verifications' = verifications
        /\ k.phase = "attempt" /\ k.phase \in InLoop
    BY DEF SaveAttempt, At, InLoop
  <1>2. PICK s \in Call :
             /\ Moves(c, s) /\ k.kind = "autofix"
             /\ \/ /\ attempts' = [attempts EXCEPT ![c] = Append(attempts[c], k.try)]
                   /\ s.phase = "save" /\ SameTry(s, k) /\ s.number = k.number
                \/ attempts' = attempts /\ s = Dead(c)
    BY SaveAttemptIs
  <1>3. /\ Going(c, k, attempts[c], executions[c]) /\ attempts[c] \in Seq(Attempt)
        /\ k.number \in Nat /\ k.try \in Attempt
    BY <1>1, <1>2, LoopGoes
  <1>4. ASSUME attempts' = [attempts EXCEPT ![c] = Append(attempts[c], k.try)],
               s.phase = "save", SameTry(s, k), s.number = k.number
        PROVE  Loop(c)'
    <2> DEFINE n == k.number
               old == attempts[c]
               tries == Append(old, k.try)
    <2>1. attempts'[c] = tries
      BY <1>4, TablesTyped DEF TablesOK
    <2>2. Len(old) = n - 1 /\ AllFailed(old, n - 1)
      BY <1>1, <1>3 DEF Going
    <2>3. old \in Seq(Attempt) /\ k.try \in Attempt /\ n \in Nat
      BY <1>3
    <2>4. /\ Len(tries) = n /\ tries[n] = k.try /\ AllFailed(tries, n - 1)
      <3> HIDE DEF old, n, k
      <3> QED
        BY <2>2, <2>3 DEF AllFailed
    <2> HIDE DEF tries
    <2>5. Going(c, s, tries, executions[c]) /\ s.phase \in InLoop
      BY <1>4, <2>4 DEF Going, InLoop, SameTry
    <2>6. s.try.status = "SUCCEEDED" => Showing(c, s, executions[c], verifications[c])
      BY <1>1, <1>2, <1>4 DEF Loop, LoopInv, Showing, SameTry, Moves
    <2> QED
      BY <1>1, <1>2, <1>4, <2>1, <2>5, <2>6, LoopGoesOn
  <1>5. ASSUME attempts' = attempts, s = Dead(c) PROVE Loop(c)'
    BY <1>1, <1>2, <1>5, LoopOfDie DEF Moves, At
  <1> QED
    BY <1>2, <1>4, <1>5

LEMMA LoopOfSaveAutofix ==
    ASSUME TypeInv, NEW c \in Calls, Loop(c), SaveAutofix(c)
    PROVE  Loop(c)'
  <1> DEFINE k == calls[c]
             row == NewAutofix(c)
             tries == attempts[c]
             n == k.number
  <1>1. /\ runs' = runs /\ attempts' = attempts /\ executions' = executions
        /\ verifications' = verifications
        /\ k.phase = "save" /\ k.phase \in InLoop
    BY DEF SaveAutofix, At, InLoop
  <1>2. PICK s \in Call :
             /\ Moves(c, s) /\ k.kind = "autofix"
             /\ \/ /\ autofixes' = [autofixes EXCEPT ![c] = NewAutofix(c)]
                   /\ AutofixStatus(c) = "RUNNING" /\ s.phase = "generate"
                   /\ s.try = NoTry /\ s.number = k.number + 1
                \/ /\ autofixes' = [autofixes EXCEPT ![c] = NewAutofix(c)]
                   /\ AutofixStatus(c) # "RUNNING" /\ s.phase \in {"use", "done"}
                \/ autofixes' = autofixes /\ s = Dead(c)
    BY SaveAutofixIs DEF Finishes
  <1>3. /\ Going(c, k, tries, executions[c]) /\ tries \in Seq(Attempt)
        /\ n \in Nat /\ n \in Numbers /\ k.try \in Attempt /\ k.latest \in Latest
        /\ FoundIn(k.run, runs) /\ k \in Call
    BY <1>1, <1>2, LoopGoes
  <1>4. Len(tries) = n /\ AllFailed(tries, n - 1) /\ tries[n] = k.try /\ n \in 1..MaxAttempts
    BY <1>1, <1>3 DEF Going, Numbers
  <1>5. Len(tries) <= MaxAttempts /\ AllFailed(tries, Len(tries) - 1)
    BY <1>3, GoingCounts
  <1>6. /\ row \in Autofix /\ row # None /\ row.status = AutofixStatus(c)
        /\ row.proposal = k.latest.proposal /\ row.execution = k.latest.execution
        /\ row.verification = k.latest.verification
    <2>1. row = AutofixRow(AutofixStatus(c), k.latest)
      BY DEF NewAutofix
    <2>2. row \in Autofix
      BY <1>3, <2>1, StatusIs, RowTyped
    <2> QED
      BY <2>1, <2>2, NoneAssumption DEF AutofixRow
  <1>7. \A z : autofixes' = [autofixes EXCEPT ![c] = z] => autofixes'[c] = z
    BY TablesTyped DEF TablesOK
  <1>8. ASSUME autofixes' = [autofixes EXCEPT ![c] = NewAutofix(c)],
               AutofixStatus(c) = "RUNNING", s.phase = "generate", s.try = NoTry,
               s.number = n + 1
        PROVE  Loop(c)'
    <2>1. k.try.status = "FAILED"
      BY <1>8, StatusIs
    <2>2. AllFailed(tries, n)
      <3>1. \A i \in 1..n : i = n \/ i \in 1..(n - 1)
        BY <1>3
      <3> QED
        BY <1>4, <2>1, <3>1 DEF AllFailed
    <2>3. (n + 1) - 1 = n
      BY <1>3
    <2>4. Going(c, s, tries, executions[c])
      BY <1>4, <1>8, <2>2, <2>3 DEF Going
    <2>5. s.kind = "autofix" /\ s.run = k.run
      BY <1>2 DEF Moves
    <2> HIDE DEF k, row, tries, n
    <2>6. LoopInv(c, s, row, tries, executions[c], verifications[c], runs)
      BY <1>3, <1>6, <1>8, <2>4, <2>5 DEF LoopInv, InLoop
    <2> QED
      BY <1>1, <1>2, <1>7, <1>8, <2>6, LoopOf DEF Moves, row, tries
  <1>9. ASSUME autofixes' = [autofixes EXCEPT ![c] = NewAutofix(c)],
               AutofixStatus(c) # "RUNNING", s.phase \in {"use", "done"}
        PROVE  Loop(c)'
    <2>1. row.status # "RUNNING"
      BY <1>6, <1>9
    <2>2. row.status = "FAILED" =>
            Len(tries) = MaxAttempts /\ tries[Len(tries)].status = "FAILED"
      BY <1>4, <1>6, StatusIs
    <2>3. ASSUME row.status = "SUCCEEDED"
          PROVE  /\ tries # <<>>
                 /\ tries[Len(tries)] = [status |-> "SUCCEEDED", proposal |-> row.proposal,
                       execution |-> row.execution, verification |-> row.verification]
                 /\ Shows(c, tries[Len(tries)], s.place, executions[c], verifications[c])
      <3>1. k.try.status = "SUCCEEDED"
        BY <1>6, <2>3, StatusIs
      <3>2. Showing(c, k, executions[c], verifications[c])
        BY <1>1, <3>1 DEF Loop, LoopInv
      <3>3. /\ k.try.proposal = row.proposal /\ k.try.execution = row.execution
            /\ k.try.verification = row.verification
            /\ Shows(c, k.try, k.place, executions[c], verifications[c])
        BY <1>6, <3>2 DEF Showing
      <3>4. k.try = [status |-> "SUCCEEDED", proposal |-> row.proposal,
                       execution |-> row.execution, verification |-> row.verification]
        BY <1>3, <3>1, <3>3 DEF Attempt
      <3>5. s.place = k.place /\ tries[Len(tries)] = k.try
        BY <1>2, <1>4 DEF Moves
      <3>6. tries # <<>>
        BY <1>3, <1>4
      <3> QED
        BY <3>3, <3>4, <3>5, <3>6
    <2>4. s.kind = "autofix" /\ s.run = k.run
      BY <1>2 DEF Moves
    <2> HIDE DEF k, row, tries, n
    <2>5. Settled(c, s, row, tries, executions[c], verifications[c])
      BY <1>5, <1>9, <2>1, <2>2, <2>3 DEF Settled
    <2>6. LoopInv(c, s, row, tries, executions[c], verifications[c], runs)
      BY <1>3, <1>6, <1>9, <2>4, <2>5 DEF LoopInv, InLoop
    <2> QED
      BY <1>1, <1>2, <1>7, <1>9, <2>6, LoopOf DEF Moves, row, tries
  <1>10. ASSUME autofixes' = autofixes, s = Dead(c) PROVE Loop(c)'
    BY <1>1, <1>2, <1>10, LoopOfDie DEF Moves, At
  <1> QED
    BY <1>2, <1>8, <1>9, <1>10

LEMMA LoopOfMarkUsed ==
    ASSUME TypeInv, NEW c \in Calls, Loop(c), MarkUsed(c)
    PROVE  Loop(c)'
  <1>1. /\ runs' = runs /\ attempts' = attempts /\ executions' = executions
        /\ verifications' = verifications /\ autofixes' = autofixes
    BY DEF MarkUsed
  <1>2. PICK s \in Call :
             /\ Moves(c, s) /\ calls[c].phase = "use"
             /\ s.phase \in {"use", "done"} \/ s = Dead(c)
    BY MarkUsedIs DEF Finishes
  <1>3. /\ calls[c] \in Call /\ attempts[c] \in Seq(Attempt)
    BY TablesTyped DEF TablesOK
  <1>4. s.phase \in {"use", "done", "gone"}
    BY <1>2, <1>3, DeadIs
  <1>5. LoopInv(c, s, autofixes[c], attempts[c], executions[c], verifications[c], runs)
    BY <1>2, <1>3, <1>4, LoopEnds DEF Loop, Moves
  <1> QED
    BY <1>1, <1>2, <1>5, LoopOf DEF Moves

LEMMA AttemptStep ==
    ASSUME TypeInv, AttemptInv, [Next]_vars
    PROVE  AttemptInv'
  <1> SUFFICES ASSUME NEW c \in Calls PROVE Loop(c)'
    BY DEF AttemptInv
  <1>1. Loop(c)
    BY DEF AttemptInv
  <1>2. ASSUME calls'[c] = calls[c], autofixes'[c] = autofixes[c], attempts'[c] = attempts[c],
               executions'[c] = executions[c], verifications'[c] = verifications[c]
        PROVE  Loop(c)'
    <2> DEFINE k == calls[c]
    <2>1. k.run \in OrNone(Runs)
      BY TablesTyped DEF Call
    <2>2. PICK r \in OrNone(Runs) : r = k.run
      BY <2>1
    <2>3. FoundIn(r, runs) => FoundIn(r, runs')
      <3>1. r # None => r \in Runs
        BY DEF OrNone
      <3> QED
        BY <3>1, RunsKept DEF FoundIn
    <2>4. FoundIn(k.run, runs) => FoundIn(k.run, runs')
      BY <2>2, <2>3
    <2>5. LoopInv(c, k, autofixes[c], attempts[c], executions[c], verifications[c], runs')
      BY <1>1, <2>4 DEF Loop, LoopInv
    <2> QED
      BY <1>2, <2>5 DEF Loop
  <1>3. ASSUME Begin(c) \/ Step(c) \/ Die(c) PROVE Loop(c)'
    <2>1. ASSUME Die(c) PROVE Loop(c)'
      <3>1. /\ runs' = runs /\ attempts' = attempts /\ executions' = executions
            /\ verifications' = verifications /\ autofixes' = autofixes
        BY <2>1 DEF Die, tables
      <3>2. Moves(c, Dead(c)) /\ calls[c].phase \in Begun
        BY <2>1, DieIs
      <3> QED
        BY <1>1, <3>1, <3>2, LoopOfDie DEF Moves, At, Begun
    <2> QED
      BY <1>1, <1>3, <2>1, LoopOfBegin, LoopOfPrepare, LoopOfStart, LoopOfGenerate,
         LoopOfApply, LoopOfSaveExecution, LoopOfVerify, LoopOfSaveVerification,
         LoopOfSaveAttempt, LoopOfSaveAutofix, LoopOfMarkUsed, Zenon DEF Step
  <1> QED
    BY <1>2, <1>3, Unmoved

LEMMA AttemptInit == Init => AttemptInv
  <1> SUFFICES ASSUME Init, NEW c \in Calls PROVE Loop(c)
    BY DEF AttemptInv
  <1>1. /\ calls[c] = IdleCall /\ autofixes[c] = None /\ attempts[c] = <<>>
    BY DEF Init
  <1>2. IdleCall.phase = "idle"
    BY IdleTyped
  <1> HIDE DEF IdleCall
  <1> QED
    BY <1>1, <1>2 DEF Loop, LoopInv, InLoop

LEMMA AttemptsKept == Spec => []AttemptInv
  <1>1. Init => AttemptInv
    BY AttemptInit
  <1>2. TypeInv /\ AttemptInv /\ [Next]_vars => AttemptInv'
    BY AttemptStep
  <1> QED
    BY <1>1, <1>2, TypesKept, PTL DEF Spec

(* The row of a loop and its attempts agree, through any number of         *)
(* attempts, saves that fail and deaths: no more attempts than the bound,  *)
(* all but the last of them failed, the outcome of the last that of the    *)
(* loop, and a success that names an execution of its own proposal in its  *)
(* own place, and the verification of that execution.                      *)
THEOREM AttemptsAgree == Spec => []AttemptsAddUp
  <1>1. TypeInv /\ AttemptInv => AttemptsAddUp
    <2> SUFFICES ASSUME TypeInv, AttemptInv, NEW c \in Calls, autofixes[c] # None
                 PROVE  LET row == autofixes[c]
                            tries == attempts[c]
                            n == row.execution
                        IN
                        /\ Len(tries) <= MaxAttempts
                        /\ \A i \in DOMAIN tries : i < Len(tries) => tries[i].status = "FAILED"
                        /\ row.status = "FAILED" =>
                             Len(tries) = MaxAttempts /\ Last(tries).status = "FAILED"
                        /\ row.status = "RUNNING" => ~At(c, "use") /\ ~At(c, "done")
                        /\ row.status = "SUCCEEDED" =>
                             /\ Last(tries) = [status |-> "SUCCEEDED",
                                   proposal |-> row.proposal, execution |-> n,
                                   verification |-> row.verification]
                             /\ executions[c][n].status = "SUCCEEDED"
                             /\ executions[c][n].proposal = row.proposal
                             /\ executions[c][n].place = calls[c].place
                             /\ verifications[c][row.verification].status = "SUCCEEDED"
                             /\ verifications[c][row.verification].execution = <<c, n>>
      BY Zenon DEF AttemptsAddUp
    <2> DEFINE k == calls[c]
               row == autofixes[c]
               tries == attempts[c]
               rows == executions[c]
               checks == verifications[c]
    <2>1. /\ LoopInv(c, k, row, tries, rows, checks, runs)
          /\ k \in Call /\ tries \in Seq(Attempt) /\ row \in Autofix
      BY TablesTyped DEF AttemptInv, Loop, TablesOK, OrNone
    <2>2. Last(tries) = tries[Len(tries)]
      BY DEF Last
    <2>3. ASSUME AllFailed(tries, Len(tries) - 1)
          PROVE  \A i \in DOMAIN tries : i < Len(tries) => tries[i].status = "FAILED"
      <3>1. \A i \in DOMAIN tries : i < Len(tries) => i \in 1..(Len(tries) - 1)
        BY <2>1
      <3> QED
        BY <2>3, <3>1 DEF AllFailed
    <2>4. CASE k.phase \in InLoop
      <3>1. k.kind = "autofix" /\ row.status = "RUNNING" /\ Going(c, k, tries, rows)
        BY <2>1, <2>4 DEF LoopInv
      <3>2. Len(tries) <= MaxAttempts /\ AllFailed(tries, Len(tries) - 1)
        BY <2>1, <3>1, GoingCounts
      <3>3. k.phase # "use" /\ k.phase # "done"
        BY <2>4 DEF InLoop
      <3> QED
        BY <2>3, <3>1, <3>2, <3>3 DEF At
    <2>5. CASE Settled(c, k, row, tries, rows, checks)
      <3>1. /\ Len(tries) <= MaxAttempts /\ AllFailed(tries, Len(tries) - 1)
            /\ row.status = "RUNNING" => k.phase # "use" /\ k.phase # "done"
            /\ row.status = "FAILED" =>
                 Len(tries) = MaxAttempts /\ tries[Len(tries)].status = "FAILED"
        BY <2>5 DEF Settled
      <3>2. ASSUME row.status = "SUCCEEDED"
            PROVE  /\ tries[Len(tries)] = [status |-> "SUCCEEDED", proposal |-> row.proposal,
                         execution |-> row.execution, verification |-> row.verification]
                   /\ Executes(rows[row.execution], row.proposal, k.place)
                   /\ Verifies(checks[row.verification], c, row.execution)
        <4> DEFINE t == tries[Len(tries)]
        <4>1. /\ t = [status |-> "SUCCEEDED", proposal |-> row.proposal,
                         execution |-> row.execution, verification |-> row.verification]
              /\ Shows(c, t, k.place, rows, checks)
          BY <2>5, <3>2 DEF Settled
        <4>2. /\ t.proposal = row.proposal /\ t.execution = row.execution
              /\ t.verification = row.verification
          BY <4>1
        <4> HIDE DEF t
        <4>3. /\ Executes(rows[row.execution], row.proposal, k.place)
              /\ Verifies(checks[row.verification], c, row.execution)
          BY <4>1, <4>2 DEF Shows
        <4> QED
          BY <4>1, <4>3 DEF t
      <3> QED
        BY <2>2, <2>3, <3>1, <3>2 DEF At, Executes, Verifies
    <2> QED
      BY <2>1, <2>4, <2>5 DEF LoopInv
  <1> QED
    BY <1>1, AttemptsKept, TypesKept, PTL

-----------------------------------------------------------------------------
(* VerifiedAsLeft.                                                         *)

(* A command has passed, and nothing has been applied since: a loop whose  *)
(* verification succeeded, is being recorded or has made it a success.     *)
PassedIs(k, row) ==
    \/ k.phase = "verification" /\ k.status = "SUCCEEDED"
    \/ k.phase \in {"attempt", "save"} /\ k.try.status = "SUCCEEDED"
    \/ row # None /\ row.status = "SUCCEEDED"
Passed(c) == calls[c].kind = "autofix" /\ PassedIs(calls[c], autofixes[c])

Alone(c) ==
    /\ \A d \in Users(calls[c].place) : d = c \/ calls[d].kind = "verify"
    /\ calls[c].place \notin removed

PassedInv == \A c \in Calls :
    Passed(c) /\ Alone(c) => SeenToPass(calls[c].run, trees[calls[c].place])

(* The run of a loop that has passed was recorded.                         *)
LEMMA PassedLoop ==
    ASSUME TypeInv, AttemptInv, NEW c \in Calls, Passed(c)
    PROVE  calls[c].run \in Runs /\ runs[calls[c].run] # None
  <1>1. calls[c] \in Call /\ CallInv(c, calls[c], runs) /\ Loop(c)
    BY TablesTyped DEF AttemptInv
  <1>2. FoundIn(calls[c].run, runs)
    BY <1>1 DEF Passed, PassedIs, Loop, LoopInv, CallInv, InLoop
  <1> QED
    BY <1>1, <1>2 DEF Call, OrNone, FoundIn

(* A loop that has passed had done so before, or it has just seen a        *)
(* command pass; it has changed nothing.                                   *)
LEMMA PassedBefore ==
    ASSUME TypeInv, AttemptInv, NEW c \in Calls, Step(c) \/ Die(c), Passed(c)'
    PROVE  /\ trees' = trees
           /\ Passed(c) \/ SeenToPass(calls[c].run, trees[calls[c].place])
  <1> DEFINE k == calls[c]
             Seen == SeenToPass(k.run, trees[k.place])
             row == autofixes[c]
  <1>1. ASSUME NEW s \in Call, Moves(c, s)
        PROVE  PassedIs(s, autofixes'[c]) /\ k.kind = "autofix"
    <2>1. calls'[c] = s /\ s.kind = k.kind
      BY <1>1, MovesIs DEF Moves
    <2> QED
      BY <2>1 DEF Passed
  <1>2. k.kind = "autofix"
    <2>1. \E s \in Call : Moves(c, s)
      BY CallStep, Zenon
    <2> QED
      BY <1>1, <2>1
  <1>3. /\ k \in Call /\ CallInv(c, k, runs) /\ Loop(c)
    BY TablesTyped DEF AttemptInv
  <1>4. ASSUME k.phase \in InLoop PROVE row.status = "RUNNING" /\ Going(c, k, attempts[c], executions[c])
    BY <1>2, <1>3, <1>4, LoopGoes
  <1>5. ASSUME k.phase \in {"prepare", "start"} PROVE row = None
    BY <1>3, <1>5 DEF Loop, LoopInv, Settled, InLoop
  <1>6. Dead(c).phase = "gone"
    BY <1>3, DeadIs
  <1>7. ASSUME Becomes(c, Dead(c)), autofixes' = autofixes PROVE Passed(c)
    <2>1. calls'[c] = Dead(c)
      BY <1>7, MovesIs
    <2>2. PassedIs(Dead(c), row)
      BY <1>7, <2>1 DEF Passed
    <2> QED
      BY <1>2, <1>6, <2>2 DEF Passed, PassedIs
  <1>8. ASSUME Prepare(c) PROVE FALSE
    <2>1. PICK s \in Call : Moves(c, s) /\ (s.phase = AfterPrepare(c) \/ s = Dead(c))
      BY <1>8, PrepareIs
    <2>2. s.phase \in {"start", "apply", "gone"}
      BY <1>6, <2>1 DEF AfterPrepare
    <2>3. autofixes' = autofixes /\ row = None
      BY <1>5, <1>8 DEF Prepare, At
    <2> QED
      BY <1>1, <2>1, <2>2, <2>3 DEF PassedIs
  <1>9. ASSUME Start(c) PROVE FALSE
    <2>1. PICK s \in Call :
             /\ Moves(c, s)
             /\ \/ /\ s.phase = "generate"
                   /\ autofixes' = [autofixes EXCEPT ![c] = AutofixRow("RUNNING", NoIds)]
                \/ s = Dead(c) /\ autofixes' = autofixes
      BY <1>9, StartIs
    <2>2. s.phase \in {"generate", "gone"}
      BY <1>6, <2>1
    <2>3. row = None
      BY <1>5, <1>9 DEF Start, At
    <2>4. autofixes'[c] = None \/ autofixes'[c].status = "RUNNING"
      BY <2>1, <2>3, TablesTyped DEF TablesOK, AutofixRow
    <2> QED
      BY <1>1, <2>1, <2>2, <2>4 DEF PassedIs
  <1>10. ASSUME Generate(c) PROVE FALSE
    <2>1. PICK s \in Call :
             /\ Moves(c, s)
             /\ s.phase = "apply" \/
                (s.phase = "attempt" /\ s.try = [calls[c].try EXCEPT !.status = "FAILED"])
      BY <1>10, GenerateIs
    <2>2. autofixes' = autofixes /\ row.status = "RUNNING"
      BY <1>4, <1>10 DEF Generate, At, InLoop
    <2>3. k.try \in Attempt
      BY <1>3 DEF Call
    <2>4. s.phase \in {"apply", "attempt"} /\ (s.phase = "attempt" => s.try.status = "FAILED")
      BY <2>1, <2>3 DEF Attempt
    <2> QED
      BY <1>1, <2>1, <2>2, <2>4 DEF PassedIs
  <1>11. ASSUME Apply(c) PROVE FALSE
    <2>1. PICK s \in Call : Moves(c, s) /\ s.phase \in {"apply", "execution"}
      BY <1>11, ApplyIs
    <2>2. autofixes' = autofixes /\ row.status = "RUNNING"
      BY <1>4, <1>11 DEF Apply, At, InLoop, tables
    <2> QED
      BY <1>1, <2>1, <2>2 DEF PassedIs
  <1>12. ASSUME SaveExecution(c) PROVE FALSE
    <2>1. autofixes' = autofixes /\ row.status = "RUNNING" /\ k.phase = "execution"
      BY <1>4, <1>12 DEF SaveExecution, At, InLoop
    <2>2. k.try.status = "FAILED" /\ k.try \in Attempt
      BY <1>3, <1>4, <2>1 DEF Going, Tried, InLoop, Call
    <2>3. PICK s \in Call :
             /\ Moves(c, s)
             /\ \/ s.phase \in {"use", "done", "gone", "execution", "verify"}
                \/ s.phase = "attempt" /\ s.try = [calls[c].try EXCEPT !.execution = calls[c].number]
                \/ s.phase = "attempt" /\ SameTry(s, calls[c])
      BY <1>6, <1>12, SaveExecutionIs DEF Finishes
    <2>4. s.phase = "attempt" => s.try.status = "FAILED"
      BY <2>2, <2>3 DEF SameTry, Attempt
    <2> QED
      BY <1>1, <2>1, <2>3, <2>4 DEF PassedIs
  <1>13. ASSUME Verify(c) PROVE trees' = trees /\ Seen
    <2>1. PICK s \in Call :
             /\ Moves(c, s)
             /\ \/ s.phase = "verify"
                \/ /\ s.phase = "verification"
                   /\ s.status = "SUCCEEDED" => SeenToPass(calls[c].run, trees[calls[c].place])
      BY <1>13, VerifyIs
    <2>2. autofixes' = autofixes /\ row.status = "RUNNING" /\ trees' = trees
      BY <1>4, <1>13 DEF Verify, At, InLoop, tables
    <2> QED
      BY <1>1, <2>1, <2>2 DEF PassedIs
  <1>14. ASSUME SaveVerification(c) PROVE trees' = trees /\ Passed(c)
    <2>1. /\ autofixes' = autofixes /\ row.status = "RUNNING" /\ trees' = trees
          /\ k.phase = "verification"
      BY <1>4, <1>14 DEF SaveVerification, At, InLoop
    <2>2. k.try.status = "FAILED" /\ k.try \in Attempt
      <3>1. k.try = Tried(k.try.proposal, k.number)
        BY <1>4, <2>1 DEF Going, InLoop
      <3>2. k.try.status = "FAILED"
        BY <3>1 DEF Tried
      <3> QED
        BY <1>3, <3>2 DEF Call
    <2>3. PICK s \in Call :
             /\ Moves(c, s)
             /\ \/ /\ s.phase = "attempt"
                   /\ s.try = [calls[c].try EXCEPT !.status = calls[c].status,
                                                   !.verification = calls[c].number]
                \/ s.phase = "attempt" /\ SameTry(s, calls[c])
                \/ calls[c].kind = "verify"
      BY <1>14, SaveVerificationIs
    <2>4. s.phase = "attempt" /\ s.try.status \in {k.status, "FAILED"}
      BY <1>2, <2>2, <2>3 DEF SameTry, Attempt
    <2>5. s.try.status = "SUCCEEDED"
      BY <1>1, <2>1, <2>3, <2>4 DEF PassedIs
    <2> QED
      BY <1>2, <2>1, <2>4, <2>5 DEF Passed, PassedIs
  <1>15. ASSUME SaveAttempt(c) PROVE trees' = trees /\ Passed(c)
    <2>1. /\ autofixes' = autofixes /\ row.status = "RUNNING" /\ trees' = trees
          /\ k.phase = "attempt"
      BY <1>4, <1>15 DEF SaveAttempt, At, InLoop
    <2>2. PICK s \in Call :
             /\ Moves(c, s)
             /\ (s.phase = "save" /\ SameTry(s, calls[c])) \/ s = Dead(c)
      BY <1>15, SaveAttemptIs
    <2> QED
      BY <1>1, <1>2, <1>6, <2>1, <2>2 DEF Passed, PassedIs, SameTry
  <1>16. ASSUME SaveAutofix(c) PROVE trees' = trees /\ Passed(c)
    <2>1. row.status = "RUNNING" /\ trees' = trees /\ k.phase = "save"
      BY <1>4, <1>16 DEF SaveAutofix, At, InLoop
    <2>2. PICK s \in Call :
             /\ Moves(c, s)
             /\ \/ /\ autofixes' = [autofixes EXCEPT ![c] = NewAutofix(c)]
                   /\ s.phase \in {"generate", "use", "done"}
                \/ s = Dead(c) /\ autofixes' = autofixes
      BY <1>16, SaveAutofixIs DEF Finishes
    <2>3. autofixes'[c] \in {row, NewAutofix(c)}
      BY <2>2, TablesTyped DEF TablesOK
    <2>4. autofixes'[c].status = "SUCCEEDED"
      BY <1>1, <1>6, <2>2 DEF PassedIs
    <2>5. AutofixStatus(c) = "SUCCEEDED"
      BY <2>1, <2>3, <2>4 DEF NewAutofix, AutofixRow
    <2>6. k.try.status = "SUCCEEDED"
      BY <2>5, StatusIs
    <2> QED
      BY <1>2, <2>1, <2>6 DEF Passed, PassedIs
  <1>17. ASSUME MarkUsed(c) PROVE trees' = trees /\ Passed(c)
    <2>1. trees' = trees /\ autofixes' = autofixes /\ k.phase = "use"
      BY <1>17 DEF MarkUsed, At
    <2>2. PICK s \in Call : Moves(c, s) /\ (s.phase \in {"use", "done"} \/ s = Dead(c))
      BY <1>17, MarkUsedIs DEF Finishes
    <2> QED
      BY <1>1, <1>2, <1>6, <2>1, <2>2 DEF Passed, PassedIs
  <1>18. ASSUME Die(c) PROVE trees' = trees /\ Passed(c)
    <2>1. trees' = trees /\ autofixes' = autofixes
      BY <1>18 DEF Die, tables
    <2>2. Becomes(c, Dead(c))
      BY <1>18, DieIs DEF Moves
    <2> QED
      BY <1>7, <2>1, <2>2
  <1> QED
    BY <1>8, <1>9, <1>10, <1>11, <1>12, <1>13, <1>14, <1>15, <1>16, <1>17, <1>18, Zenon
       DEF Step

(* Who is alone where it works was so before it passed, and nobody else    *)
(* changes its tree.                                                       *)
LEMMA AloneBefore ==
    ASSUME TypeInv, [Next]_vars, NEW c \in Calls, calls[c].phase # "idle", Alone(c)'
    PROVE  Alone(c) /\ SameWork(calls'[c], calls[c])
  <1> DEFINE place == calls[c].place
  <1>1. SameWork(calls'[c], calls[c]) /\ calls'[c].place = place
    BY WorkKept DEF SameWork
  <1>2. ASSUME NEW d \in Calls, calls[d].phase # "idle", calls[d].place = place
        PROVE  d = c \/ calls[d].kind = "verify"
    <2>1. calls'[d].place = place /\ calls'[d].phase # "idle" /\ calls'[d].kind = calls[d].kind
      BY <1>2, WorkKept DEF SameWork
    <2>2. d = c \/ calls'[d].kind = "verify"
      BY <1>1, <2>1 DEF Alone, Users, At
    <2> QED
      BY <2>1, <2>2
  <1>3. place \notin removed'
    BY <1>1 DEF Alone
  <1>4. removed \subseteq removed'
    <2>1. ASSUME NEW d \in Calls, Begin(d) \/ Step(d) \/ Die(d) PROVE removed' = removed
      BY <2>1, Zenon DEF Begin, Step, Die, Prepare, Start, Generate, Apply, SaveExecution,
         Verify, SaveVerification, SaveAttempt, SaveAutofix, MarkUsed, tables
    <2>2. ASSUME NEW r \in Runs, Plan(r) PROVE removed' = removed
      BY <2>2 DEF Plan
    <2>3. ASSUME NEW s \in Sandboxed, CleanUp(s) PROVE removed \subseteq removed'
      BY <2>3 DEF CleanUp
    <2>4. ASSUME UNCHANGED vars PROVE removed' = removed
      BY <2>4 DEF vars
    <2>5. \/ \E r \in Runs : Plan(r)
          \/ \E d \in Calls : Begin(d) \/ Step(d) \/ Die(d)
          \/ \E s \in Sandboxed : CleanUp(s)
          \/ UNCHANGED vars
      BY Zenon DEF Next
    <2> QED
      BY <2>1, <2>2, <2>3, <2>4, <2>5
  <1> QED
    BY <1>1, <1>2, <1>3, <1>4 DEF Alone, Users, At

LEMMA TreeUndisturbed ==
    ASSUME TypeInv, [Next]_vars, NEW c \in Calls, calls[c].phase # "idle",
           calls[c].kind = "autofix", Alone(c)', Alone(c), ~Step(c)
    PROVE  trees'[calls[c].place] = trees[calls[c].place]
  <1> DEFINE place == calls[c].place
  <1>1. calls[c] \in Call /\ CallInv(c, calls[c], runs) /\ place \in Places
    BY TablesTyped DEF Call
  <1>2. ASSUME NEW d \in Calls, d # c, Prepare(d) PROVE trees'[place] = trees[place]
    <2>1. /\ d \in Sandboxed
          /\ trees' \in {trees, [trees EXCEPT ![d] = Materialized]}
      BY <1>2, PrepareIs, Zenon
    <2>2. place # d
      BY <1>1, <1>2, <2>1, PatchingAssumption DEF CallInv
    <2>3. d \in Places /\ trees \in [Places -> Tree]
      BY <2>1, TablesTyped DEF Places, TablesOK
    <2> QED
      BY <1>1, <2>1, <2>2, <2>3
  <1>3. ASSUME NEW d \in Calls, d # c, Apply(d) PROVE trees'[place] = trees[place]
    <2>1. /\ calls[d] \in Call /\ CallInv(d, calls[d], runs)
          /\ calls[d].phase = "apply"
      BY <1>3, TablesTyped DEF Apply, At
    <2>2. calls[d].kind # "verify"
      BY <2>1 DEF CallInv
    <2>3. calls[d].place # place
      BY <1>3, <2>1, <2>2 DEF Alone, Users, At
    <2>4. \/ trees' = trees
          \/ \E x, after : trees' = [trees EXCEPT ![calls[d].place][x] = after]
      BY <1>3, Zenon DEF Apply, Mutate
    <2>5. trees \in [Places -> Tree]
      BY TablesTyped DEF TablesOK
    <2> QED
      BY <1>1, <2>3, <2>4, <2>5
  <1>4. ASSUME NEW d \in Calls, Begin(d) \/ Step(d) \/ Die(d), ~Prepare(d), ~Apply(d)
        PROVE  trees' = trees
    BY <1>4, Zenon DEF Begin, Step, Die, Start, Generate, SaveExecution,
       Verify, SaveVerification, SaveAttempt, SaveAutofix, MarkUsed, tables
  <1>5. ASSUME NEW d \in Calls, Begin(d) \/ Step(d) \/ Die(d)
        PROVE  trees'[place] = trees[place]
    <2>1. Prepare(d) \/ Apply(d) => d # c
      BY Zenon DEF Step
    <2> QED
      BY <1>2, <1>3, <1>4, <1>5, <2>1
  <1>6. ASSUME NEW r \in Runs, Plan(r) PROVE trees' = trees
    BY <1>6 DEF Plan
  <1>7. ASSUME NEW s \in Sandboxed, CleanUp(s) PROVE trees'[place] = trees[place]
    <2>1. trees' = [trees EXCEPT ![s] = Nothing] /\ removed' = removed \cup {s}
          /\ calls' = calls
      BY <1>7 DEF CleanUp
    <2>2. place # s
      BY <2>1 DEF Alone
    <2>3. trees \in [Places -> Tree]
      BY TablesTyped DEF TablesOK
    <2> QED
      BY <1>1, <2>1, <2>2, <2>3
  <1>8. ASSUME UNCHANGED vars PROVE trees' = trees
    BY <1>8 DEF vars
  <1>9. \/ \E r \in Runs : Plan(r)
        \/ \E d \in Calls : Begin(d) \/ Step(d) \/ Die(d)
        \/ \E s \in Sandboxed : CleanUp(s)
        \/ UNCHANGED vars
    BY Zenon DEF Next
  <1> QED
    BY <1>5, <1>6, <1>7, <1>8, <1>9

LEMMA SeenStays ==
    ASSUME TypeInv, [Next]_vars, NEW r \in Runs, runs[r] # None, NEW tree,
           SeenToPass(r, tree)
    PROVE  SeenToPass(r, tree)'
  BY RunsKept DEF SeenToPass

LEMMA PassedStep ==
    ASSUME TypeInv, AttemptInv, PassedInv, [Next]_vars
    PROVE  PassedInv'
  <1> SUFFICES ASSUME NEW c \in Calls, Passed(c)', Alone(c)'
               PROVE  SeenToPass(calls[c].run, trees[calls[c].place])'
    BY DEF PassedInv
  <1> DEFINE k == calls[c]
  <1>1. Loop(c) /\ k \in Call
    BY TablesTyped DEF AttemptInv
  <1>2. ASSUME Begin(c) PROVE FALSE
    <2>1. PICK s \in Call :
            Becomes(c, s) /\ s.phase \in {"prepare", "start", "apply", "verify"}
      BY <1>2, BeginIs, Zenon
    <2>2. autofixes' = autofixes /\ k.phase = "idle"
      BY <1>2 DEF Begin, tables, At
    <2>3. autofixes[c] = None
      BY <1>1, <2>2 DEF Loop, LoopInv, Settled, InLoop
    <2>4. calls'[c] = s
      BY <2>1, MovesIs
    <2> QED
      BY <2>1, <2>2, <2>3, <2>4 DEF Passed, PassedIs
  <1>3. ASSUME ~Begin(c), ~Step(c), ~Die(c)
        PROVE  calls'[c] = k /\ autofixes'[c] = autofixes[c]
    BY <1>3, Unmoved
  <1>4. CASE ~Begin(c) /\ ~Step(c) /\ ~Die(c)
    <2>1. Passed(c)
      BY <1>3, <1>4 DEF Passed
    <2>2. k.phase # "idle"
      BY <1>1, <2>1 DEF Passed, PassedIs, Loop, LoopInv, Settled, InLoop
    <2>3. Alone(c) /\ SameWork(calls'[c], k)
      BY <2>2, AloneBefore
    <2>4. trees'[k.place] = trees[k.place]
      BY <1>4, <2>1, <2>2, <2>3, TreeUndisturbed DEF Passed
    <2>5. SeenToPass(k.run, trees[k.place])
      BY <2>1, <2>3 DEF PassedInv
    <2>6. PICK r \in Runs : r = k.run /\ runs[r] # None
      BY <2>1, PassedLoop
    <2>7. PICK tree : tree = trees[k.place]
      OBVIOUS
    <2>8. SeenToPass(r, tree)'
      BY <2>5, <2>6, <2>7, SeenStays
    <2>9. calls'[c].run = r /\ trees'[calls'[c].place] = tree
      BY <2>3, <2>4, <2>6, <2>7 DEF SameWork
    <2> QED
      BY <2>8, <2>9
  <1>5. CASE Step(c) \/ Die(c)
    <2>1. trees' = trees /\ (Passed(c) \/ SeenToPass(k.run, trees[k.place]))
      BY <1>5, PassedBefore
    <2>2. k.phase # "idle"
      BY <1>5, CallStep, Zenon DEF Begun
    <2>3. Alone(c) /\ SameWork(calls'[c], k)
      BY <2>2, AloneBefore
    <2>4. SeenToPass(k.run, trees[k.place])
      BY <2>1, <2>3 DEF PassedInv
    <2>5. k.run \in Runs /\ runs[k.run] # None
      <3>1. PassedIs(calls'[c], autofixes'[c]) /\ k.kind = "autofix"
        BY <2>3 DEF Passed, SameWork
      <3>2. CallInv(c, k, runs) /\ k.phase \in Begun
        BY <1>5, CallStep, TablesTyped, Zenon
      <3>3. PICK s \in Call : Moves(c, s) /\ runs' = runs
        BY <1>5, CallStep, Zenon
      <3>4. /\ calls'[c] = s /\ CallInv(c, s, runs) /\ s.kind = "autofix" /\ s.run = k.run
        BY <3>1, <3>3, MovesIs DEF Moves
      <3>5. CASE s.phase \in InLoop
        BY <1>1, <3>4, <3>5 DEF CallInv, FoundIn, Call, OrNone
      <3>6. CASE s.phase \notin InLoop
        <4>1. autofixes'[c] # None
          BY <3>1, <3>4, <3>6 DEF PassedIs, InLoop
        <4>2. Loop(c)'
          BY AttemptStep DEF AttemptInv
        <4>3. FoundIn(s.run, runs)
          BY <3>3, <3>4, <4>1, <4>2 DEF Loop, LoopInv
        <4> QED
          BY <1>1, <3>4, <4>3 DEF FoundIn, Call, OrNone
      <3> QED
        BY <3>5, <3>6
    <2>6. PICK r \in Runs : r = k.run /\ runs[r] # None
      BY <2>5
    <2>7. PICK tree : tree = trees[k.place]
      OBVIOUS
    <2>8. SeenToPass(r, tree)'
      BY <2>4, <2>6, <2>7, SeenStays
    <2>9. calls'[c].run = r /\ trees'[calls'[c].place] = tree
      BY <2>1, <2>3, <2>6, <2>7 DEF SameWork
    <2> QED
      BY <2>8, <2>9
  <1> QED
    BY <1>2, <1>4, <1>5

(* When autofix has succeeded, a command that its plan or context names    *)
(* and the policy allows passes in the tree it leaves behind, whatever ran *)
(* before or runs elsewhere, as long as no other patch or loop works in    *)
(* that place and its sandbox is there.                                    *)
THEOREM SuccessIsVerified == Spec => []VerifiedAsLeft
  <1>1. TypeInv /\ AttemptInv /\ PassedInv => VerifiedAsLeft
    <2> SUFFICES ASSUME TypeInv, AttemptInv, PassedInv, NEW c \in Calls,
                        autofixes[c] # None, autofixes[c].status = "SUCCEEDED", Alone(c)
                 PROVE  SeenToPass(calls[c].run, trees[calls[c].place])
      BY DEF VerifiedAsLeft, Alone, SeenToPass
    <2>1. Passed(c)
      BY DEF AttemptInv, Loop, LoopInv, Passed, PassedIs
    <2> QED
      BY <2>1 DEF PassedInv
  <1>2. Init => PassedInv
    <2> SUFFICES ASSUME Init, NEW c \in Calls PROVE ~Passed(c)
      BY DEF PassedInv
    <2>1. calls[c].phase = "idle" /\ autofixes[c] = None
      BY IdleTyped DEF Init
    <2> QED
      BY <2>1 DEF Passed, PassedIs
  <1>3. TypeInv /\ AttemptInv /\ PassedInv /\ [Next]_vars => PassedInv'
    BY PassedStep
  <1> QED
    BY <1>1, <1>2, <1>3, AttemptsKept, TypesKept, PTL DEF Spec

-----------------------------------------------------------------------------
(* ReceiptsTellChanges.                                                    *)

(* The proposal with this id, as it is recorded, is about the file.        *)
Touches(id, p) ==
    /\ id # None /\ proposals[id] # None
    /\ \E i \in DOMAIN proposals[id].ops : proposals[id].ops[i].path = p

(* What has changed a file is with the call until its execution is saved;  *)
(* when that fails it is with the attempt.                                 *)
Applying == {"apply", "execution"}
ByLiveCall(s, p) == \E c \in Users(s) :
    calls[c].mode = "apply" /\ p \in calls[c].changed /\ calls[c].phase \in Applying \cup {"gone"}
TriesOf(c) ==
    ToSet(attempts[c]) \cup (IF calls[c].phase \in {"attempt", "gone"} THEN {calls[c].try} ELSE {})
ByAttempt(s, p) == \E c \in Users(s) : \E try \in TriesOf(c) :
    try.execution = None /\ Touches(try.proposal, p)
ToldFor(s, p) == ByExecution(s, p) \/ ByLiveCall(s, p) \/ ByAttempt(s, p)

(* An execution is saved where none has been saved before.                 *)
Unsaved == {"prepare", "start", "generate", "apply", "execution"}
Unwritten(k, rows) ==
    /\ k.phase = "idle" => \A m \in Numbers : rows[m] = None
    /\ k.phase \in Unsaved => \A m \in Numbers : m >= k.number => rows[m] = None
    /\ k.phase \in InLoop \ Unsaved => \A m \in Numbers : m > k.number => rows[m] = None

(* What is being applied is on record, and what it has changed is in it.   *)
Held(k, texts) ==
    k.phase \in Applying =>
        /\ \A p \in k.changed : \E i \in DOMAIN k.patch.ops : k.patch.ops[i].path = p
        /\ k.kind = "autofix" => texts[k.patch.id] # None
Recorded(texts) == \A patch \in Patches :
    texts[patch.id] # None => texts[patch.id].ops = patch.ops

Receipts ==
    /\ \A s \in Places, p \in Paths :
         trees[s][p] \notin {BaseFiles[p], Absent} => ToldFor(s, p) \/ ToldFor(Repo, p)
    /\ \A c \in Calls : Unwritten(calls[c], executions[c]) /\ Held(calls[c], proposals)
    /\ Recorded(proposals)
ReceiptInv == OneText => Receipts

(* Only Generate writes proposals, and it replaces none by another text.   *)
LEMMA ProposalsKept ==
    ASSUME TypeInv, [Next]_vars, OneText, Recorded(proposals)
    PROVE  /\ Recorded(proposals')
           /\ \A id \in Ids : proposals[id] # None =>
                proposals'[id] # None /\ proposals'[id].ops = proposals[id].ops
  <1> DEFINE Kept == /\ Recorded(proposals')
                     /\ \A id \in Ids : proposals[id] # None =>
                          proposals'[id] # None /\ proposals'[id].ops = proposals[id].ops
  <1>1. ASSUME proposals' = proposals PROVE Kept
    BY <1>1
  <1>2. ASSUME NEW c \in Calls, NEW patch \in PatchesOf[c], FoundIn(calls[c].run, runs),
               proposals' = [proposals EXCEPT ![patch.id] =
                               [run |-> calls[c].run, ops |-> patch.ops]]
        PROVE  Kept
    <2> DEFINE row == [run |-> calls[c].run, ops |-> patch.ops]
    <2>1. patch \in Patches /\ patch.id \in Ids
      BY OwnPatch, PatchTyped
    <2>2. row # None
      <3>1. calls[c].run \in Runs
        BY <1>2, TablesTyped DEF Call, OrNone, FoundIn
      <3>2. row \in Proposal
        BY <2>1, <3>1 DEF Proposal
      <3> QED
        BY <3>2, NoneAssumption
    <2>3. row.ops = patch.ops
      OBVIOUS
    <2> HIDE DEF row
    <2>4. /\ proposals'[patch.id] = row
          /\ \A id \in Ids : id # patch.id => proposals'[id] = proposals[id]
      BY <1>2, <2>1, TablesTyped DEF TablesOK, row
    <2>5. Recorded(proposals')
      <3> SUFFICES ASSUME NEW q \in Patches, proposals'[q.id] # None
                   PROVE  proposals'[q.id].ops = q.ops
        BY DEF Recorded
      <3>1. q.id \in Ids
        BY PatchTyped
      <3>2. CASE q.id = patch.id
        BY <2>1, <2>3, <2>4, <3>2 DEF OneText
      <3>3. CASE q.id # patch.id
        BY <2>4, <3>1, <3>3 DEF Recorded
      <3> QED
        BY <3>2, <3>3
    <2>6. \A id \in Ids : proposals[id] # None =>
             proposals'[id] # None /\ proposals'[id].ops = proposals[id].ops
      BY <2>1, <2>2, <2>3, <2>4 DEF Recorded
    <2> QED
      BY <2>5, <2>6
  <1>3. ASSUME NEW c \in Calls, Generate(c) PROVE Kept
    <2>1. \/ proposals' = proposals
          \/ \E patch \in PatchesOf[c] :
                proposals' = [proposals EXCEPT ![patch.id] =
                               [run |-> calls[c].run, ops |-> patch.ops]]
      BY <1>3, Zenon DEF Generate
    <2>2. FoundIn(calls[c].run, runs)
      BY <1>3, GenerateIs
    <2> QED
      BY <1>1, <1>2, <2>1, <2>2
  <1>4. ASSUME NEW c \in Calls, Begin(c) \/ Step(c) \/ Die(c), ~Generate(c)
        PROVE  proposals' = proposals
    BY <1>4, Zenon DEF Begin, Step, Die, Prepare, Start, Apply, SaveExecution, Verify,
       SaveVerification, SaveAttempt, SaveAutofix, MarkUsed, tables
  <1>5. ASSUME NEW r \in Runs, Plan(r) PROVE proposals' = proposals
    BY <1>5 DEF Plan
  <1>6. ASSUME NEW s \in Sandboxed, CleanUp(s) PROVE proposals' = proposals
    BY <1>6 DEF CleanUp
  <1>7. ASSUME UNCHANGED vars PROVE proposals' = proposals
    BY <1>7 DEF vars, tables
  <1>8. \/ \E r \in Runs : Plan(r)
        \/ \E c \in Calls : Begin(c) \/ Step(c) \/ Die(c)
        \/ \E s \in Sandboxed : CleanUp(s)
        \/ UNCHANGED vars
    BY Zenon DEF Next
  <1> QED
    BY <1>1, <1>3, <1>4, <1>5, <1>6, <1>7, <1>8

(* A saved execution is not written over.                                  *)
LEMMA ExecutionsKept ==
    ASSUME TypeInv, [Next]_vars, \A c \in Calls : Unwritten(calls[c], executions[c]),
           NEW e \in Calls, NEW n \in Numbers, executions[e][n] # None
    PROVE  executions'[e][n] = executions[e][n]
  <1>1. ASSUME NEW c \in Calls, SaveExecution(c) PROVE executions'[e][n] = executions[e][n]
    <2> DEFINE m == calls[c].number
    <2>1. /\ executions' \in {executions, [executions EXCEPT ![c][m] = NewExecution(c)]}
          /\ calls[c].phase = "execution"
      BY <1>1, Zenon DEF SaveExecution, At
    <2>2. m \in Numbers /\ m \in Nat
      BY TablesTyped, Numbered DEF Call
    <2>3. executions[c][m] = None
      BY <2>1, <2>2 DEF Unwritten, Unsaved
    <2>4. c # e \/ m # n
      BY <2>3
    <2>5. executions \in [Calls -> [Numbers -> OrNone(Execution)]]
      BY TablesTyped DEF TablesOK
    <2> HIDE DEF m
    <2> QED
      BY <2>1, <2>2, <2>4, <2>5
  <1>2. ASSUME NEW c \in Calls, Begin(c) \/ Step(c) \/ Die(c), ~SaveExecution(c)
        PROVE  executions' = executions
    BY <1>2, Zenon DEF Begin, Step, Die, Prepare, Start, Generate, Apply, Verify,
       SaveVerification, SaveAttempt, SaveAutofix, MarkUsed, tables
  <1>3. ASSUME NEW r \in Runs, Plan(r) PROVE executions' = executions
    BY <1>3 DEF Plan
  <1>4. ASSUME NEW s \in Sandboxed, CleanUp(s) PROVE executions' = executions
    BY <1>4 DEF CleanUp
  <1>5. ASSUME UNCHANGED vars PROVE executions' = executions
    BY <1>5 DEF vars, tables
  <1>6. \/ \E r \in Runs : Plan(r)
        \/ \E c \in Calls : Begin(c) \/ Step(c) \/ Die(c)
        \/ \E s \in Sandboxed : CleanUp(s)
        \/ UNCHANGED vars
    BY Zenon DEF Next
  <1> QED
    BY <1>1, <1>2, <1>3, <1>4, <1>5, <1>6

LEMMA TouchesKept ==
    ASSUME TypeInv, [Next]_vars, OneText, Recorded(proposals),
           NEW id \in OrNone(Ids), NEW p, Touches(id, p)
    PROVE  Touches(id, p)'
  <1>1. id \in Ids /\ proposals[id] # None
    BY DEF Touches, OrNone
  <1>2. proposals'[id] # None /\ proposals'[id].ops = proposals[id].ops
    BY <1>1, ProposalsKept
  <1> QED
    BY <1>2 DEF Touches

(* What is told stays told: by the call, by its execution or its attempt.  *)
LEMMA TriesTyped ==
    ASSUME TypeInv, NEW c \in Calls, NEW try \in TriesOf(c)
    PROVE  try.proposal \in OrNone(Ids)
  <1>1. attempts[c] \in Seq(Attempt) /\ calls[c].try \in Attempt
    BY TablesTyped DEF TablesOK, Call
  <1>2. try \in Attempt
    BY <1>1 DEF TriesOf, ToSet
  <1> QED
    BY <1>2 DEF Attempt

LEMMA TriesKept ==
    ASSUME TypeInv, [Next]_vars, NEW c \in Calls, NEW try \in TriesOf(c)
    PROVE  try \in TriesOf(c)'
  <1> DEFINE k == calls[c]
  <1>1. attempts[c] \in Seq(Attempt) /\ k \in Call /\ k.try \in Attempt
    BY TablesTyped DEF TablesOK, Call
  <1>2. CASE ~Begin(c) /\ ~Step(c) /\ ~Die(c)
    BY <1>2, Unmoved DEF TriesOf
  <1>3. ASSUME SaveAttempt(c) PROVE try \in TriesOf(c)'
    <2>1. PICK s \in Call :
             /\ Moves(c, s)
             /\ \/ attempts' = [attempts EXCEPT ![c] = Append(attempts[c], calls[c].try)]
                \/ attempts' = attempts /\ s = Dead(c)
      BY <1>3, SaveAttemptIs
    <2>2. calls'[c] = s
      BY <2>1, MovesIs DEF Moves
    <2>3. CASE attempts' = [attempts EXCEPT ![c] = Append(attempts[c], calls[c].try)]
      <3>1. attempts'[c] = Append(attempts[c], k.try)
        BY <2>3, TablesTyped DEF TablesOK
      <3>2. k.try \in ToSet(attempts'[c]) /\ ToSet(attempts[c]) \subseteq ToSet(attempts'[c])
        <4> DEFINE old == attempts[c]
                   new == attempts'[c]
        <4>1. /\ old \in Seq(Attempt) /\ new = Append(old, k.try)
          BY <1>1, <3>1
        <4> HIDE DEF old, new, k
        <4>2. /\ DOMAIN old = 1..Len(old) /\ DOMAIN new = 1..(Len(old) + 1)
              /\ new[Len(old) + 1] = k.try /\ Len(old) \in Nat
              /\ \A i \in 1..Len(old) : new[i] = old[i]
          BY <4>1
        <4>3. Len(old) + 1 \in DOMAIN new /\ DOMAIN old \subseteq DOMAIN new
          BY <4>2
        <4>4. k.try \in ToSet(new)
          BY <4>2, <4>3 DEF ToSet
        <4>5. ToSet(old) \subseteq ToSet(new)
          BY <4>2, <4>3 DEF ToSet
        <4> QED
          BY <4>4, <4>5 DEF old, new
      <3> QED
        BY <3>2 DEF TriesOf
    <2>4. CASE attempts' = attempts /\ s = Dead(c)
      <3>1. s.phase = "gone" /\ s.try = k.try
        BY <1>1, <2>4, DeadIs
      <3> QED
        BY <2>2, <2>4, <3>1 DEF TriesOf
    <2> QED
      BY <2>1, <2>3, <2>4
  <1>4. ASSUME Begin(c) \/ Step(c) \/ Die(c), ~SaveAttempt(c) PROVE try \in TriesOf(c)'
    <2>1. attempts' = attempts
      BY <1>4, Zenon DEF Begin, Step, Die, Prepare, Start, Generate, Apply, SaveExecution,
         Verify, SaveVerification, SaveAutofix, MarkUsed, tables
    <2>2. CASE try \in ToSet(attempts[c])
      BY <2>1, <2>2 DEF TriesOf
    <2>3. CASE try \notin ToSet(attempts[c])
      <3>1. k.phase \in {"attempt", "gone"} /\ try = k.try
        BY <2>3 DEF TriesOf
      <3>2. ~Begin(c) /\ k.phase # "gone"
        BY <1>4, <3>1, CallStep, Zenon DEF Begin, At, Begun, Ended
      <3>3. Die(c)
        BY <1>4, <3>1, <3>2 DEF Step, Prepare, Start, Generate, Apply, SaveExecution,
           Verify, SaveVerification, SaveAttempt, SaveAutofix, MarkUsed, At
      <3>4. calls'[c] = Dead(c)
        BY <3>3, DieIs, MovesIs DEF Moves
      <3>5. Dead(c).phase = "gone" /\ Dead(c).try = k.try
        BY <1>1, DeadIs
      <3> QED
        BY <3>1, <3>4, <3>5 DEF TriesOf
    <2> QED
      BY <2>2, <2>3
  <1> QED
    BY <1>2, <1>3, <1>4, Zenon DEF Step

LEMMA LiveKept ==
    ASSUME TypeInv, AttemptInv, Receipts, OneText, [Next]_vars,
           NEW c \in Calls, NEW s \in Places, NEW p \in Paths,
           calls[c].phase \in Applying \cup {"gone"}, calls[c].place = s,
           calls[c].mode = "apply", p \in calls[c].changed
    PROVE  ToldFor(s, p)'
  <1> DEFINE k == calls[c]
             n == k.number
  <1>1. /\ k \in Call /\ CallInv(c, k, runs) /\ Loop(c) /\ n \in Numbers
        /\ Held(k, proposals) /\ executions \in [Calls -> [Numbers -> OrNone(Execution)]]
    BY TablesTyped DEF AttemptInv, Receipts, Call, TablesOK
  <1>2. ASSUME NEW z, calls'[c] = z, z.phase \in Applying \cup {"gone"}, z.place = s,
               z.mode = "apply", p \in z.changed
        PROVE  ToldFor(s, p)'
    BY <1>2 DEF ToldFor, ByLiveCall, Users, At, Applying
  <1>3. CASE calls'[c] = k
    BY <1>2, <1>3
  <1>4. CASE k.phase = "gone"
    BY <1>3, <1>4, WorkKept DEF Ended
  <1>5. ASSUME NEW z, Moves(c, z), z.phase \in Applying \cup {"gone"}, p \in z.changed
        PROVE  ToldFor(s, p)'
    BY <1>2, <1>5, MovesIs DEF Moves
  <1>6. ASSUME Moves(c, Dead(c)) PROVE ToldFor(s, p)'
    BY <1>1, <1>5, <1>6, DeadIs
  <1>7. ASSUME Apply(c) PROVE ToldFor(s, p)'
    <2>1. PICK z \in Call :
             /\ Moves(c, z) /\ z.phase \in Applying /\ k.changed \subseteq z.changed
      BY <1>7, ApplyIs DEF Applying
    <2> QED
      BY <1>5, <2>1
  <1>8. ASSUME executions' = [executions EXCEPT ![c][n] = NewExecution(c)], SaveExecution(c)
        PROVE  ToldFor(s, p)'
    <2>1. executions'[c][n] = NewExecution(c)
      BY <1>1, <1>8
    <2>2. NewExecution(c) # None
      BY <1>8, SaveExecutionTyped, NoneAssumption
    <2>3. /\ NewExecution(c).place = s /\ NewExecution(c).mode = "apply"
          /\ p \in NewExecution(c).changed
      BY DEF NewExecution
    <2>4. ByExecution(s, p)'
      BY <1>1, <2>1, <2>2, <2>3 DEF ByExecution
    <2> QED
      BY <2>4 DEF ToldFor
  <1>9. ASSUME k.phase = "execution", k.kind = "autofix", NEW z, Moves(c, z),
               z.phase = "attempt", SameTry(z, k), proposals' = proposals
        PROVE  ToldFor(s, p)'
    <2>1. k.try = Tried(k.patch.id, None) /\ k.patch \in Patches
      BY <1>1, <1>9 DEF Loop, LoopInv, InLoop, Going, CallInv
    <2>2. k.try.proposal = k.patch.id /\ k.try.execution = None /\ k.patch.id \in Ids
      BY <2>1, PatchTyped DEF Tried
    <2>3. /\ proposals[k.patch.id] # None
          /\ \E i \in DOMAIN k.patch.ops : k.patch.ops[i].path = p
      BY <1>1, <1>9 DEF Held, Applying
    <2>4. proposals[k.patch.id].ops = k.patch.ops
      BY <2>1, <2>3 DEF Receipts, Recorded
    <2>5. Touches(k.patch.id, p)
      BY <2>2, <2>3, <2>4, NoneAssumption DEF Touches
    <2>6. PICK id \in Ids : id = k.patch.id
      BY <2>2
    <2>7. Touches(id, p)'
      BY <1>9, <2>5, <2>6 DEF Touches
    <2>8. calls'[c] = z /\ z.place = s /\ z.try = k.try
      BY <1>9, MovesIs DEF Moves, SameTry
    <2>9. c \in Users(s)' /\ k.try \in TriesOf(c)'
      BY <1>9, <2>8 DEF Users, TriesOf, At
    <2>10. ByAttempt(s, p)'
      BY <2>2, <2>6, <2>7, <2>9 DEF ByAttempt
    <2> QED
      BY <2>10 DEF ToldFor
  <1>10. ASSUME SaveExecution(c) PROVE ToldFor(s, p)'
    <2>1. proposals' = proposals /\ k.phase = "execution"
      BY <1>10 DEF SaveExecution, At
    <2>2. PICK z \in Call :
             /\ Moves(c, z)
             /\ \/ executions' = [executions EXCEPT ![c][calls[c].number] = NewExecution(c)]
                \/ z.phase = "execution" /\ z.changed = calls[c].changed
                \/ z = Dead(c)
                \/ calls[c].kind = "autofix" /\ z.phase = "attempt" /\ SameTry(z, calls[c])
      BY <1>10, SaveExecutionIs
    <2>3. CASE z.phase = "execution" /\ z.changed = k.changed
      BY <1>5, <2>2, <2>3 DEF Applying
    <2> QED
      BY <1>6, <1>8, <1>9, <1>10, <2>1, <2>2, <2>3
  <1>11. CASE Begin(c) \/ Step(c) \/ Die(c)
    <2>1. CASE Die(c)
      BY <1>6, <2>1, DieIs
    <2>2. CASE ~Die(c) /\ k.phase # "gone"
      <3>1. k.phase \in {"apply", "execution"}
        BY <2>2 DEF Applying
      <3>2. Apply(c) \/ SaveExecution(c)
        BY <1>11, <2>2, <3>1 DEF Begin, Step, Prepare, Start, Generate, Verify,
           SaveVerification, SaveAttempt, SaveAutofix, MarkUsed, At
      <3> QED
        BY <1>7, <1>10, <3>2
    <2> QED
      BY <1>4, <2>1, <2>2
  <1> QED
    BY <1>3, <1>11, Unmoved

LEMMA ToldKept ==
    ASSUME TypeInv, AttemptInv, Receipts, OneText, [Next]_vars,
           NEW s \in Places, NEW p \in Paths, ToldFor(s, p)
    PROVE  ToldFor(s, p)'
  <1>1. CASE ByExecution(s, p)
    <2>1. PICK e \in Calls, n \in Numbers :
            /\ executions[e][n] # None /\ executions[e][n].place = s
            /\ executions[e][n].mode = "apply" /\ p \in executions[e][n].changed
      BY <1>1 DEF ByExecution
    <2>2. executions'[e][n] = executions[e][n]
      BY <2>1, ExecutionsKept DEF Receipts
    <2>3. ByExecution(s, p)'
      BY <2>1, <2>2 DEF ByExecution
    <2> QED
      BY <2>3 DEF ToldFor
  <1>2. CASE ByLiveCall(s, p)
    BY <1>2, LiveKept DEF ByLiveCall, Users
  <1>3. CASE ByAttempt(s, p)
    <2>1. PICK c \in Users(s) : \E try \in TriesOf(c) :
            try.execution = None /\ Touches(try.proposal, p)
      BY <1>3 DEF ByAttempt
    <2>2. PICK try \in TriesOf(c) : try.execution = None /\ Touches(try.proposal, p)
      BY <2>1
    <2>3. c \in Calls /\ c \in Users(s)'
      BY <2>1, WorkKept DEF Users, At, SameWork
    <2>4. PICK id \in OrNone(Ids) : id = try.proposal
      BY <2>3, TriesTyped
    <2>5. Touches(id, p)'
      BY <2>2, <2>4, TouchesKept DEF Receipts
    <2>6. try \in TriesOf(c)'
      BY <2>3, TriesKept
    <2>7. ByAttempt(s, p)'
      BY <2>2, <2>3, <2>4, <2>5, <2>6 DEF ByAttempt
    <2> QED
      BY <2>7 DEF ToldFor
  <1> QED
    BY <1>1, <1>2, <1>3 DEF ToldFor

LEMMA UnwrittenKept ==
    ASSUME TypeInv, [Next]_vars, NEW c \in Calls, Unwritten(calls[c], executions[c])
    PROVE  Unwritten(calls[c], executions[c])'
  <1> DEFINE k == calls[c]
             rows == executions[c]
             n == k.number
  <1>1. /\ k \in Call /\ n \in Numbers /\ n \in Nat /\ Numbers \subseteq Nat
        /\ executions \in [Calls -> [Numbers -> OrNone(Execution)]]
    BY TablesTyped, Numbered DEF Call, TablesOK
  <1>2. ASSUME NEW s, Becomes(c, s), Unwritten(s, executions'[c])
        PROVE  Unwritten(calls[c], executions[c])'
    BY <1>2, MovesIs
  <1>3. ASSUME NEW s, s.phase \in {"use", "done", "gone"} PROVE \A rs : Unwritten(s, rs)
    BY <1>3 DEF Unwritten, Unsaved, InLoop
  <1>4. Dead(c).phase = "gone"
    BY <1>1, DeadIs
  <1>5. ASSUME Becomes(c, Dead(c)) PROVE Unwritten(calls[c], executions[c])'
    BY <1>2, <1>3, <1>4, <1>5
  <1>6. ASSUME Begin(c) PROVE Unwritten(calls[c], executions[c])'
    <2>1. PICK s \in Call :
            Becomes(c, s) /\ s.phase \in {"prepare", "start", "apply", "verify"}
      BY <1>6, BeginIs, Zenon
    <2>2. executions' = executions /\ k.phase = "idle"
      BY <1>6 DEF Begin, tables, At
    <2>3. Unwritten(s, executions'[c])
      BY <2>1, <2>2 DEF Unwritten
    <2> QED
      BY <1>2, <2>1, <2>3
  <1>7. ASSUME NEW s, Becomes(c, s), s.number = n, executions' = executions,
               k.phase \in InLoop \cup Unsaved,
               s.phase \in InLoop \cup Unsaved,
               s.phase \in Unsaved => k.phase \in Unsaved
        PROVE  Unwritten(calls[c], executions[c])'
    <2>1. \A m \in Numbers : m > n => m >= n
      BY <1>1
    <2>2. \A m \in Numbers : m > n => rows[m] = None
      BY <1>7, <2>1 DEF Unwritten
    <2>3. s.phase \in Unsaved => \A m \in Numbers : m >= n => rows[m] = None
      BY <1>7 DEF Unwritten
    <2>4. s.phase # "idle"
      BY <1>7 DEF InLoop, Unsaved
    <2>5. Unwritten(s, rows)
      BY <1>7, <2>2, <2>3, <2>4 DEF Unwritten
    <2> QED
      BY <1>2, <1>7, <2>5
  <1>8. ASSUME Prepare(c) PROVE Unwritten(calls[c], executions[c])'
    <2>1. PICK s \in Call :
             /\ Moves(c, s)
             /\ (s.phase = AfterPrepare(c) /\ SameHand(s, calls[c])) \/ s = Dead(c)
      BY <1>8, PrepareIs
    <2>2. CASE s.phase = AfterPrepare(c) /\ SameHand(s, calls[c])
      <3>1. s.phase \in {"start", "apply"} /\ s.number = n
        BY <2>2 DEF AfterPrepare, SameHand
      <3>2. k.phase = "prepare" /\ executions' = executions
        BY <1>8 DEF Prepare, At
      <3> QED
        BY <1>7, <2>1, <3>1, <3>2 DEF Unsaved, Moves
    <2> QED
      BY <1>5, <2>1, <2>2 DEF Moves
  <1>9. ASSUME Start(c) PROVE Unwritten(calls[c], executions[c])'
    <2>1. PICK s \in Call :
             /\ Moves(c, s)
             /\ (s.phase = "generate" /\ SameHand(s, calls[c])) \/ s = Dead(c)
      BY <1>9, StartIs
    <2>2. k.phase = "start" /\ executions' = executions
      BY <1>9 DEF Start, At
    <2>3. CASE s.phase = "generate" /\ SameHand(s, calls[c])
      BY <1>7, <2>1, <2>2, <2>3 DEF Unsaved, Moves, SameHand
    <2> QED
      BY <1>5, <2>1, <2>3 DEF Moves
  <1>10. ASSUME Generate(c) PROVE Unwritten(calls[c], executions[c])'
    <2>1. PICK s \in Call :
             Moves(c, s) /\ s.number = calls[c].number /\ s.phase \in {"apply", "attempt"}
      BY <1>10, GenerateIs
    <2>2. k.phase = "generate" /\ executions' = executions
      BY <1>10 DEF Generate, At
    <2> QED
      BY <1>7, <2>1, <2>2 DEF Unsaved, Moves, InLoop
  <1>11. ASSUME Apply(c) PROVE Unwritten(calls[c], executions[c])'
    <2>1. PICK s \in Call :
             Moves(c, s) /\ s.number = k.number /\ s.phase \in {"apply", "execution"}
      BY <1>11, ApplyIs
    <2>2. k.phase = "apply" /\ executions' = executions
      BY <1>11 DEF Apply, At, tables
    <2> QED
      BY <1>7, <2>1, <2>2 DEF Unsaved, Moves
  <1>12. ASSUME Verify(c) PROVE Unwritten(calls[c], executions[c])'
    <2>1. PICK s \in Call :
             Moves(c, s) /\ s.number = k.number /\ s.phase \in {"verify", "verification"}
      BY <1>12, VerifyIs
    <2>2. k.phase = "verify" /\ executions' = executions
      BY <1>12 DEF Verify, At, tables
    <2> QED
      BY <1>7, <2>1, <2>2 DEF Unsaved, InLoop, Moves
  <1>13. ASSUME SaveVerification(c) PROVE Unwritten(calls[c], executions[c])'
    <2>1. PICK s \in Call :
             /\ Moves(c, s)
             /\ \/ s.phase \in {"use", "done"}
                \/ s.phase = "attempt" /\ s.number = calls[c].number
                \/ s = Dead(c)
      BY <1>13, SaveVerificationIs DEF Finishes
    <2>2. k.phase = "verification" /\ executions' = executions
      BY <1>13 DEF SaveVerification, At
    <2>3. CASE s.phase = "attempt" /\ s.number = n
      BY <1>7, <2>1, <2>2, <2>3 DEF Unsaved, InLoop, Moves
    <2> QED
      BY <1>2, <1>3, <1>5, <2>1, <2>3 DEF Moves
  <1>14. ASSUME SaveAttempt(c) PROVE Unwritten(calls[c], executions[c])'
    <2>1. PICK s \in Call :
             Moves(c, s) /\ ((s.phase = "save" /\ s.number = calls[c].number) \/ s = Dead(c))
      BY <1>14, SaveAttemptIs
    <2>2. k.phase = "attempt" /\ executions' = executions
      BY <1>14 DEF SaveAttempt, At
    <2>3. CASE s.phase = "save" /\ s.number = n
      BY <1>7, <2>1, <2>2, <2>3 DEF Unsaved, InLoop, Moves
    <2> QED
      BY <1>5, <2>1, <2>3 DEF Moves
  <1>15. ASSUME SaveAutofix(c) PROVE Unwritten(calls[c], executions[c])'
    <2>1. PICK s \in Call :
             /\ Moves(c, s)
             /\ \/ s.phase = "generate" /\ s.number = calls[c].number + 1
                \/ s.phase \in {"use", "done"}
                \/ s = Dead(c)
      BY <1>15, SaveAutofixIs DEF Finishes
    <2>2. k.phase = "save" /\ executions' = executions
      BY <1>15 DEF SaveAutofix, At
    <2>3. CASE s.phase = "generate" /\ s.number = n + 1
      <3>1. \A m \in Numbers : m > n => rows[m] = None
        BY <2>2 DEF Unwritten, InLoop, Unsaved
      <3>2. \A m \in Numbers : m >= n + 1 => m > n
        BY <1>1
      <3>3. Unwritten(s, rows)
        BY <2>3, <3>1, <3>2 DEF Unwritten, InLoop, Unsaved
      <3> QED
        BY <1>2, <2>1, <2>2, <3>3 DEF Moves
    <2> QED
      BY <1>2, <1>3, <1>5, <2>1, <2>3 DEF Moves
  <1>16. ASSUME MarkUsed(c) PROVE Unwritten(calls[c], executions[c])'
    <2>1. PICK s \in Call : Moves(c, s) /\ (s.phase \in {"use", "done"} \/ s = Dead(c))
      BY <1>16, MarkUsedIs DEF Finishes
    <2> QED
      BY <1>2, <1>3, <1>5, <2>1 DEF Moves
  <1>17. ASSUME SaveExecution(c) PROVE Unwritten(calls[c], executions[c])'
    <2>1. PICK s \in Call :
             /\ Moves(c, s)
             /\ \/ s.phase \in {"use", "done"}
                \/ /\ s.phase \in {"verify", "attempt"} /\ s.number = calls[c].number
                   /\ executions' = [executions EXCEPT ![c][calls[c].number] = NewExecution(c)]
                \/ /\ s.phase \in {"execution", "attempt"} /\ s.number = calls[c].number
                   /\ executions' = executions
                \/ s = Dead(c)
      BY <1>17, SaveExecutionIs DEF Finishes
    <2>2. k.phase = "execution"
      BY <1>17 DEF SaveExecution, At
    <2>3. CASE s.phase \in {"execution", "attempt"} /\ s.number = n /\ executions' = executions
      BY <1>7, <2>1, <2>2, <2>3 DEF Unsaved, InLoop, Moves
    <2>4. CASE /\ s.phase \in {"verify", "attempt"} /\ s.number = n
               /\ executions' = [executions EXCEPT ![c][n] = NewExecution(c)]
      <3>1. \A m \in Numbers : m # n => executions'[c][m] = rows[m]
        BY <1>1, <2>4
      <3>2. \A m \in Numbers : m > n => m >= n /\ m # n
        <4>1. n \in Nat /\ Numbers \subseteq Nat
          BY <1>1
        <4> HIDE DEF n
        <4> QED
          BY <4>1
      <3>3. \A m \in Numbers : m > n => executions'[c][m] = None
        BY <2>2, <3>1, <3>2 DEF Unwritten, Unsaved
      <3>4. Unwritten(s, executions'[c])
        BY <2>4, <3>3 DEF Unwritten, Unsaved
      <3> QED
        BY <1>2, <2>1, <3>4 DEF Moves
    <2> QED
      BY <1>2, <1>3, <1>5, <2>1, <2>3, <2>4 DEF Moves
  <1>18. ASSUME Die(c) PROVE Unwritten(calls[c], executions[c])'
    BY <1>5, <1>18, DieIs DEF Moves
  <1>19. CASE ~Begin(c) /\ ~Step(c) /\ ~Die(c)
    BY <1>19, Unmoved
  <1> QED
    BY <1>6, <1>8, <1>9, <1>10, <1>11, <1>12, <1>13, <1>14, <1>15, <1>16, <1>17, <1>18, <1>19,
       Zenon DEF Step

LEMMA HeldKept ==
    ASSUME TypeInv, [Next]_vars, OneText, Recorded(proposals), NEW c \in Calls,
           Held(calls[c], proposals)
    PROVE  Held(calls[c], proposals)'
  <1> DEFINE k == calls[c]
  <1>1. k \in Call /\ CallInv(c, k, runs)
    BY TablesTyped
  <1>2. ASSUME NEW s, Becomes(c, s), Held(s, proposals') PROVE Held(calls[c], proposals)'
    BY <1>2, MovesIs
  <1>3. ASSUME NEW s, s.phase \notin Applying PROVE \A texts : Held(s, texts)
    BY <1>3 DEF Held
  <1>4. ASSUME NEW s, s.phase \in Applying, k.phase \in Applying, s.patch = k.patch,
               s.kind = k.kind,
               \A p \in s.changed : p \in k.changed \/
                 \E i \in DOMAIN k.patch.ops : k.patch.ops[i].path = p
        PROVE  Held(s, proposals')
    <2>1. k.patch \in Patches
      BY <1>1, <1>4 DEF CallInv, Applying
    <2>2. proposals[k.patch.id] # None => proposals'[k.patch.id] # None
      BY <2>1, PatchTyped, ProposalsKept
    <2> QED
      BY <1>4, <2>2 DEF Held
  <1>5. CASE calls'[c] = k
    <2>1. k.phase \in Applying => Held(k, proposals')
      BY <1>4
    <2>2. Held(k, proposals')
      BY <2>1 DEF Held
    <2> QED
      BY <1>5, <2>2
  <1>6. ASSUME Begin(c) PROVE Held(calls[c], proposals)'
    <2>1. PICK s \in Call :
            /\ Becomes(c, s)
            /\ s.phase \in {"prepare", "apply"} /\ s.kind # "patch"
                 => s.phase = "prepare" /\ s.kind = "autofix"
            /\ s.phase \in {"prepare", "start", "apply", "verify"} /\ s.changed = {}
      BY <1>6, BeginIs, Zenon
    <2>2. Held(s, proposals')
      BY <2>1 DEF Held, Applying
    <2> QED
      BY <1>2, <2>1, <2>2
  <1>7. ASSUME Prepare(c) PROVE Held(calls[c], proposals)'
    <2>1. PICK s \in Call :
             /\ Moves(c, s)
             /\ (s.phase = AfterPrepare(c) /\ SameHand(s, calls[c])) \/ s = Dead(c)
      BY <1>7, PrepareIs
    <2>2. CASE s = Dead(c)
      BY <1>1, <1>2, <1>3, <2>1, <2>2, DeadIs DEF Applying, Moves
    <2>3. CASE s.phase = AfterPrepare(c) /\ SameHand(s, k)
      <3>1. k.changed = {}
        BY <1>1, <1>7 DEF CallInv, Prepare, At
      <3>2. s.changed = {} /\ s.kind = k.kind /\ (s.phase = "apply" => k.kind # "autofix")
            /\ s.phase \in {"start", "apply"}
        BY <2>1, <2>3, <3>1 DEF SameHand, AfterPrepare, Moves
      <3>3. Held(s, proposals')
        BY <3>2 DEF Held, Applying
      <3> QED
        BY <1>2, <2>1, <3>3 DEF Moves
    <2> QED
      BY <2>1, <2>2, <2>3
  <1>8. ASSUME Generate(c) PROVE Held(calls[c], proposals)'
    <2>1. PICK s \in Call :
             /\ Moves(c, s) /\ FoundIn(calls[c].run, runs) /\ s.changed = calls[c].changed
             /\ \/ \E patch \in PatchesOf[c] :
                     /\ s.phase = "apply" /\ s.patch = patch
                     /\ proposals' = [proposals EXCEPT ![patch.id] =
                                        [run |-> calls[c].run, ops |-> patch.ops]]
                \/ s.phase = "attempt"
      BY <1>8, GenerateIs
    <2>2. CASE s.phase = "attempt"
      BY <1>2, <1>3, <2>1, <2>2 DEF Applying, Moves
    <2>3. ASSUME NEW patch \in PatchesOf[c], s.phase = "apply", s.patch = patch,
                 proposals' = [proposals EXCEPT ![patch.id] =
                                 [run |-> calls[c].run, ops |-> patch.ops]]
          PROVE  Held(calls[c], proposals)'
      <3> DEFINE row == [run |-> k.run, ops |-> patch.ops]
      <3>1. k.changed = {}
        BY <1>1, <1>8 DEF CallInv, Generate, At
      <3>2. patch \in Patches /\ patch.id \in Ids /\ patch.ops \in {p.ops : p \in Patches}
        BY OwnPatch, PatchTyped
      <3>3. row \in Proposal
        BY <1>1, <2>1, <3>2 DEF Proposal, Call, OrNone, FoundIn
      <3>4. proposals'[patch.id] = row
        BY <2>3, <3>2, TablesTyped DEF TablesOK
      <3>5. proposals'[s.patch.id] # None
        BY <2>3, <3>3, <3>4, NoneAssumption
      <3>6. Held(s, proposals')
        BY <2>1, <3>1, <3>5 DEF Held
      <3> QED
        BY <1>2, <2>1, <3>6 DEF Moves
    <2> QED
      BY <2>1, <2>2, <2>3
  <1>9. ASSUME Apply(c) PROVE Held(calls[c], proposals)'
    <2>1. PICK s \in Call :
             /\ Moves(c, s) /\ k.phase = "apply" /\ s.patch = k.patch
             /\ s.phase \in {"apply", "execution"}
             /\ \/ /\ \E i \in DOMAIN k.patch.ops : k.patch.ops[i] = Operation(c)
                   /\ s.changed \subseteq k.changed \cup {Operation(c).path}
                \/ s.changed = k.changed
      BY <1>9, ApplyIs
    <2>2. \A p \in s.changed : p \in k.changed \/
                 \E i \in DOMAIN k.patch.ops : k.patch.ops[i].path = p
      BY <2>1
    <2>3. s.kind = k.kind
      BY <2>1 DEF Moves
    <2>4. Held(s, proposals')
      BY <1>4, <2>1, <2>2, <2>3 DEF Applying
    <2> QED
      BY <1>2, <2>1, <2>4 DEF Moves
  <1>10. ASSUME SaveExecution(c) PROVE Held(calls[c], proposals)'
    <2>1. PICK s \in Call :
             /\ Moves(c, s) /\ calls[c].phase = "execution"
             /\ \/ s.phase \in {"use", "done", "verify", "attempt"}
                \/ /\ s.phase = "execution" /\ s.patch = calls[c].patch
                   /\ s.changed = calls[c].changed
                \/ s = Dead(c)
      BY <1>10, SaveExecutionIs DEF Finishes
    <2>2. CASE s.phase = "execution" /\ s.patch = k.patch /\ s.changed = k.changed
      <3>1. s.kind = k.kind
        BY <2>1 DEF Moves
      <3>2. Held(s, proposals')
        BY <1>4, <2>1, <2>2, <3>1 DEF Applying
      <3> QED
        BY <1>2, <2>1, <3>2 DEF Moves
    <2>3. CASE s = Dead(c)
      BY <1>1, <1>2, <1>3, <2>1, <2>3, DeadIs DEF Applying, Moves
    <2>4. CASE s.phase \in {"use", "done", "verify", "attempt"}
      BY <1>2, <1>3, <2>1, <2>4 DEF Applying, Moves
    <2> QED
      BY <2>1, <2>2, <2>3, <2>4
  <1>11. ASSUME Step(c) \/ Die(c), ~Prepare(c), ~Generate(c), ~Apply(c), ~SaveExecution(c)
         PROVE  Held(calls[c], proposals)'
    <2>1. \E z \in Call : Moves(c, z) /\ z.phase \notin Applying
      <3>1. Dead(c).phase \notin Applying
        BY <1>1, DeadIs DEF Applying
      <3>2. CASE Start(c)
        BY <3>1, <3>2, StartIs DEF Applying
      <3>3. CASE Verify(c)
        <4>1. PICK z \in Call : Moves(c, z) /\ z.phase \in {"verify", "verification"}
          BY <3>3, VerifyIs
        <4> QED
          BY <4>1 DEF Applying
      <3>4. CASE SaveVerification(c)
        <4>1. PICK z \in Call : Moves(c, z)
                 /\ (z.phase \in {"use", "done", "attempt"} \/ z = Dead(c))
          BY <3>4, SaveVerificationIs DEF Finishes
        <4> QED
          BY <3>1, <4>1 DEF Applying
      <3>5. CASE SaveAttempt(c)
        <4>1. PICK z \in Call : Moves(c, z) /\ (z.phase = "save" \/ z = Dead(c))
          BY <3>5, SaveAttemptIs
        <4> QED
          BY <3>1, <4>1 DEF Applying
      <3>6. CASE SaveAutofix(c)
        <4>1. PICK z \in Call : Moves(c, z)
                 /\ (z.phase \in {"use", "done", "generate"} \/ z = Dead(c))
          BY <3>6, SaveAutofixIs DEF Finishes
        <4> QED
          BY <3>1, <4>1 DEF Applying
      <3>7. CASE MarkUsed(c)
        <4>1. PICK z \in Call : Moves(c, z) /\ (z.phase \in {"use", "done"} \/ z = Dead(c))
          BY <3>7, MarkUsedIs DEF Finishes
        <4> QED
          BY <3>1, <4>1 DEF Applying
      <3>8. CASE Die(c)
        BY <3>1, <3>8, DieIs
      <3> QED
        BY <1>11, <3>2, <3>3, <3>4, <3>5, <3>6, <3>7, <3>8, Zenon DEF Step
    <2> QED
      BY <1>2, <1>3, <2>1 DEF Moves
  <1> QED
    BY <1>5, <1>6, <1>7, <1>8, <1>9, <1>10, <1>11, Unmoved

(* A file that comes to differ is told of by who changed it.               *)
LEMMA ChangesTold ==
    ASSUME TypeInv, AttemptInv, Receipts, OneText, [Next]_vars,
           NEW s \in Places, NEW p \in Paths, trees'[s][p] \notin {BaseFiles[p], Absent}
    PROVE  ToldFor(s, p)' \/ ToldFor(Repo, p)'
  <1>1. Repo \in Places /\ trees \in [Places -> Tree]
    BY TablesTyped DEF Places, TablesOK
  <1>2. ASSUME NEW z \in {s, Repo}, trees[z][p] \notin {BaseFiles[p], Absent}
        PROVE  ToldFor(s, p)' \/ ToldFor(Repo, p)'
    <2>1. ToldFor(z, p) \/ ToldFor(Repo, p)
      BY <1>1, <1>2 DEF Receipts
    <2>2. ToldFor(z, p)' \/ ToldFor(Repo, p)'
      BY <1>1, <2>1, ToldKept
    <2> QED
      BY <1>2, <2>2
  <1>3. CASE trees'[s][p] = trees[s][p]
    BY <1>2, <1>3
  <1>4. ASSUME NEW c \in Calls, Prepare(c) PROVE ToldFor(s, p)' \/ ToldFor(Repo, p)'
    <2>1. /\ c \in Sandboxed
          /\ trees' \in {trees, [trees EXCEPT ![c] = Materialized]}
      BY <1>4, PrepareIs, Zenon
    <2>2. CASE trees' = [trees EXCEPT ![c] = Materialized] /\ s = c
      <3>1. trees'[s] = Materialized
        BY <1>1, <2>2
      <3>2. Materialized[p] \in {BaseFiles[p], Absent, trees[Repo][p]}
        BY DEF Materialized
      <3> QED
        BY <1>2, <3>1, <3>2
    <2>3. CASE trees' = [trees EXCEPT ![c] = Materialized] /\ s # c
      BY <1>1, <1>3, <2>3
    <2> QED
      BY <1>3, <2>1, <2>2, <2>3
  <1>5. ASSUME NEW c \in Calls, Apply(c) PROVE ToldFor(s, p)' \/ ToldFor(Repo, p)'
    <2> DEFINE k == calls[c]
    <2>1. PICK z \in Call :
             LET op == Operation(c)
                 tree == trees[k.place]
                 after == AfterText(op, tree[op.path])
             IN
             /\ Moves(c, z)
             /\ \/ /\ op.path \in Paths
                   /\ trees' = IF k.mode = "apply"
                               THEN [trees EXCEPT ![k.place][op.path] = after] ELSE trees
                   /\ z.changed = IF after # tree[op.path] THEN k.changed \cup {op.path}
                                  ELSE k.changed
                   /\ z.phase \in {"apply", "execution"}
                \/ trees' = trees
      BY <1>5, ApplyIs
    <2> DEFINE path == Operation(c).path
               after == AfterText(Operation(c), trees[k.place][path])
    <2>2. CASE trees' = trees
      BY <1>3, <2>2
    <2>3. ASSUME path \in Paths, k.mode = "apply",
                 trees' = [trees EXCEPT ![k.place][path] = after],
                 z.changed = IF after # trees[k.place][path] THEN k.changed \cup {path}
                             ELSE k.changed,
                 z.phase \in {"apply", "execution"}
          PROVE  ToldFor(s, p)' \/ ToldFor(Repo, p)'
      <3>1. k.place \in Places /\ trees[k.place] \in Tree
        BY <1>1, TablesTyped DEF Call
      <3>2. CASE k.place = s /\ path = p /\ after # trees[s][p]
        <4>1. z.place = s /\ z.mode = "apply" /\ p \in z.changed /\ calls'[c] = z
          BY <2>1, <2>3, <3>2, MovesIs DEF Moves
        <4>2. ByLiveCall(s, p)'
          BY <2>3, <4>1 DEF ByLiveCall, Users, At, Applying
        <4> QED
          BY <4>2 DEF ToldFor
      <3>3. CASE ~(k.place = s /\ path = p /\ after # trees[s][p])
        <4> HIDE DEF k, path, after
        <4>1. trees'[s][p] = trees[s][p]
          BY <1>1, <2>3, <3>1, <3>3 DEF Tree
        <4> QED
          BY <1>3, <4>1
      <3> QED
        BY <3>2, <3>3
    <2> QED
      BY <2>1, <2>2, <2>3
  <1>6. ASSUME NEW c \in Calls, Begin(c) \/ Step(c) \/ Die(c), ~Prepare(c), ~Apply(c)
        PROVE  trees' = trees
    BY <1>6, Zenon DEF Begin, Step, Die, Start, Generate, SaveExecution, Verify,
       SaveVerification, SaveAttempt, SaveAutofix, MarkUsed, tables
  <1>7. ASSUME NEW r \in Runs, Plan(r) PROVE trees' = trees
    BY <1>7 DEF Plan
  <1>8. ASSUME NEW x \in Sandboxed, CleanUp(x) PROVE trees'[s][p] = trees[s][p]
    <2>1. trees' = [trees EXCEPT ![x] = Nothing]
      BY <1>8 DEF CleanUp
    <2>2. s # x
      BY <1>1, <2>1 DEF Nothing
    <2> QED
      BY <1>1, <2>1, <2>2
  <1>9. ASSUME UNCHANGED vars PROVE trees' = trees
    BY <1>9 DEF vars
  <1>10. \/ \E r \in Runs : Plan(r)
         \/ \E c \in Calls : Begin(c) \/ Step(c) \/ Die(c)
         \/ \E x \in Sandboxed : CleanUp(x)
         \/ UNCHANGED vars
    BY Zenon DEF Next
  <1> QED
    BY <1>3, <1>4, <1>5, <1>6, <1>7, <1>8, <1>9, <1>10

LEMMA ReceiptStep ==
    ASSUME TypeInv, AttemptInv, ReceiptInv, [Next]_vars
    PROVE  ReceiptInv'
  <1> SUFFICES ASSUME OneText PROVE Receipts'
    BY DEF ReceiptInv
  <1>1. Receipts
    BY DEF ReceiptInv
  <1>2. \A s \in Places, p \in Paths :
          trees'[s][p] \notin {BaseFiles[p], Absent} => ToldFor(s, p)' \/ ToldFor(Repo, p)'
    BY <1>1, ChangesTold
  <1>3. \A c \in Calls : Unwritten(calls[c], executions[c])' /\ Held(calls[c], proposals)'
    BY <1>1, UnwrittenKept, HeldKept DEF Receipts
  <1>4. Recorded(proposals')
    BY <1>1, ProposalsKept DEF Receipts
  <1> QED
    BY <1>2, <1>3, <1>4 DEF Receipts

LEMMA ReceiptInit == Init => Receipts
  <1> SUFFICES ASSUME Init PROVE Receipts
    OBVIOUS
  <1>1. \A s \in Places, p \in Paths : trees[s][p] \in {BaseFiles[p], Absent}
    BY DEF Init, Nothing
  <1>2. \A c \in Calls : calls[c] = IdleCall /\ \A m \in Numbers : executions[c][m] = None
    BY DEF Init
  <1>3. IdleCall.phase = "idle"
    BY IdleTyped
  <1> HIDE DEF IdleCall
  <1>4. \A c \in Calls : Unwritten(calls[c], executions[c]) /\ Held(calls[c], proposals)
    BY <1>2, <1>3 DEF Unwritten, Unsaved, InLoop, Held, Applying
  <1>5. Recorded(proposals)
    <2>1. \A patch \in Patches : patch.id \in Ids
      BY PatchTyped
    <2> QED
      BY <2>1 DEF Init, Recorded
  <1> QED
    BY <1>1, <1>4, <1>5 DEF Receipts

(* Whatever differs from the commit, in the repository or in a sandbox, is *)
(* told by an execution, by the call that changed it, or by an attempt     *)
(* that names its proposal: after steps that fail, saves that fail twice   *)
(* and deaths.  An execution's row is never written over; a proposal's is  *)
(* by one of the same id, and then only one of the same text tells.        *)
THEOREM ReceiptsTell == Spec => []ReceiptsTellChanges
  <1>1. ReceiptInv => ReceiptsTellChanges
    <2> SUFFICES ASSUME Receipts, NEW s \in Places, NEW p \in Paths, ToldFor(s, p)
                 PROVE  Told(s, p)
      BY DEF ReceiptInv, ReceiptsTellChanges, Receipts, Places
    <2>1. CASE ByExecution(s, p)
      BY <2>1 DEF Told
    <2>2. CASE ByLiveCall(s, p)
      BY <2>2 DEF Told, ByLiveCall, ByCall
    <2>3. CASE ByAttempt(s, p)
      <3>1. PICK c \in Users(s) : \E try \in TriesOf(c) :
              try.execution = None /\ Touches(try.proposal, p)
        BY <2>3 DEF ByAttempt
      <3>2. PICK try \in TriesOf(c) : try.execution = None /\ Touches(try.proposal, p)
        BY <3>1
      <3>3. try \in Untold(c)
        BY <3>2 DEF Untold, TriesOf
      <3> QED
        BY <3>2, <3>3 DEF Told, ByProposal, Touches
    <2> QED
      BY <2>1, <2>2, <2>3 DEF ToldFor
  <1>2. Init => ReceiptInv
    BY ReceiptInit DEF ReceiptInv
  <1>3. TypeInv /\ AttemptInv /\ ReceiptInv /\ [Next]_vars => ReceiptInv'
    BY ReceiptStep
  <1> QED
    BY <1>1, <1>2, <1>3, AttemptsKept, TypesKept, PTL DEF Spec

=============================================================================
