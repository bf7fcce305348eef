----------------------------- MODULE AuditProofs -----------------------------
(***************************************************************************)
(* What Urielle is told of a tenant's events, for every number of events,  *)
(* workflows and tenants, and every limit of the store.                    *)
(***************************************************************************)
EXTENDS Audit, EventStoreProofs

-----------------------------------------------------------------------------
(***************************************************************************)
(* The maps of the event store                                             *)
(***************************************************************************)

\* They stay in step behind Urielle's back, however often an output is stored.
LEMMA AuditKeepsFlow ==
  ASSUME FlowInStep, [AuditNext]_auditVars
  PROVE  FlowInStep'
<1>1. CASE Store
  <2>1. [Next]_vars
    BY <1>1 DEF Next
  <2> QED  BY <2>1, FlowNext
<1>2. CASE UNCHANGED <<store, outputs, client>>
  <2>1. [Next]_vars
    BY <1>2 DEF vars
  <2> QED  BY <2>1, FlowNext
<1> QED
  BY <1>1, <1>2 DEF AuditNext, FetchRecords, FetchSummary, FetchOthers, auditVars

LEMMA FlowAlways == AuditSpec => []FlowInStep
<1>1. AuditInit => FlowInStep
  BY FlowInit DEF AuditInit
<1>2. FlowInStep /\ [AuditNext]_auditVars => FlowInStep'
  BY AuditKeepsFlow
<1> QED  BY <1>1, <1>2, PTL DEF AuditSpec

\* What a tenant reads of a workflow.
LEMMA SequenceType ==
  ASSUME NEW s, FlowOK(s), NEW w \in Workflows
  PROVE  getSequence(s, Auditee, w) \in Seq(EventRecord)
<1>1. s.byFlow[w] \in Seq(EventRecord)
  BY DEF FlowOK
<1> QED  BY <1>1, FilterResult DEF getSequence

-----------------------------------------------------------------------------
(***************************************************************************)
(* The classification of a sequence                                        *)
(***************************************************************************)

\* What a block has more than a downgrade: of the rank, and of its square.
Gains == {1, 3}

\* Numbers that are 1, or 1 + d for the elements of B.
Weighs(tally, S, B, d) == \A i \in S : tally[i] = IF i \in B THEN 1 + d ELSE 1

\* Their sum.
LEMMA WeightedSum ==
  ASSUME NEW tally, NEW S, IsFiniteSet(S), NEW B, NEW d \in Gains, Weighs(tally, S, B, d)
  PROVE  SumOver(tally, S) = Cardinality(S) + d * Cardinality(S \cap B)
<1>1. PICK f : IsSum(tally, S, f) /\ SumOver(tally, S) = f[S]
  BY SumSums
<1>2. \A sub \in SUBSET S : f[sub] = TallyStep(tally, f, sub)
  BY <1>1 DEF IsSum
<1>3. \A sub \in SUBSET S : /\ IsFiniteSet(sub) /\ Cardinality(sub) \in Nat
                            /\ IsFiniteSet(sub \cap B) /\ Cardinality(sub \cap B) \in Nat
  <2> SUFFICES ASSUME NEW sub \in SUBSET S
               PROVE  /\ IsFiniteSet(sub) /\ Cardinality(sub) \in Nat
                      /\ IsFiniteSet(sub \cap B) /\ Cardinality(sub \cap B) \in Nat
    OBVIOUS
  <2>1. IsFiniteSet(sub) /\ IsFiniteSet(sub \cap B)
    BY FS_Subset
  <2> QED  BY <2>1, FS_CardinalityType
<1> DEFINE Counts(sub) == f[sub] = Cardinality(sub) + d * Cardinality(sub \cap B)
           Bad == {n \in Nat : \E sub \in SUBSET S : Cardinality(sub) = n /\ ~Counts(sub)}
<1>4. Bad = {}
  <2> SUFFICES ASSUME Bad # {} PROVE FALSE
    OBVIOUS
  <2>1. PICK x \in Bad : \A y \in Bad : x <= y
    <3>1. Bad \subseteq Nat
      OBVIOUS
    <3> HIDE DEF Bad
    <3> QED  BY <3>1, LeastNumber
  <2>2. PICK sub \in SUBSET S : Cardinality(sub) = x /\ ~Counts(sub)
    OBVIOUS
  <2>3. CASE sub = {}
    <3>1. f[sub] = 0 /\ sub \cap B = {}
      BY <1>2, <2>3 DEF TallyStep
    <3>2. Cardinality(sub) = 0 /\ Cardinality(sub \cap B) = 0
      BY <2>3, <3>1, FS_EmptySet
    <3>3. d * 0 = 0
      BY DEF Gains
    <3> QED  BY <2>2, <3>1, <3>2, <3>3
  <2>4. CASE sub # {}
    <3> DEFINE k == CHOOSE k \in sub : TRUE
               rest == sub \ {k}
    <3>1. k \in sub /\ k \in S
      BY <2>4
    <3>2. f[sub] = tally[k] + f[rest]
      BY <1>2, <2>4 DEF TallyStep
    <3> HIDE DEF k
    <3>3. rest \in SUBSET S /\ Cardinality(rest) = Cardinality(sub) - 1
      <4>1. IsFiniteSet(sub)
        BY <1>3
      <4>2. Cardinality(sub \ {k}) = Cardinality(sub) - 1
        BY <3>1, <4>1, FS_RemoveElement
      <4> QED  BY <4>2
    <3>4. Counts(rest)
      <4>1. Cardinality(rest) \in Nat /\ Cardinality(rest) < x
        <5>1. Cardinality(sub) = x /\ x \in Nat
          BY <2>2
        <5> HIDE DEF rest
        <5>2. Cardinality(rest) \in Nat /\ Cardinality(rest) = Cardinality(sub) - 1
          BY <1>3, <3>3
        <5> QED  BY <5>1, <5>2
      <4>2. Cardinality(rest) \notin Bad
        <5>1. x \in Nat
          OBVIOUS
        <5> HIDE DEF Bad, rest
        <5> QED  BY <2>1, <4>1, <5>1
      <4> QED  BY <3>3, <4>1, <4>2
    <3>5. Cardinality(rest \cap B)
            = IF k \in B THEN Cardinality(sub \cap B) - 1 ELSE Cardinality(sub \cap B)
      <4>1. CASE k \in B
        <5>1. rest \cap B = (sub \cap B) \ {k} /\ k \in sub \cap B
          BY <3>1, <4>1
        <5>2. Cardinality((sub \cap B) \ {k}) = Cardinality(sub \cap B) - 1
          <6> DEFINE some == sub \cap B
          <6>1. IsFiniteSet(some) /\ k \in some
            BY <1>3, <5>1
          <6> HIDE DEF some
          <6>2. Cardinality(some \ {k}) = Cardinality(some) - 1
            BY <6>1, FS_RemoveElement
          <6> QED  BY <6>2 DEF some
        <5> QED  BY <4>1, <5>1, <5>2
      <4>2. CASE k \notin B
        <5>1. rest \cap B = sub \cap B
          BY <4>2
        <5> QED  BY <4>2, <5>1
      <4> QED  BY <4>1, <4>2
    <3>6. tally[k] = IF k \in B THEN 1 + d ELSE 1
      BY <3>1 DEF Weighs
    <3>7. Counts(sub)
      <4>1. Cardinality(sub) \in Nat /\ Cardinality(sub \cap B) \in Nat
        BY <1>3
      <4>2. f[rest] = Cardinality(rest) + d * Cardinality(rest \cap B)
        BY <3>4
      <4> HIDE DEF rest
      <4>3. CASE d = 1
        BY <3>2, <3>3, <3>5, <3>6, <4>1, <4>2, <4>3
      <4>4. CASE d = 3
        BY <3>2, <3>3, <3>5, <3>6, <4>1, <4>2, <4>4
      <4> QED  BY <4>3, <4>4 DEF Gains
    <3> QED  BY <2>2, <3>7
  <2> QED  BY <2>3, <2>4
<1>5. Cardinality(S) \in Nat /\ S \in SUBSET S
  BY <1>3
<1>6. Counts(S)
  <2>1. Cardinality(S) \notin Bad
    BY <1>4
  <2> QED  BY <1>5, <2>1
<1> QED  BY <1>1, <1>6

\* With 1 for a downgrade and 2 for a block, four times the spread is at most n * n.
LEMMA SpreadOfTwo ==
  ASSUME NEW n \in Nat, NEW b \in Nat, b <= n
  PROVE  LET spread == n * (n + 3 * b) - (n + b) * (n + b)
         IN  spread \in Int /\ 4 * spread <= n * n
<1>1. /\ n * (n + 3 * b) = n * n + 3 * (n * b)
      /\ (n + b) * (n + b) = n * n + 2 * (n * b) + b * b
  OBVIOUS
<1>2. (n - 2 * b) * (n - 2 * b) = n * n - 4 * (n * b) + 4 * (b * b)
  OBVIOUS
<1>3. (n - 2 * b) * (n - 2 * b) >= 0
  <2> DEFINE z == n - 2 * b
  <2>1. z \in Int
    OBVIOUS
  <2> HIDE DEF z
  <2>2. z * z >= 0
    <3>1. CASE z >= 0
      BY <2>1, <3>1
    <3>2. CASE z < 0
      BY <2>1, <3>2
    <3> QED  BY <2>1, <3>1, <3>2
  <2> QED  BY <2>2 DEF z
<1>4. n * n \in Int /\ n * b \in Int /\ b * b \in Int
  OBVIOUS
<1> QED  BY <1>1, <1>2, <1>3, <1>4

\* A quotient is as large as a factor that fits.
LEMMA QuotientAtLeast ==
  ASSUME NEW a \in Int, NEW b \in Nat, b > 0, a >= 80 * b
  PROVE  a \div b \in Int /\ a \div b >= 80
<1> DEFINE q == a \div b
<1>1. q \in Int /\ a = b * q + (a % b) /\ (a % b) \in 0 .. b - 1
  OBVIOUS
<1> HIDE DEF q
<1>2. ASSUME q <= 79 PROVE FALSE
  <2>1. b * q <= b * 79
    BY <1>1, <1>2
  <2>2. b * q \in Int
    BY <1>1
  <2> QED  BY <1>1, <2>1, <2>2
<1>3. q >= 80
  BY <1>1, <1>2
<1> QED  BY <1>1, <1>3 DEF q

\* The events that are stored are downgrades and blocks, of rank 1 and 2.
LEMMA RanksOf ==
  ASSUME NEW records \in Seq(EventRecord)
  PROVE  LET ranks == EGS!Ranks(records)
         IN  /\ ranks \in Seq({1, 2}) /\ Len(ranks) = Len(records)
             /\ \A i \in 1 .. Len(records) :
                  /\ records[i].kind.action \in {"DOWNGRADE", "BLOCK"}
                  /\ ranks[i] = IF records[i].kind.action = "BLOCK" THEN 2 ELSE 1
<1> DEFINE ranks == EGS!Ranks(records)
           n == Len(records)
<1>1. EGS!ACTION_RANK["DOWNGRADE"] = 1 /\ EGS!ACTION_RANK["BLOCK"] = 2
  BY DEF EGS!ACTION_RANK, EGS!Actions
<1>2. ranks = [i \in 1 .. n |-> EGS!ACTION_RANK[records[i].kind.action]] /\ n \in Nat
  BY DEF EGS!Ranks
<1>3. ASSUME NEW i \in 1 .. n PROVE records[i].kind.action \in {"DOWNGRADE", "BLOCK"}
  <2>1. records[i] \in EventRecord
    OBVIOUS
  <2>2. records[i].kind \in Kinds
    BY <2>1 DEF EventRecord
  <2> QED  BY <2>2, AuditAssumption
<1> HIDE DEF ranks
<1>4. ASSUME NEW i \in 1 .. n
      PROVE  ranks[i] = (IF records[i].kind.action = "BLOCK" THEN 2 ELSE 1) /\ ranks[i] \in {1, 2}
  <2>1. ranks[i] = EGS!ACTION_RANK[records[i].kind.action]
    BY <1>2
  <2> QED  BY <1>1, <1>3, <2>1
<1>5. ranks \in [1 .. n -> {1, 2}]
  BY <1>2, <1>4
<1>6. ranks \in Seq({1, 2}) /\ Len(ranks) = n
  <2> HIDE DEF n
  <2> QED  BY <1>2, <1>5
<1> QED  BY <1>3, <1>4, <1>6 DEF ranks

\* A block somewhere behind a downgrade is a block right behind one somewhere.
LEMMA EscalationIsLocal ==
  ASSUME NEW ranks \in Seq({1, 2})
  PROVE  EGS!EscalationDetected(ranks)
           <=> \E i, j \in 1 .. Len(ranks) : i < j /\ ranks[i] = 1 /\ ranks[j] = 2
<1> DEFINE n == Len(ranks)
<1>1. n \in Nat /\ DOMAIN ranks = 1 .. n /\ \A i \in 1 .. n : ranks[i] \in {1, 2}
  OBVIOUS
<1> HIDE DEF n
<1>2. ASSUME EGS!EscalationDetected(ranks)
      PROVE  \E i, j \in 1 .. n : i < j /\ ranks[i] = 1 /\ ranks[j] = 2
  <2>1. PICK j \in 1 .. n : j > 1 /\ ranks[j] > ranks[j - 1]
    BY <1>1, <1>2 DEF EGS!EscalationDetected
  <2>2. j - 1 \in 1 .. n /\ j - 1 < j
    BY <1>1, <2>1
  <2>3. ranks[j - 1] = 1 /\ ranks[j] = 2
    BY <1>1, <2>1, <2>2
  <2> QED  BY <2>2, <2>3
<1>3. ASSUME NEW i \in 1 .. n, NEW j \in 1 .. n, i < j, ranks[i] = 1, ranks[j] = 2
      PROVE  EGS!EscalationDetected(ranks)
  <2> DEFINE T == {k \in 1 .. n : i < k /\ ranks[k] = 2}
  <2>1. PICK k \in T : \A l \in T : k <= l
    <3>1. T \subseteq Nat /\ T # {}
      BY <1>3
    <3> HIDE DEF T
    <3> QED  BY <3>1, LeastNumber
  <2>2. k \in 1 .. n /\ i < k /\ ranks[k] = 2 /\ k - 1 \in 1 .. n
    BY <1>1
  <2>3. ranks[k - 1] = 1
    <3>1. CASE k - 1 = i
      BY <1>3, <3>1
    <3>2. CASE k - 1 # i
      <4>1. i < k - 1 /\ ~(k <= k - 1)
        BY <2>2, <3>2
      <4>2. k - 1 \notin T
        BY <2>1, <4>1
      <4> QED  BY <1>1, <2>2, <4>1, <4>2
    <3> QED  BY <3>1, <3>2
  <2>4. k > 1 /\ ranks[k] > ranks[k - 1]
    BY <2>2, <2>3
  <2> QED  BY <1>1, <2>2, <2>4 DEF EGS!EscalationDetected
<1> QED  BY <1>2, <1>3 DEF n

\* The sum of ranks, and of their squares.
LEMMA TotalOf ==
  ASSUME NEW n \in Nat, NEW numbers, DOMAIN numbers = 1 .. n, NEW B, NEW d \in Gains,
         \A i \in 1 .. n : numbers[i] = IF i \in B THEN 1 + d ELSE 1
  PROVE  EGS!Total(numbers) = n + d * Cardinality((1 .. n) \cap B)
<1>1. EGS!Total(numbers) = SumOver(numbers, 1 .. n)
  BY DEF EGS!Total, SumOver, EGS!MapThenSumSet, EGS!MapThenFoldSet, MapThenSumSet, MapThenFoldSet
<1>2. IsFiniteSet(1 .. n) /\ Cardinality(1 .. n) = n
  <2>1. Cardinality(1 .. n) = IF 1 > n THEN 0 ELSE n - 1 + 1
    BY FS_Interval
  <2> QED  BY <2>1, FS_Interval
<1>3. SumOver(numbers, 1 .. n) = Cardinality(1 .. n) + d * Cardinality((1 .. n) \cap B)
  <2> DEFINE S == 1 .. n
  <2>1. IsFiniteSet(S) /\ Weighs(numbers, S, B, d)
    BY <1>2 DEF Weighs
  <2> HIDE DEF S
  <2>2. SumOver(numbers, S) = Cardinality(S) + d * Cardinality(S \cap B)
    BY <2>1, WeightedSum
  <2> QED  BY <2>2 DEF S
<1> QED  BY <1>1, <1>2, <1>3

\* The spread is small, however long the sequence.
LEMMA SpreadIsSmall ==
  ASSUME NEW ranks \in Seq({1, 2})
  PROVE  EGS!Spread(ranks) \in Int /\ 4 * EGS!Spread(ranks) <= Len(ranks) * Len(ranks)
<1> DEFINE n == Len(ranks)
           B == {i \in 1 .. n : ranks[i] = 2}
           b == Cardinality((1 .. n) \cap B)
           squares == [i \in DOMAIN ranks |-> ranks[i] * ranks[i]]
<1>1. n \in Nat /\ DOMAIN ranks = 1 .. n /\ \A i \in 1 .. n : ranks[i] \in {1, 2}
  OBVIOUS
<1>2. b \in Nat /\ b <= n
  <2>1. IsFiniteSet(1 .. n) /\ (1 .. n) \cap B \subseteq 1 .. n /\ Cardinality(1 .. n) = n
    <3> HIDE DEF n
    <3>1. Cardinality(1 .. n) = IF 1 > n THEN 0 ELSE n - 1 + 1
      BY <1>1, FS_Interval
    <3> QED  BY <1>1, <3>1, FS_Interval
  <2> HIDE DEF B
  <2> QED  BY <2>1, FS_Subset, FS_CardinalityType
<1>3. \A i \in 1 .. n : ranks[i] = IF i \in B THEN 1 + 1 ELSE 1
  BY <1>1
<1>4. DOMAIN squares = 1 .. n /\ \A i \in 1 .. n : squares[i] = IF i \in B THEN 1 + 3 ELSE 1
  BY <1>1
<1>5. EGS!Spread(ranks)
        = n * EGS!Total(squares) - EGS!Total(ranks) * EGS!Total(ranks)
  BY DEF EGS!Spread
<1> HIDE DEF B, squares, n
<1>6. EGS!Total(ranks) = n + 1 * b
  BY <1>1, <1>3, TotalOf DEF Gains
<1>7. EGS!Total(squares) = n + 3 * b
  BY <1>1, <1>4, TotalOf DEF Gains
<1> HIDE DEF b
<1>8. EGS!Spread(ranks) = n * (n + 3 * b) - (n + b) * (n + b)
  <2>1. EGS!Total(ranks) = n + b
    BY <1>1, <1>2, <1>6
  <2> QED  BY <1>5, <1>7, <2>1
<1> QED  BY <1>1, <1>2, <1>8, SpreadOfTwo DEF n

\* Nor does the score fall far.
LEMMA ScoreIsHigh ==
  ASSUME NEW ranks \in Seq({1, 2}), ranks # <<>>
  PROVE  EGS!ConsistencyScore(ranks) \in Int /\ EGS!ConsistencyScore(ranks) >= 80
<1> DEFINE n == Len(ranks)
           square == n * n
           spread == EGS!Spread(ranks)
           a == 2 * (100 * square - 25 * spread) + square
           b == 2 * square
           score == a \div b
<1>1. n \in Nat /\ n > 0
  OBVIOUS
<1>2. square \in Nat /\ square > 0
  <2> HIDE DEF n
  <2> QED  BY <1>1
<1>3. spread \in Int /\ 4 * spread <= square
  BY SpreadIsSmall
<1>4. EGS!ConsistencyScore(ranks) = EGS!Max({0, score})
  BY DEF EGS!ConsistencyScore
<1> HIDE DEF square, spread
<1>5. a \in Int /\ b \in Nat /\ b > 0 /\ a >= 80 * b
  BY <1>2, <1>3
<1> HIDE DEF a, b
<1>6. score \in Int /\ score >= 80
  BY <1>5, QuotientAtLeast
<1> HIDE DEF score
<1>7. EGS!Max({0, score}) = score
  <2> DEFINE S == {0, score}
             top == EGS!Max(S)
  <2>1. top \in S /\ \A z \in S : top >= z
    <3>1. \E y \in S : \A z \in S : y >= z
      BY <1>6
    <3> HIDE DEF S
    <3> QED  BY <3>1 DEF EGS!Max
  <2> QED  BY <1>6, <2>1
<1> QED  BY <1>4, <1>6, <1>7

\* What a summary says of a sequence of stored events.
LEMMA SummaryOf ==
  ASSUME NEW records \in Seq(EventRecord), records # <<>>
  PROVE  LET summary == EGS!summarizeSequence(records)
             escalated == \E i, j \in 1 .. Len(records) :
                            /\ i < j /\ records[i].kind.action = "DOWNGRADE"
                            /\ records[j].kind.action = "BLOCK"
         IN  /\ summary.escalationDetected <=> escalated
             /\ summary.patternType = IF escalated THEN "CONTAINED" ELSE "UNKNOWN"
             /\ summary.consistencyScore \in Int /\ summary.consistencyScore >= 80
<1> DEFINE ranks == EGS!Ranks(records)
           n == Len(records)
           escalated == \E i, j \in 1 .. n : /\ i < j /\ records[i].kind.action = "DOWNGRADE"
                                             /\ records[j].kind.action = "BLOCK"
           summary == EGS!summarizeSequence(records)
<1>1. /\ ranks \in Seq({1, 2}) /\ Len(ranks) = n /\ n \in Nat /\ n > 0
      /\ \A i \in 1 .. n : /\ records[i].kind.action \in {"DOWNGRADE", "BLOCK"}
                           /\ ranks[i] = IF records[i].kind.action = "BLOCK" THEN 2 ELSE 1
  BY RanksOf
<1>2. /\ summary.escalationDetected = EGS!EscalationDetected(ranks)
      /\ summary.patternType = EGS!PatternType(ranks)
      /\ summary.consistencyScore = EGS!ConsistencyScore(ranks)
  BY DEF EGS!summarizeSequence
<1> HIDE DEF ranks, summary, n
<1>3. EGS!EscalationDetected(ranks)
        <=> \E i, j \in 1 .. n : i < j /\ ranks[i] = 1 /\ ranks[j] = 2
  BY <1>1, EscalationIsLocal
<1>4. EGS!EscalationDetected(ranks) <=> escalated
  <2>1. \A i \in 1 .. n : /\ ranks[i] = 1 <=> records[i].kind.action = "DOWNGRADE"
                          /\ ranks[i] = 2 <=> records[i].kind.action = "BLOCK"
    BY <1>1
  <2> QED  BY <1>3, <2>1
<1>5. EGS!PatternType(ranks) = IF escalated THEN "CONTAINED" ELSE "UNKNOWN"
  <2>1. ~ \A i \in DOMAIN ranks : ranks[i] = EGS!ACTION_RANK["PASS"]
    <3>1. EGS!ACTION_RANK["PASS"] = 0
      BY DEF EGS!ACTION_RANK, EGS!Actions
    <3>2. 1 \in DOMAIN ranks /\ ranks[1] \in {1, 2}
      BY <1>1
    <3> QED  BY <3>1, <3>2
  <2>2. CASE escalated
    <3>1. PICK i \in 1 .. n, j \in 1 .. n : i < j /\ ranks[i] = 1 /\ ranks[j] = 2
      BY <1>3, <1>4, <2>2
    <3>2. EGS!ACTION_RANK["BLOCK"] = 2
      BY DEF EGS!ACTION_RANK, EGS!Actions
    <3>3. \E k \in DOMAIN ranks : ranks[k] >= EGS!ACTION_RANK["BLOCK"]
      BY <1>1, <3>1, <3>2
    <3> QED  BY <1>4, <2>1, <2>2, <3>3 DEF EGS!PatternType
  <2>3. CASE ~escalated
    <3>1. EGS!Spread(ranks) \in Int /\ 4 * EGS!Spread(ranks) <= Len(ranks) * Len(ranks)
      BY <1>1, SpreadIsSmall
    <3> DEFINE square == Len(ranks) * Len(ranks)
    <3>2. square \in Nat
      BY <1>1
    <3> HIDE DEF square
    <3>3. ~(EGS!Spread(ranks) > square)
      BY <3>1, <3>2 DEF square
    <3> QED  BY <1>4, <2>1, <2>3, <3>3 DEF EGS!PatternType, square
  <2> QED  BY <2>2, <2>3
<1>6. ranks # <<>>
  BY <1>1
<1>7. EGS!ConsistencyScore(ranks) \in Int /\ EGS!ConsistencyScore(ranks) >= 80
  BY <1>1, <1>6, ScoreIsHigh
<1> QED  BY <1>2, <1>4, <1>5, <1>7 DEF summary, n

\* The summary that is read of an active workflow.
LEMMA SummaryRead ==
  ASSUME FlowInStep, NEW w \in Active
  PROVE  LET records == getSequence(store, Auditee, w)
         IN  records \in Seq(EventRecord) /\ records # <<>>
BY SequenceType DEF FlowInStep, Active

\* A sequence is CONTAINED exactly if a block followed a downgrade somewhere, otherwise
\* UNKNOWN, and its score is at least 80: for sequences of any length, of any events that
\* the server stores (event-store.ts:112).
THEOREM ClassifiedByEscalation == AuditSpec => []ClassifiedMeansEscalated
<1>1. FlowInStep => ClassifiedMeansEscalated
  <2> SUFFICES ASSUME FlowInStep, NEW w \in Active
               PROVE  LET chain == Summary(w).actionChain
                          escalated == \E i, j \in DOMAIN chain :
                                         i < j /\ chain[i] = "DOWNGRADE" /\ chain[j] = "BLOCK"
                      IN  /\ Summary(w).patternType = IF escalated THEN "CONTAINED" ELSE "UNKNOWN"
                          /\ Summary(w).consistencyScore >= 80
    BY DEF ClassifiedMeansEscalated
  <2> DEFINE records == getSequence(store, Auditee, w)
             chain == EGS!summarizeSequence(records).actionChain
             summary == EGS!summarizeSequence(records)
  <2>1. records \in Seq(EventRecord) /\ records # <<>>
    BY SummaryRead
  <2>2. Summary(w) = summary
    BY DEF Summary
  <2> HIDE DEF records
  <2>3. chain = [i \in 1 .. Len(records) |-> records[i].kind.action]
    BY <2>1 DEF EGS!summarizeSequence
  <2>4. /\ DOMAIN chain = 1 .. Len(records)
        /\ \A i \in 1 .. Len(records) : chain[i] = records[i].kind.action
    BY <2>3
  <2>5. LET escalated == \E i, j \in 1 .. Len(records) :
                            /\ i < j /\ records[i].kind.action = "DOWNGRADE"
                            /\ records[j].kind.action = "BLOCK"
         IN  /\ summary.patternType = IF escalated THEN "CONTAINED" ELSE "UNKNOWN"
             /\ summary.consistencyScore \in Int /\ summary.consistencyScore >= 80
    BY <2>1, SummaryOf
  <2>6. summary.actionChain = chain
    OBVIOUS
  <2> HIDE DEF summary, chain
  <2> QED  BY <2>2, <2>4, <2>5, <2>6
<1> QED  BY <1>1, FlowAlways, PTL

-----------------------------------------------------------------------------
(***************************************************************************)
(* The two grades of evidence                                              *)
(***************************************************************************)

\* A record with a summary that scores 80 is graded alike, or lower by Urielle.
LEMMA GradesCompare ==
  ASSUME NEW record, NEW sequence, sequence.consistencyScore >= 80
  PROVE  LET signal == EGS!fromEventRecord(record, sequence)
             urielle == U!evidenceLevel(U!Flattened(signal))
             egs == EGS!evidenceLevel(signal)
         IN  /\ LevelRank[urielle] <= LevelRank[egs]
             /\ urielle = "STRONG" <=> egs = "STRONG"
<1> DEFINE signal == EGS!fromEventRecord(record, sequence)
           flat == U!Flattened(signal)
           high == record.kind.severity = "high"
           block == record.kind.action = "BLOCK"
<1>1. /\ signal.core.severity = record.kind.severity /\ signal.core.action = record.kind.action
      /\ signal.sequence = sequence
  BY DEF EGS!fromEventRecord
<1>2. /\ flat.severity = record.kind.severity /\ flat.action = record.kind.action
      /\ flat.sequence = sequence
  BY <1>1 DEF U!Flattened
<1> HIDE DEF signal, flat
<1>3. EGS!evidenceLevel(signal) = IF high /\ block /\ sequence.escalationDetected THEN "STRONG"
                                  ELSE IF \/ high \/ block
                                          \/ sequence.patternType = "CONTAINED"
                                       THEN "MODERATE" ELSE "WEAK"
  BY <1>1 DEF EGS!evidenceLevel
<1>4. U!evidenceLevel(flat) = IF high /\ block /\ sequence.escalationDetected THEN "STRONG"
                              ELSE IF high \/ block THEN "MODERATE" ELSE "WEAK"
  BY <1>2 DEF U!evidenceLevel
<1>5. LevelRank["WEAK"] = 0 /\ LevelRank["MODERATE"] = 1 /\ LevelRank["STRONG"] = 2
  BY DEF LevelRank, EGS!EvidenceLevels
<1> HIDE DEF high, block
<1> QED  BY <1>3, <1>4, <1>5 DEF signal, flat

\* Urielle never claims more than EGS, and both agree on what is strong
\* (audit-signal.ts:347, audit-signal-consumer.ts:72): EGS's condition on the score, which
\* Urielle does not have, is met by every sequence the server stores.
THEOREM UrielleNeverClaimsMore == AuditSpec => []UrielleClaimsNoMore
<1>1. FlowInStep => UrielleClaimsNoMore
  <2> SUFFICES ASSUME FlowInStep, NEW w \in Active,
                      NEW i \in DOMAIN getSequence(store, Auditee, w)
               PROVE  LET signal == Signals(getSequence(store, Auditee, w), Summary(w))[i]
                          urielle == U!evidenceLevel(U!Flattened(signal))
                      IN  /\ LevelRank[urielle] <= LevelRank[EGS!evidenceLevel(signal)]
                          /\ urielle = "STRONG" <=> EGS!evidenceLevel(signal) = "STRONG"
    BY DEF UrielleClaimsNoMore
  <2> DEFINE records == getSequence(store, Auditee, w)
             summary == Summary(w)
  <2>1. records \in Seq(EventRecord) /\ records # <<>>
    BY SummaryRead
  <2>2. summary = EGS!summarizeSequence(records)
    BY DEF Summary
  <2> HIDE DEF records, summary
  <2>3. EGS!summarizeSequence(records).consistencyScore >= 80
    BY <2>1, SummaryOf
  <2>4. summary.consistencyScore >= 80
    BY <2>2, <2>3
  <2>5. Signals(records, summary)[i] = EGS!fromEventRecord(records[i], summary)
    BY DEF Signals, records
  <2> QED  BY <2>4, <2>5, GradesCompare DEF records, summary
<1> QED  BY <1>1, FlowAlways, PTL

-----------------------------------------------------------------------------
(***************************************************************************)
(* What was told of a sequence                                             *)
(***************************************************************************)

\* Of two sequences in the order of their records, the one that has of the other all that
\* is older than one it has is its beginning.
LEMMA DownwardClosedIsStart ==
  ASSUME NEW a \in Seq(EventRecord), NEW b \in Seq(EventRecord), Ascending(a), Ascending(b),
         \A r \in EventRecord : Has(a, r) => Has(b, r),
         \A r, q \in EventRecord : Has(a, r) /\ Has(b, q) /\ q.id < r.id => Has(a, q)
  PROVE  Len(a) <= Len(b) /\ \A i \in 1 .. Len(a) : a[i] = b[i]
<1> DEFINE m == Len(a)
           n == Len(b)
           Bad == {k \in 1 .. m : ~(k <= n /\ a[k] = b[k])}
<1>1. /\ m \in Nat /\ n \in Nat
      /\ \A i \in 1 .. m : a[i] \in EventRecord /\ a[i].id \in Nat
      /\ \A i \in 1 .. n : b[i] \in EventRecord /\ b[i].id \in Nat
  <2>1. \A r \in EventRecord : r.id \in Nat
    BY DEF EventRecord
  <2> QED  BY <2>1
<1>2. /\ \A i \in 1 .. m : Has(a, a[i])
      /\ \A i \in 1 .. n : Has(b, b[i])
  BY DEF Has
<1>3. Bad = {}
  <2> SUFFICES ASSUME Bad # {} PROVE FALSE
    OBVIOUS
  <2>1. PICK k \in Bad : \A l \in Bad : k <= l
    <3>1. Bad \subseteq Nat
      OBVIOUS
    <3> HIDE DEF Bad
    <3> QED  BY <3>1, LeastNumber
  <2>2. k \in 1 .. m /\ ~(k <= n /\ a[k] = b[k])
    OBVIOUS
  <2>3. ASSUME NEW i \in 1 .. m, i < k PROVE i <= n /\ a[i] = b[i]
    <3>1. i \notin Bad
      <4>1. k \in Nat /\ i \in Nat
        BY <2>2
      <4> HIDE DEF Bad
      <4> QED  BY <2>1, <2>3, <4>1
    <3> QED  BY <3>1
  <2>4. PICK j \in 1 .. n : b[j] = a[k]
    BY <1>1, <1>2, <2>2 DEF Has
  <2> HIDE DEF m, n, Bad
  <2>5. ~(j < k)
    <3> SUFFICES ASSUME j < k PROVE FALSE
      OBVIOUS
    <3>1. j \in 1 .. m
      BY <1>1, <2>2
    <3>2. a[j] = a[k] /\ a[j].id < a[k].id
      BY <2>2, <2>3, <2>4, <3>1 DEF Ascending, m
    <3> QED  BY <1>1, <3>1, <3>2
  <2>6. k <= n /\ k \in 1 .. n /\ j # k
    BY <1>1, <2>2, <2>4, <2>5
  <2>7. b[k].id < a[k].id
    <3>1. k < j
      BY <1>1, <2>2, <2>5, <2>6
    <3> QED  BY <2>4, <2>6, <3>1 DEF Ascending, n
  <2>8. Has(a, b[k])
    BY <1>1, <1>2, <2>2, <2>6, <2>7
  <2>9. PICK i \in 1 .. m : a[i] = b[k]
    BY <2>8 DEF Has, m
  <2>10. i < k
    <3> SUFFICES ASSUME ~(i < k) PROVE FALSE
      OBVIOUS
    <3>1. i = k \/ k < i
      BY <1>1, <2>2
    <3>2. k < i => a[k].id < a[i].id
      BY <2>2 DEF Ascending, m
    <3> QED  BY <1>1, <2>2, <2>7, <2>9, <3>1, <3>2
  <2>11. i \in 1 .. n /\ b[i] = b[k]
    BY <1>1, <2>3, <2>9, <2>10
  <2>12. b[i].id < b[k].id
    BY <2>6, <2>10, <2>11 DEF Ascending, n
  <2> QED  BY <1>1, <2>6, <2>11, <2>12
<1>4. m <= n
  <2>1. CASE m = 0
    BY <1>1, <2>1
  <2>2. CASE m > 0
    <3>1. m \in 1 .. m /\ m \notin Bad
      BY <1>1, <1>3, <2>2
    <3> QED  BY <3>1
  <2> QED  BY <1>1, <2>1, <2>2
<1> QED  BY <1>3, <1>4

\* If an append leaves a record in its log, it leaves all that are newer, and each in its list.
LEMMA AppendKeepsNewer ==
  ASSUME NEW s, LogsOK(s), FlowOK(s), NEW t \in Tenants, NEW handle, NEW event,
         IsEvent(event, handle), NEW u \in Tenants, NEW q \in EventRecord, NEW r \in EventRecord,
         InLog(s, u, q), InLog(Appended(s, t, event), u, q), InLog(s, u, r), q.id <= r.id,
         NEW w \in Workflows, InFlow(s, w, r)
  PROVE  InFlow(Appended(s, t, event), w, r)
<1> DEFINE record == RecordOf(s, t, event)
           room == Room(s, t)
           l == s.logs[t]
           gone == Head(l)
<1>1. record.id = s.made + 1 /\ record \in EventRecord /\ s.made \in Nat
  BY AppendGives DEF LogsOK, Typed
<1>2. InLog(room, u, q) \/ q = record
  BY AppendGives DEF HasOneMore
<1>3. InFlow(room, w, r) => InFlow(Appended(s, t, event), w, r)
  BY AppendGives DEF HasOneMore
<1>4. q.id \in 1 .. s.made /\ r.id \in 1 .. s.made
  BY LoggedRecord
<1> HIDE DEF record
<1>5. InLog(room, u, q)
  <2>1. q # record
    BY <1>1, <1>4
  <2> QED  BY <1>2, <2>1
<1>6. CASE Full(s, t)
  <2>1. room = Evict(s, t)
    BY <1>6 DEF Room
  <2> HIDE DEF room
  <2>2. q.id # gone.id
    BY <1>5, <1>6, <2>1, EvictTakes
  <2>3. l \in Seq(EventRecord) /\ l # <<>> /\ Ascending(l)
    BY <1>6, LogAscends, EventStoreAssumption DEF Full
  <2>4. gone = l[1] /\ gone \in EventRecord /\ 1 \in 1 .. Len(l)
    BY <2>3
  <2>5. InLog(s, t, gone)
    BY <2>4 DEF InLog, Has
  <2>6. r.id # gone.id
    <3> SUFFICES ASSUME r.id = gone.id PROVE FALSE
      OBVIOUS
    <3> HIDE DEF gone, l
    <3>1. u = t
      BY <2>4, <2>5, SameId
    <3>2. PICK i \in 1 .. Len(l) : l[i] = q
      BY <3>1 DEF InLog, Has, l
    <3>3. i # 1
      BY <2>2, <2>4, <3>2
    <3>4. 1 < i
      BY <2>3, <3>2, <3>3
    <3>5. gone.id < q.id
      BY <2>3, <2>4, <3>2, <3>4 DEF Ascending
    <3> QED  BY <1>4, <3>5
  <2>7. InFlow(Evict(s, t), w, r)
    BY <1>6, <2>6, EvictTakes
  <2> QED  BY <1>3, <2>1, <2>7
<1>7. CASE ~Full(s, t)
  BY <1>3, <1>7 DEF Room
<1> QED  BY <1>6, <1>7

\* Whether a record with this identity is logged for the audited tenant.
Remains(s, id) == \E r \in EventRecord : InLog(s, Auditee, r) /\ r.id = id

\* A sequence as it was once read: while its first record is logged, all its records are in
\* the list of the workflow, and none of the tenant's others there is older than one of them.
ReadOnce(s, w, old) ==
  /\ old \in Seq(EventRecord) /\ old # <<>> /\ Ascending(old)
  /\ \A r \in EventRecord : Has(old, r) => r.id <= s.made
  /\ Remains(s, old[1].id) =>
       /\ \A r \in EventRecord : Has(old, r) => InFlow(s, w, r) /\ r.partner = Auditee
       /\ \A r, q \in EventRecord :
            Has(old, r) /\ InFlow(s, w, q) /\ q.partner = Auditee /\ q.id < r.id => Has(old, q)

\* What is read of the maps is so.
LEMMA ReadIsOnce ==
  ASSUME NEW s, LogsOK(s), FlowOK(s), NEW w \in Workflows,
         getSequence(s, Auditee, w) # <<>>
  PROVE  ReadOnce(s, w, getSequence(s, Auditee, w))
<1> DEFINE old == getSequence(s, Auditee, w)
<1>1. /\ old \in Seq(EventRecord) /\ Ascending(old)
      /\ \A r \in EventRecord : Has(old, r) <=> InFlow(s, w, r) /\ r.partner = Auditee
  BY SequenceIsEnd, AuditAssumption
<1> HIDE DEF old
<1>2. ASSUME NEW r \in EventRecord, Has(old, r) PROVE r.id <= s.made
  <2>1. InLog(s, Auditee, r)
    BY <1>1, <1>2 DEF FlowOK
  <2>2. r.id \in 1 .. s.made
    BY <2>1, LoggedRecord, AuditAssumption
  <2> QED  BY <2>2
<1>3. ReadOnce(s, w, old)
  <2>1. old # <<>>
    BY DEF old
  <2> QED  BY <1>1, <1>2, <2>1 DEF ReadOnce
<1> QED  BY <1>3 DEF old

\* The first record of a sequence is its oldest.
LEMMA FirstIsOldest ==
  ASSUME NEW old \in Seq(EventRecord), old # <<>>, Ascending(old)
  PROVE  /\ old[1] \in EventRecord /\ Has(old, old[1])
         /\ \A r \in EventRecord : Has(old, r) => old[1].id <= r.id
<1>1. 1 \in 1 .. Len(old) /\ Len(old) \in Nat
  OBVIOUS
<1>2. \A r \in EventRecord : r.id \in Nat
  BY DEF EventRecord
<1>3. ASSUME NEW r \in EventRecord, Has(old, r) PROVE old[1].id <= r.id
  <2>1. PICK i \in 1 .. Len(old) : old[i] = r
    BY <1>3 DEF Has
  <2>2. i = 1 \/ 1 < i
    BY <1>1
  <2>3. 1 < i => old[1].id < r.id
    BY <1>1, <2>1 DEF Ascending
  <2> QED  BY <1>1, <1>2, <2>1, <2>2, <2>3
<1> QED  BY <1>1, <1>3 DEF Has

\* It stays so.
LEMMA AppendKeepsRead ==
  ASSUME NEW s, LogsOK(s), FlowOK(s), NEW t \in Tenants, NEW handle, NEW event,
         IsEvent(event, handle), NEW w \in Workflows, NEW old, ReadOnce(s, w, old)
  PROVE  ReadOnce(Appended(s, t, event), w, old)
<1> DEFINE a == Appended(s, t, event)
           n == s.made
<1>1. n \in Nat /\ a.made = n + 1
  <2>1. Added(a, Room(s, t), t, RecordOf(s, t, event)) /\ Room(s, t).made = s.made
    BY AppendGives, RoomIsMade
  <2> HIDE DEF a
  <2> QED  BY <2>1 DEF Added, LogsOK, Typed
<1>2. /\ old \in Seq(EventRecord) /\ old # <<>> /\ Ascending(old)
      /\ \A r \in EventRecord : Has(old, r) => r.id <= n
  BY DEF ReadOnce
<1>3. \A r \in EventRecord : /\ InLog(a, Auditee, r) => InLog(s, Auditee, r) \/ r.id = n + 1
                             /\ InFlow(a, w, r) => InFlow(s, w, r) \/ r.id = n + 1
  BY AppendAdds, AppendGives, AuditAssumption
<1> HIDE DEF n
<1>4. old[1] \in EventRecord /\ Has(old, old[1]) /\ old[1].id <= n
      /\ \A r \in EventRecord : Has(old, r) => old[1].id <= r.id
  BY <1>2, FirstIsOldest
<1>5. \A r \in EventRecord : r.id \in Nat
  BY DEF EventRecord
<1>6. ASSUME NEW r \in EventRecord, Has(old, r) PROVE r.id <= n + 1
  BY <1>1, <1>2, <1>5, <1>6
<1>7. ASSUME Remains(a, old[1].id)
      PROVE  /\ \A r \in EventRecord : Has(old, r) => InFlow(a, w, r) /\ r.partner = Auditee
             /\ \A r, q \in EventRecord :
                  Has(old, r) /\ InFlow(a, w, q) /\ q.partner = Auditee /\ q.id < r.id
                    => Has(old, q)
  <2>1. PICK x \in EventRecord : InLog(a, Auditee, x) /\ x.id = old[1].id
    BY <1>7 DEF Remains
  <2>2. InLog(s, Auditee, x)
    <3>1. InLog(s, Auditee, x) \/ x.id = n + 1
      BY <1>3, <2>1
    <3> QED  BY <1>1, <1>4, <1>5, <2>1, <3>1
  <2>3. Remains(s, old[1].id)
    BY <2>1, <2>2 DEF Remains
  <2>4. /\ \A r \in EventRecord : Has(old, r) => InFlow(s, w, r) /\ r.partner = Auditee
        /\ \A r, q \in EventRecord :
             Has(old, r) /\ InFlow(s, w, q) /\ q.partner = Auditee /\ q.id < r.id => Has(old, q)
    BY <2>3 DEF ReadOnce
  <2>5. ASSUME NEW r \in EventRecord, Has(old, r) PROVE InFlow(a, w, r)
    <3>1. InFlow(s, w, r) /\ InLog(s, Auditee, r)
      BY <2>4, <2>5 DEF FlowOK
    <3>2. x.id <= r.id
      BY <1>4, <2>1, <2>5
    <3> QED  BY <2>1, <2>2, <3>1, <3>2, AppendKeepsNewer, AuditAssumption
  <2>6. ASSUME NEW r \in EventRecord, NEW q \in EventRecord,
               Has(old, r), InFlow(a, w, q), q.partner = Auditee, q.id < r.id
        PROVE  Has(old, q)
    <3>1. InFlow(s, w, q) \/ q.id = n + 1
      BY <1>3, <2>6
    <3>2. q.id # n + 1
      BY <1>1, <1>2, <1>5, <2>6
    <3> QED  BY <2>4, <2>6, <3>1, <3>2
  <2> HIDE DEF a
  <2> QED  BY <2>4, <2>5, <2>6
<1> HIDE DEF a
<1>8. ReadOnce(a, w, old)
  BY <1>1, <1>2, <1>6, <1>7 DEF ReadOnce
<1> QED  BY <1>8 DEF a

\* A sequence that was once read, and whose first record is logged, is the beginning of
\* the sequence that is read now.
LEMMA ReadIsStart ==
  ASSUME NEW s, LogsOK(s), FlowOK(s), NEW w \in Workflows, NEW old,
         ReadOnce(s, w, old), Remains(s, old[1].id)
  PROVE  LET now == getSequence(s, Auditee, w)
         IN  /\ old \in Seq(EventRecord) /\ now \in Seq(EventRecord)
             /\ old # <<>> /\ now # <<>> /\ Len(old) <= Len(now)
             /\ \A i \in 1 .. Len(old) : old[i] = now[i]
<1> DEFINE now == getSequence(s, Auditee, w)
<1>1. /\ now \in Seq(EventRecord) /\ Ascending(now)
      /\ \A r \in EventRecord : Has(now, r) <=> InFlow(s, w, r) /\ r.partner = Auditee
  BY SequenceIsEnd, AuditAssumption
<1> HIDE DEF now
<1>2. /\ old \in Seq(EventRecord) /\ old # <<>> /\ Ascending(old)
      /\ \A r \in EventRecord : Has(old, r) => InFlow(s, w, r) /\ r.partner = Auditee
      /\ \A r, q \in EventRecord :
           Has(old, r) /\ InFlow(s, w, q) /\ q.partner = Auditee /\ q.id < r.id => Has(old, q)
  BY DEF ReadOnce
<1>3. /\ \A r \in EventRecord : Has(old, r) => Has(now, r)
      /\ \A r, q \in EventRecord : Has(old, r) /\ Has(now, q) /\ q.id < r.id => Has(old, q)
  BY <1>1, <1>2
<1>4. Len(old) <= Len(now) /\ \A i \in 1 .. Len(old) : old[i] = now[i]
  BY <1>1, <1>2, <1>3, DownwardClosedIsStart
<1>5. now # <<>>
  <2>1. Len(old) \in Nat /\ Len(old) > 0
    BY <1>2
  <2> QED  BY <1>4, <2>1
<1> QED  BY <1>1, <1>2, <1>4, <1>5 DEF now

\* A sequence that a longer one agrees with is a prefix of it.
LEMMA AgreeingIsPrefix ==
  ASSUME NEW S, NEW a \in Seq(S), NEW b \in Seq(S), Len(a) <= Len(b),
         \A i \in 1 .. Len(a) : a[i] = b[i]
  PROVE  IsPrefix(a, b)
<1> DEFINE c == SubSeq(a, 1, Len(a))
           d == SubSeq(b, 1, Len(a))
<1>1. /\ c \in Seq(S) /\ Len(c) = Len(a) /\ \A i \in 1 .. Len(a) : c[i] = a[i]
      /\ d \in Seq(S) /\ Len(d) = Len(a) /\ \A i \in 1 .. Len(a) : d[i] = b[i]
  OBVIOUS
<1>2. c = d
  <2> HIDE DEF c, d
  <2> QED  BY <1>1
<1> QED  BY <1>2 DEF IsPrefix

\* The summary of a longer sequence has the first event, the chain and the escalation
\* of its beginning.
LEMMA SummaryGrows ==
  ASSUME NEW old \in Seq(EventRecord), NEW now \in Seq(EventRecord), old # <<>>, now # <<>>,
         Len(old) <= Len(now), \A i \in 1 .. Len(old) : old[i] = now[i]
  PROVE  LET told == EGS!summarizeSequence(old)
             summary == EGS!summarizeSequence(now)
         IN  /\ told.firstDetectedAt = old[1].id /\ told.firstDetectedAt = summary.firstDetectedAt
             /\ IsPrefix(told.actionChain, summary.actionChain)
             /\ told.escalationDetected => summary.escalationDetected
<1> DEFINE told == EGS!summarizeSequence(old)
           summary == EGS!summarizeSequence(now)
           m == Len(old)
           n == Len(now)
           chain == told.actionChain
           longer == summary.actionChain
<1>1. m \in Nat /\ n \in Nat /\ m > 0 /\ m <= n
  OBVIOUS
<1>2. told.firstDetectedAt = old[1].id /\ summary.firstDetectedAt = now[1].id
  BY DEF EGS!summarizeSequence
<1>3. old[1] = now[1]
  BY <1>1
<1>4. IsPrefix(chain, longer)
  <2>1. /\ chain = [i \in 1 .. m |-> old[i].kind.action]
        /\ longer = [i \in 1 .. n |-> now[i].kind.action]
    BY DEF EGS!summarizeSequence
  <2> DEFINE actions == {"DOWNGRADE", "BLOCK"}
  <2>2. /\ \A i \in 1 .. m : old[i].kind.action \in actions
        /\ \A i \in 1 .. n : now[i].kind.action \in actions
    BY RanksOf
  <2> HIDE DEF chain, longer, actions, m, n
  <2>3. /\ chain \in Seq(actions) /\ Len(chain) = m
        /\ \A i \in 1 .. m : chain[i] = old[i].kind.action
    BY <1>1, <2>1, <2>2
  <2>4. /\ longer \in Seq(actions) /\ Len(longer) = n
        /\ \A i \in 1 .. n : longer[i] = now[i].kind.action
    BY <1>1, <2>1, <2>2
  <2>5. \A i \in 1 .. m : chain[i] = longer[i]
    BY <1>1, <2>3, <2>4 DEF m
  <2> QED  BY <1>1, <2>3, <2>4, <2>5, AgreeingIsPrefix
<1>5. ASSUME told.escalationDetected PROVE summary.escalationDetected
  <2>1. \E i, j \in 1 .. m : /\ i < j /\ old[i].kind.action = "DOWNGRADE"
                             /\ old[j].kind.action = "BLOCK"
    BY <1>5, SummaryOf
  <2>2. \E i, j \in 1 .. n : /\ i < j /\ now[i].kind.action = "DOWNGRADE"
                             /\ now[j].kind.action = "BLOCK"
    BY <1>1, <2>1
  <2> QED  BY <2>2, SummaryOf
<1> HIDE DEF told, summary
<1> QED  BY <1>2, <1>3, <1>4, <1>5 DEF told, summary

\* The sequence a workflow's input has, if it has one, was once read.
WasRead(s, w, sequence) ==
  \/ sequence = EGS!NoSequence
  \/ \E old : ReadOnce(s, w, old) /\ sequence = EGS!summarizeSequence(old)

ToldInStep ==
  /\ FlowInStep
  /\ DOMAIN inputs = Workflows \cup {NoWorkflow}
  /\ \A w \in Workflows : WasRead(store, w, inputs[w].sequence)

LEMMA ToldNext ==
  ASSUME ToldInStep, [AuditNext]_auditVars
  PROVE  ToldInStep'
<1>1. FlowInStep /\ FlowInStep'
  BY AuditKeepsFlow DEF ToldInStep
<1>2. LogsOK(store) /\ FlowOK(store) /\ outputs \in Nat
  BY <1>1 DEF FlowInStep
<1>3. CASE UNCHANGED <<store, outputs, inputs>>
  BY <1>1, <1>3 DEF ToldInStep
<1>4. CASE Store /\ UNCHANGED <<fetched, inputs>>
  <2>1. PICK tenants \in StoredUnder : \E event :
              /\ IsEvent(event, outputs + 1) /\ AppendedOver(tenants, event)
              /\ tenants[1] \in Tenants
              /\ Len(tenants) # 1 => Len(tenants) = 2 /\ tenants[2] \in Tenants
    BY <1>2, <1>4, StoreAppends
  <2>2. PICK event :
              /\ IsEvent(event, outputs + 1) /\ AppendedOver(tenants, event)
              /\ tenants[1] \in Tenants
              /\ Len(tenants) # 1 => Len(tenants) = 2 /\ tenants[2] \in Tenants
    BY <2>1
  <2> DEFINE heard == Appended(store, tenants[1], event)
             both == Appended(heard, tenants[2], event)
  <2>3. LogsOK(heard) /\ FlowOK(heard)
    BY <1>2, <2>2, AppendKeepsFlow
  <2>4. \A w \in Workflows : \A old : ReadOnce(store, w, old) => ReadOnce(heard, w, old)
    BY <1>2, <2>2, AppendKeepsRead
  <2>5. store' = IF Len(tenants) = 1 THEN heard ELSE both
    BY <2>2 DEF AppendedOver
  <2> HIDE DEF heard
  <2>6. Len(tenants) # 1 =>
          \A w \in Workflows : \A old : ReadOnce(heard, w, old) => ReadOnce(both, w, old)
    BY <2>2, <2>3, AppendKeepsRead
  <2> HIDE DEF both
  <2>7. \A w \in Workflows : \A old : ReadOnce(store, w, old) => ReadOnce(store', w, old)
    BY <2>4, <2>5, <2>6
  <2>8. \A w \in Workflows : WasRead(store', w, inputs[w].sequence)
    BY <2>7 DEF ToldInStep, WasRead
  <2> QED  BY <1>1, <1>4, <2>8 DEF ToldInStep
<1>5. ASSUME NEW v \in Workflows, FetchSummary(v) PROVE ToldInStep'
  <2> DEFINE now == getSequence(store, Auditee, v)
             input == InputOf(fetched[v], EGS!summarizeSequence(now))
  <2>1. now # <<>> /\ inputs' = [inputs EXCEPT ![v] = input] /\ store' = store /\ outputs' = outputs
    BY <1>5 DEF FetchSummary
  <2>2. input.sequence = EGS!NoSequence \/ input.sequence = EGS!summarizeSequence(now)
    BY DEF InputOf, NoInput
  <2>3. ReadOnce(store, v, now)
    BY <1>2, <2>1, ReadIsOnce
  <2> HIDE DEF now, input
  <2>4. WasRead(store, v, input.sequence)
    BY <2>2, <2>3 DEF WasRead
  <2>5. DOMAIN inputs' = Workflows \cup {NoWorkflow} /\ inputs'[v] = input
        /\ \A w \in Workflows \ {v} : inputs'[w] = inputs[w]
    BY <2>1 DEF ToldInStep
  <2>6. \A w \in Workflows : WasRead(store, w, inputs'[w].sequence)
    BY <2>4, <2>5 DEF ToldInStep
  <2> QED  BY <1>1, <2>1, <2>5, <2>6 DEF ToldInStep
<1>6. CASE FetchOthers
  <2>1. /\ DOMAIN inputs' = DOMAIN inputs /\ store' = store /\ outputs' = outputs
        /\ \A w \in DOMAIN inputs \ {NoWorkflow} : inputs'[w] = inputs[w]
    BY <1>6 DEF FetchOthers
  <2>2. \A w \in Workflows : w \in DOMAIN inputs \ {NoWorkflow}
    BY EventStoreAssumption DEF ToldInStep
  <2> QED  BY <1>1, <2>1, <2>2 DEF ToldInStep
<1> QED
  BY <1>3, <1>4, <1>5, <1>6 DEF AuditNext, FetchRecords, auditVars

\* What Urielle was told of a sequence stays true of it until its first event is evicted:
\* the chain only grows, and no escalation is taken back (events-router.ts:180, :197), for
\* any number of stores and evictions between two reports, and however often an output is
\* stored.
THEOREM WhatWasToldStaysTrue == AuditSpec => []ChainsOnlyGrow
<1>1. AuditInit => ToldInStep
  <2> SUFFICES ASSUME AuditInit PROVE ToldInStep
    OBVIOUS
  <2>1. FlowInStep
    BY FlowInit DEF AuditInit
  <2>2. \A w \in Workflows : inputs[w].sequence = EGS!NoSequence
    BY DEF AuditInit, NoInput
  <2>3. \A w \in Workflows : WasRead(store, w, inputs[w].sequence)
    BY <2>2 DEF WasRead
  <2> QED  BY <2>1, <2>3 DEF AuditInit, ToldInStep
<1>2. ToldInStep /\ [AuditNext]_auditVars => ToldInStep'
  BY ToldNext
<1>3. ToldInStep => ChainsOnlyGrow
  <2> SUFFICES ASSUME ToldInStep, NEW w \in Workflows,
                      inputs[w].sequence # EGS!NoSequence,
                      NEW r \in ToSet(store.logs[Auditee]),
                      r.id = inputs[w].sequence.firstDetectedAt
               PROVE  /\ inputs[w].sequence.firstDetectedAt = Summary(w).firstDetectedAt
                      /\ IsPrefix(inputs[w].sequence.actionChain, Summary(w).actionChain)
                      /\ inputs[w].sequence.escalationDetected => Summary(w).escalationDetected
    BY DEF ChainsOnlyGrow
  <2>1. LogsOK(store) /\ FlowOK(store)
    BY DEF ToldInStep, FlowInStep
  <2>2. PICK old : /\ ReadOnce(store, w, old)
                   /\ inputs[w].sequence = EGS!summarizeSequence(old)
    BY DEF ToldInStep, WasRead
  <2> DEFINE now == getSequence(store, Auditee, w)
             told == EGS!summarizeSequence(old)
  <2>3. old \in Seq(EventRecord) /\ old # <<>>
    BY <2>2 DEF ReadOnce
  <2>4. told.firstDetectedAt = old[1].id
    BY <2>3 DEF EGS!summarizeSequence
  <2>5. Remains(store, old[1].id)
    <3>1. store.logs[Auditee] \in Seq(EventRecord)
      BY <2>1, AuditAssumption DEF LogsOK, Typed
    <3>2. r \in EventRecord /\ InLog(store, Auditee, r)
      BY <3>1 DEF ToSet, InLog, Has
    <3> QED  BY <2>2, <2>4, <3>2 DEF Remains
  <2>6. /\ old \in Seq(EventRecord) /\ now \in Seq(EventRecord)
        /\ old # <<>> /\ now # <<>> /\ Len(old) <= Len(now)
        /\ \A i \in 1 .. Len(old) : old[i] = now[i]
    BY <2>1, <2>2, <2>5, ReadIsStart
  <2>7. Summary(w) = EGS!summarizeSequence(now)
    BY DEF Summary
  <2> HIDE DEF now, told
  <2> QED  BY <2>2, <2>6, <2>7, SummaryGrows
<1> QED  BY <1>1, <1>2, <1>3, PTL DEF AuditSpec

-----------------------------------------------------------------------------
(***************************************************************************)
(* Sequences of signals and of findings, each known by its handle          *)
(***************************************************************************)

Distinct(seq) ==
  \A i, j \in 1 .. Len(seq) : seq[i].evidenceHandle = seq[j].evidenceHandle => i = j

HandlesOf(seq) == {seq[i].evidenceHandle : i \in 1 .. Len(seq)}

\* There are as many handles as elements.
LEMMA HandlesCounted ==
  ASSUME NEW T, NEW seq \in Seq(T), Distinct(seq)
  PROVE  IsFiniteSet(HandlesOf(seq)) /\ Cardinality(HandlesOf(seq)) = Len(seq)
<1> DEFINE n == Len(seq)
           f == [i \in 1 .. n |-> seq[i].evidenceHandle]
<1>1. n \in Nat /\ IsFiniteSet(1 .. n) /\ Cardinality(1 .. n) = n
  <2>1. n \in Nat
    OBVIOUS
  <2> HIDE DEF n
  <2> QED  BY <2>1, FS_Interval
<1>2. f \in Bijection(1 .. n, HandlesOf(seq))
  <2>1. f \in [1 .. n -> HandlesOf(seq)]
    BY DEF HandlesOf
  <2>2. \A i, j \in 1 .. n : f[i] = f[j] => i = j
    BY DEF Distinct
  <2>3. \A h \in HandlesOf(seq) : \E i \in 1 .. n : f[i] = h
    BY DEF HandlesOf
  <2> HIDE DEF f, n
  <2> QED  BY <2>1, <2>2, <2>3 DEF Bijection, Injection, Surjection, IsInjective
<1> HIDE DEF f, n
<1>3. ExistsBijection(1 .. n, HandlesOf(seq))
  BY <1>2 DEF ExistsBijection
<1>4. IsFiniteSet(HandlesOf(seq)) /\ Cardinality(HandlesOf(seq)) = Cardinality(1 .. n)
  BY <1>1, <1>3, FS_Bijection
<1> QED  BY <1>1, <1>4 DEF n

\* What Filter returns of distinct elements is distinct.
LEMMA FilterDistinct ==
  ASSUME NEW T, NEW seq \in Seq(T), NEW S, Distinct(seq)
  PROVE  Distinct(Filter(seq, S))
<1> DEFINE out == Filter(seq, S)
<1>1. out \in Seq(T) /\ FilteredTo(seq, S, Len(seq), out)
  BY FilterResult
<1> HIDE DEF out
<1>2. ASSUME NEW i \in 1 .. Len(out), NEW j \in 1 .. Len(out), i < j
      PROVE  out[i].evidenceHandle # out[j].evidenceHandle
  <2>1. PICK k, l \in 1 .. Len(seq) : k < l /\ out[i] = seq[k] /\ out[j] = seq[l]
    BY <1>1, <1>2 DEF FilteredTo
  <2>2. k # l
    BY <2>1
  <2> QED  BY <2>1, <2>2 DEF Distinct
<1>3. Distinct(out)
  <2> SUFFICES ASSUME NEW i \in 1 .. Len(out), NEW j \in 1 .. Len(out),
                      out[i].evidenceHandle = out[j].evidenceHandle
               PROVE  i = j
    BY DEF Distinct
  <2>1. ~(i < j) /\ ~(j < i)
    BY <1>2
  <2>2. i \in Nat /\ j \in Nat
    OBVIOUS
  <2> QED  BY <2>1, <2>2
<1> QED  BY <1>3 DEF out

\* So are two sequences that share no handle, one after the other.
LEMMA ConcatDistinct ==
  ASSUME NEW T, NEW a \in Seq(T), NEW b \in Seq(T), Distinct(a), Distinct(b),
         HandlesOf(a) \cap HandlesOf(b) = {}
  PROVE  /\ a \o b \in Seq(T) /\ Distinct(a \o b)
         /\ HandlesOf(a \o b) = HandlesOf(a) \cup HandlesOf(b)
<1> DEFINE c == a \o b
           m == Len(a)
           n == Len(b)
<1>1. /\ c \in Seq(T) /\ m \in Nat /\ n \in Nat /\ Len(c) = m + n
      /\ \A i \in 1 .. m : c[i] = a[i]
      /\ \A i \in 1 .. n : c[m + i] = b[i]
  BY ConcatProperties
<1>2. ASSUME NEW i \in 1 .. m + n
      PROVE  \/ i \in 1 .. m /\ c[i] = a[i]
             \/ i - m \in 1 .. n /\ c[i] = b[i - m]
  <2>1. CASE i <= m
    BY <1>1, <2>1
  <2>2. CASE ~(i <= m)
    <3>1. i - m \in 1 .. n /\ m + (i - m) = i
      BY <1>1, <2>2
    <3> QED  BY <1>1, <3>1
  <2> QED  BY <2>1, <2>2
<1> HIDE DEF c
<1>3. /\ \A i \in 1 .. m : a[i].evidenceHandle \in HandlesOf(a)
      /\ \A i \in 1 .. n : b[i].evidenceHandle \in HandlesOf(b)
  BY DEF HandlesOf
<1>4. HandlesOf(c) = HandlesOf(a) \cup HandlesOf(b)
  <2>1. ASSUME NEW i \in 1 .. m + n
        PROVE  c[i].evidenceHandle \in HandlesOf(a) \cup HandlesOf(b)
    BY <1>2, <1>3
  <2>2. ASSUME NEW i \in 1 .. m PROVE a[i].evidenceHandle \in HandlesOf(c)
    <3>1. i \in 1 .. m + n /\ c[i] = a[i]
      BY <1>1
    <3> QED  BY <1>1, <3>1 DEF HandlesOf
  <2>3. ASSUME NEW i \in 1 .. n PROVE b[i].evidenceHandle \in HandlesOf(c)
    <3>1. m + i \in 1 .. m + n /\ c[m + i] = b[i]
      BY <1>1
    <3> QED  BY <1>1, <3>1 DEF HandlesOf
  <2>4. HandlesOf(c) \subseteq HandlesOf(a) \cup HandlesOf(b)
    BY <1>1, <2>1 DEF HandlesOf
  <2>5. HandlesOf(a) \subseteq HandlesOf(c) /\ HandlesOf(b) \subseteq HandlesOf(c)
    BY <2>2, <2>3 DEF HandlesOf
  <2> QED  BY <2>4, <2>5
<1>5. Distinct(c)
  <2> SUFFICES ASSUME NEW i \in 1 .. m + n, NEW j \in 1 .. m + n,
                      c[i].evidenceHandle = c[j].evidenceHandle
               PROVE  i = j
    BY <1>1 DEF Distinct
  <2>1. CASE i \in 1 .. m /\ c[i] = a[i]
    <3>1. j \in 1 .. m /\ c[j] = a[j]
      BY <1>2, <1>3, <2>1
    <3> QED  BY <2>1, <3>1 DEF Distinct
  <2>2. CASE i - m \in 1 .. n /\ c[i] = b[i - m]
    <3>1. j - m \in 1 .. n /\ c[j] = b[j - m]
      BY <1>2, <1>3, <2>2
    <3>2. i - m = j - m
      BY <2>2, <3>1 DEF Distinct
    <3> QED  BY <1>1, <3>2
  <2> QED  BY <1>2, <2>1, <2>2
<1> QED  BY <1>1, <1>4, <1>5 DEF c

JoinStep(parts, f, n) == IF n = 1 THEN parts[n] ELSE f[n - 1] \o parts[n]

\* f is what FlattenSeq makes of the first m parts.
JoinedUpTo(parts, m, f) == f = [n \in 1 .. m |-> JoinStep(parts, f, n)]

\* Its recursion has a solution too.
LEMMA JoinExists ==
  ASSUME NEW parts, NEW m \in Nat
  PROVE  \E f : JoinedUpTo(parts, m, f)
<1> DEFINE Bad == {n \in Nat : ~ \E f : JoinedUpTo(parts, n, f)}
<1> SUFFICES ASSUME Bad # {} PROVE FALSE
  OBVIOUS
<1>1. PICK x \in Bad : \A y \in Bad : x <= y
  <2>1. Bad \subseteq Nat
    OBVIOUS
  <2> HIDE DEF Bad
  <2> QED  BY <2>1, LeastNumber
<1>2. CASE x = 0
  <2>1. JoinedUpTo(parts, 0, [n \in 1 .. 0 |-> <<>>])
    BY DEF JoinedUpTo, JoinStep
  <2> QED  BY <1>1, <1>2, <2>1
<1>3. CASE x > 0
  <2>1. PICK g : JoinedUpTo(parts, x - 1, g)
    BY <1>1, <1>3
  <2> DEFINE f == [n \in 1 .. x |-> IF n = x THEN JoinStep(parts, g, x) ELSE g[n]]
  <2>2. \A n \in 1 .. x - 1 : g[n] = JoinStep(parts, g, n)
    BY <2>1 DEF JoinedUpTo
  <2>3. ASSUME NEW n \in 1 .. x PROVE f[n] = JoinStep(parts, f, n)
    <3>1. n # 1 => f[n - 1] = g[n - 1]
      BY <1>1, <1>3
    <3>2. CASE n = x
      BY <1>1, <1>3, <3>1, <3>2 DEF JoinStep
    <3>3. CASE n # x
      <4>1. n \in 1 .. x - 1 /\ f[n] = g[n]
        BY <1>1, <1>3, <3>3
      <4>2. f[n] = JoinStep(parts, g, n)
        BY <2>2, <4>1
      <4> HIDE DEF f
      <4> QED  BY <3>1, <4>2 DEF JoinStep
    <3> QED  BY <3>2, <3>3
  <2>4. JoinedUpTo(parts, x, f)
    BY <2>3 DEF JoinedUpTo
  <2> QED  BY <1>1, <2>4
<1> QED  BY <1>1, <1>2, <1>3

\* So the one that FlattenSeq chooses solves it.
LEMMA FlattenJoins ==
  ASSUME NEW T, NEW parts \in Seq(Seq(T)), Len(parts) # 0
  PROVE  \E f : JoinedUpTo(parts, Len(parts), f) /\ FlattenSeq(parts) = f[Len(parts)]
<1> DEFINE f == CHOOSE f : JoinedUpTo(parts, Len(parts), f)
<1>0. Len(parts) \in Nat
  OBVIOUS
<1>1. JoinedUpTo(parts, Len(parts), f)
  <2>1. \E g : JoinedUpTo(parts, Len(parts), g)
    BY <1>0, JoinExists
  <2> QED  BY <2>1
<1>2. FlattenSeq(parts) = f[Len(parts)]
  BY DEF FlattenSeq, JoinedUpTo, JoinStep
<1> QED  BY <1>1, <1>2

\* The handles of the first n parts.
HandlesUpTo(parts, n) == UNION {HandlesOf(parts[i]) : i \in 1 .. n}

\* What FlattenSeq makes of parts that share no handle: the elements are distinct, and
\* their handles are those of the parts.
LEMMA FlattenDistinct ==
  ASSUME NEW T, NEW parts \in Seq(Seq(T)), \A i \in 1 .. Len(parts) : Distinct(parts[i]),
         \A i, j \in 1 .. Len(parts) : i # j => HandlesOf(parts[i]) \cap HandlesOf(parts[j]) = {}
  PROVE  /\ FlattenSeq(parts) \in Seq(T) /\ Distinct(FlattenSeq(parts))
         /\ HandlesOf(FlattenSeq(parts)) = HandlesUpTo(parts, Len(parts))
<1> DEFINE m == Len(parts)
<1>1. m \in Nat /\ \A i \in 1 .. m : parts[i] \in Seq(T)
  OBVIOUS
<1>2. CASE m = 0
  <2>1. parts = <<>> /\ FlattenSeq(parts) = <<>>
    BY <1>2 DEF FlattenSeq
  <2>2. <<>> \in Seq(T) /\ Len(<<>>) = 0 /\ 1 .. 0 = {}
    OBVIOUS
  <2>3. Distinct(<<>>) /\ HandlesOf(<<>>) = {} /\ HandlesUpTo(<<>>, 0) = {}
    BY <2>2 DEF Distinct, HandlesOf, HandlesUpTo
  <2> QED  BY <2>1, <2>2, <2>3
<1>3. CASE m # 0
  <2>1. PICK f : JoinedUpTo(parts, m, f) /\ FlattenSeq(parts) = f[m]
    BY <1>3, FlattenJoins
  <2>2. \A n \in 1 .. m : f[n] = JoinStep(parts, f, n)
    BY <2>1 DEF JoinedUpTo
  <2> DEFINE Good(n) == /\ f[n] \in Seq(T) /\ Distinct(f[n])
                        /\ HandlesOf(f[n]) = HandlesUpTo(parts, n)
             Bad == {n \in 1 .. m : ~Good(n)}
  <2>3. Bad = {}
    <3> SUFFICES ASSUME Bad # {} PROVE FALSE
      OBVIOUS
    <3>1. PICK x \in Bad : \A y \in Bad : x <= y
      <4>1. Bad \subseteq Nat
        OBVIOUS
      <4> HIDE DEF Bad
      <4> QED  BY <4>1, LeastNumber
    <3>2. x \in 1 .. m /\ ~Good(x)
      OBVIOUS
    <3>3. CASE x = 1
      <4>1. f[1] = parts[1] /\ 1 \in 1 .. m
        BY <2>2, <3>2, <3>3 DEF JoinStep
      <4>2. HandlesUpTo(parts, 1) = HandlesOf(parts[1])
        <5>1. 1 .. 1 = {1}
          OBVIOUS
        <5> QED  BY <5>1 DEF HandlesUpTo
      <4>3. Good(1)
        BY <1>1, <4>1, <4>2
      <4> QED  BY <3>2, <3>3, <4>3
    <3>4. CASE x # 1
      <4> DEFINE y == x - 1
      <4>1. y \in 1 .. m /\ y < x /\ 1 .. x = (1 .. y) \cup {x} /\ x \notin 1 .. y
            /\ \A i \in 1 .. y : i \in 1 .. m
        BY <1>1, <3>2, <3>4
      <4>2. f[x] = f[y] \o parts[x]
        BY <2>2, <3>2, <3>4 DEF JoinStep
      <4> HIDE DEF y
      <4>3. Good(y)
        <5>1. y \notin Bad
          <6>1. x \in Nat /\ y \in Nat
            BY <3>2, <4>1
          <6> HIDE DEF Bad
          <6> QED  BY <3>1, <4>1, <6>1
        <5> QED  BY <4>1, <5>1
      <4> HIDE DEF Bad, m
      <4>4. HandlesOf(f[y]) \cap HandlesOf(parts[x]) = {}
        <5>1. \A i \in 1 .. y : HandlesOf(parts[i]) \cap HandlesOf(parts[x]) = {}
          BY <3>2, <4>1 DEF m
        <5> QED  BY <4>3, <5>1 DEF HandlesUpTo
      <4>5. parts[x] \in Seq(T) /\ Distinct(parts[x])
        BY <1>1, <3>2 DEF m
      <4>6. /\ f[x] \in Seq(T) /\ Distinct(f[x])
            /\ HandlesOf(f[x]) = HandlesOf(f[y]) \cup HandlesOf(parts[x])
        BY <4>2, <4>3, <4>4, <4>5, ConcatDistinct
      <4>7. HandlesUpTo(parts, x) = HandlesUpTo(parts, y) \cup HandlesOf(parts[x])
        BY <4>1 DEF HandlesUpTo
      <4>8. Good(x)
        BY <4>3, <4>6, <4>7
      <4> QED  BY <3>2, <4>8
    <3> QED  BY <3>3, <3>4
  <2>4. Good(m)
    <3>1. m \in 1 .. m
      BY <1>1, <1>3
    <3> QED  BY <2>3, <3>1
  <2> QED  BY <2>1, <2>4
<1> QED  BY <1>2, <1>3

\* The handles that Filter keeps.
LEMMA FilterHandles ==
  ASSUME NEW T, NEW seq \in Seq(T), NEW S
  PROVE  HandlesOf(Filter(seq, S)) = {seq[i].evidenceHandle : i \in {k \in 1 .. Len(seq) : seq[k] \in S}}
<1> DEFINE out == Filter(seq, S)
           kept == {k \in 1 .. Len(seq) : seq[k] \in S}
<1>1. FilteredTo(seq, S, Len(seq), out)
  BY FilterResult
<1> HIDE DEF out
<1>2. ASSUME NEW i \in 1 .. Len(out) PROVE \E k \in kept : out[i] = seq[k]
  BY <1>1 DEF FilteredTo
<1>3. ASSUME NEW k \in kept PROVE \E i \in 1 .. Len(out) : out[i] = seq[k]
  BY <1>1 DEF FilteredTo
<1> HIDE DEF kept
<1>4. HandlesOf(out) = {seq[i].evidenceHandle : i \in kept}
  BY <1>2, <1>3 DEF HandlesOf
<1> QED  BY <1>4 DEF out, kept

\* Urielle's operators on sequences are those of this module.
LEMMA SameOperators ==
  ASSUME NEW seq, NEW S
  PROVE  /\ U!Filter(seq, S) = Filter(seq, S)
         /\ U!FlattenSeq(seq) = FlattenSeq(seq)
         /\ U!ToSet(seq) = ToSet(seq)
         /\ U!EGS!NoSequence = EGS!NoSequence
<1>1. U!Filter(seq, S) = Filter(seq, S)
  BY DEF U!Filter, Filter
<1>2. U!FlattenSeq(seq) = FlattenSeq(seq)
  BY DEF U!FlattenSeq, FlattenSeq
<1>3. U!ToSet(seq) = ToSet(seq)
  BY DEF U!ToSet, ToSet
<1>4. U!EGS!NoSequence = EGS!NoSequence
  BY DEF U!EGS!NoSequence, EGS!NoSequence
<1> QED  BY <1>1, <1>2, <1>3, <1>4

-----------------------------------------------------------------------------
(***************************************************************************)
(* The inputs of a report                                                  *)
(***************************************************************************)

Told == {EGS!NoSequence} \cup {EGS!summarizeSequence(old) : old \in Seq(EventRecord) \ {<<>>}}

Signal == {U!Flattened(EGS!fromEventRecord(r, sequence)) : r \in EventRecord, sequence \in Told}

\* Records of a workflow (or of none) whose handles it owns, and in the order of these.
RecordsOK(records, w, n, owner) ==
  /\ records \in Seq(EventRecord) /\ Ascending(records)
  /\ \A r \in EventRecord : Has(records, r) => r.handle \in 1 .. n /\ owner[r.handle] = w
  /\ \A r, q \in EventRecord :
       Has(records, r) /\ Has(records, q) /\ r.id < q.id => r.handle < q.handle

LEMMA RecordsInOrder ==
  ASSUME NEW w, NEW n, NEW owner, NEW records, RecordsOK(records, w, n, owner)
  PROVE  /\ records \in Seq(EventRecord)
         /\ \A i \in 1 .. Len(records) :
              /\ records[i] \in EventRecord /\ records[i].handle \in 1 .. n
              /\ owner[records[i].handle] = w
         /\ \A i, j \in 1 .. Len(records) : i < j => records[i].handle < records[j].handle
<1>1. records \in Seq(EventRecord)
  BY DEF RecordsOK
<1>2. \A i \in 1 .. Len(records) : records[i] \in EventRecord /\ Has(records, records[i])
  BY <1>1 DEF Has
<1>3. \A i, j \in 1 .. Len(records) : i < j => records[i].id < records[j].id
  BY DEF RecordsOK, Ascending
<1> QED  BY <1>1, <1>2, <1>3 DEF RecordsOK

\* An input with signals of handles that the workflow owns, all different, and with a
\* sequence exactly if it is a workflow's.
InputOK(input, w, n, owner) ==
  /\ input \in [signals : Seq(Signal), sequence : Told]
  /\ Distinct(input.signals)
  /\ \A h \in HandlesOf(input.signals) : h \in 1 .. n /\ owner[h] = w
  /\ input # NoInput => /\ input.signals # <<>>
                        /\ input.sequence = EGS!NoSequence <=> w = NoWorkflow

LEMMA NoInputOK ==
  ASSUME NEW w, NEW n, NEW owner
  PROVE  InputOK(NoInput, w, n, owner)
<1>1. <<>> \in Seq(Signal) /\ Len(<<>>) = 0 /\ 1 .. 0 = {}
  OBVIOUS
<1>2. Distinct(<<>>) /\ HandlesOf(<<>>) = {}
  BY <1>1 DEF Distinct, HandlesOf
<1> QED  BY <1>1, <1>2 DEF InputOK, NoInput, Told

\* The signals that are made of such records.
LEMMA SignalsOK ==
  ASSUME NEW w, NEW n, NEW owner, NEW records, RecordsOK(records, w, n, owner),
         NEW sequence \in Told, NEW S
  PROVE  LET egs == Filter(Signals(records, sequence), S)
             flat == [i \in DOMAIN egs |-> U!Flattened(egs[i])]
         IN  /\ flat \in Seq(Signal) /\ Distinct(flat)
             /\ \A h \in HandlesOf(flat) : h \in 1 .. n /\ owner[h] = w
<1> DEFINE made == Signals(records, sequence)
           Made == {EGS!fromEventRecord(r, sequence) : r \in EventRecord}
           egs == Filter(made, S)
           flat == [i \in DOMAIN egs |-> U!Flattened(egs[i])]
<1>1. /\ records \in Seq(EventRecord)
      /\ \A i \in 1 .. Len(records) :
           /\ records[i] \in EventRecord
           /\ records[i].handle \in 1 .. n /\ owner[records[i].handle] = w
      /\ \A i, j \in 1 .. Len(records) : i < j => records[i].handle < records[j].handle
  BY RecordsInOrder
<1>2. /\ made \in Seq(Made) /\ Len(made) = Len(records)
      /\ \A i \in 1 .. Len(records) : made[i] = EGS!fromEventRecord(records[i], sequence)
  BY <1>1 DEF Signals
<1> HIDE DEF made, Made
<1>3. egs \in Seq(Made) /\ FilteredTo(made, S, Len(made), egs)
  BY <1>2, FilterResult
<1> HIDE DEF egs
<1>4. Len(egs) \in Nat /\ Len(flat) = Len(egs) /\ flat \in Seq({U!Flattened(e) : e \in Made})
      /\ \A i \in 1 .. Len(egs) : flat[i] = U!Flattened(egs[i])
  BY <1>3
<1> HIDE DEF flat
<1>5. \A e : U!Flattened(e).evidenceHandle = e.core.evidenceHandle
  BY DEF U!Flattened
<1>6. \A r : EGS!fromEventRecord(r, sequence).core.evidenceHandle = r.handle
  BY DEF EGS!fromEventRecord
<1>12. /\ \A i \in 1 .. Len(egs) : flat[i].evidenceHandle = egs[i].core.evidenceHandle
       /\ \A k \in 1 .. Len(records) : made[k].core.evidenceHandle = records[k].handle
  <2>1. \A i \in 1 .. Len(egs) : flat[i].evidenceHandle = egs[i].core.evidenceHandle
    BY <1>4, <1>5
  <2>2. \A k \in 1 .. Len(records) : made[k].core.evidenceHandle = records[k].handle
    BY <1>2, <1>6
  <2> QED  BY <2>1, <2>2
<1>7. flat \in Seq(Signal)
  <2>1. {U!Flattened(e) : e \in Made} \subseteq Signal
    BY DEF Made, Signal
  <2> HIDE DEF Made
  <2> QED  BY <1>4, <2>1
<1>8. ASSUME NEW i \in 1 .. Len(egs)
      PROVE  \E k \in 1 .. Len(records) : flat[i].evidenceHandle = records[k].handle
  <2>1. PICK k \in 1 .. Len(records) : egs[i] = made[k]
    BY <1>2, <1>3 DEF FilteredTo
  <2> QED  BY <1>12, <2>1
<1>9. ASSUME NEW i \in 1 .. Len(egs), NEW j \in 1 .. Len(egs), i < j
      PROVE  flat[i].evidenceHandle # flat[j].evidenceHandle
  <2>1. PICK k, l \in 1 .. Len(records) : k < l /\ egs[i] = made[k] /\ egs[j] = made[l]
    BY <1>2, <1>3, <1>9 DEF FilteredTo
  <2>2. flat[i].evidenceHandle = records[k].handle /\ flat[j].evidenceHandle = records[l].handle
    BY <1>12, <2>1
  <2>3. records[k].handle < records[l].handle /\ records[k].handle \in Int
    BY <1>1, <2>1
  <2> QED  BY <2>2, <2>3
<1>10. Distinct(flat)
  <2> SUFFICES ASSUME NEW i \in 1 .. Len(egs), NEW j \in 1 .. Len(egs),
                      flat[i].evidenceHandle = flat[j].evidenceHandle
               PROVE  i = j
    BY <1>4 DEF Distinct
  <2>1. ~(i < j) /\ ~(j < i)
    BY <1>9
  <2> QED  BY <1>4, <2>1
<1>11. \A h \in HandlesOf(flat) : h \in 1 .. n /\ owner[h] = w
  BY <1>1, <1>4, <1>8 DEF HandlesOf
<1> QED  BY <1>7, <1>10, <1>11 DEF flat, egs, made

\* The input that is made of a workflow's records and a summary of its sequence.
LEMMA InputOfOK ==
  ASSUME NEW w, w # NoWorkflow, NEW n, NEW owner, NEW records, RecordsOK(records, w, n, owner),
         NEW now \in Seq(EventRecord), now # <<>>
  PROVE  InputOK(InputOf(records, EGS!summarizeSequence(now)), w, n, owner)
<1> DEFINE sequence == EGS!summarizeSequence(now)
           made == Signals(records, sequence)
           egs == LetOut(made)
           flat == [i \in DOMAIN egs |-> U!Flattened(egs[i])]
           taken == TakenIn(egs)
<1>1. sequence \in Told
  BY DEF Told
<1>2. sequence # EGS!NoSequence
  <2>1. sequence.patternType \in {"CONTAINED", "UNKNOWN"}
    BY SummaryOf
  <2>2. EGS!NoSequence.patternType = "none"
    BY DEF EGS!NoSequence
  <2> QED  BY <2>1, <2>2
<1> HIDE DEF sequence
<1>3. flat \in Seq(Signal) /\ Distinct(flat) /\ \A h \in HandlesOf(flat) : h \in 1 .. n /\ owner[h] = w
  <2> DEFINE S == {s \in ToSet(made) : EGS!Parses(s)}
  <2>1. egs = Filter(made, S)
    BY DEF LetOut
  <2> HIDE DEF S
  <2> QED  BY <1>1, <2>1, SignalsOK
<1>4. \E S : taken = Filter(flat, S)
  BY DEF TakenIn
<1>5. InputOf(records, sequence)
        = IF taken = <<>> THEN NoInput ELSE [signals |-> taken, sequence |-> sequence]
  BY DEF InputOf
<1> HIDE DEF flat, taken
<1>6. taken \in Seq(Signal) /\ Distinct(taken)
  BY <1>3, <1>4, FilterResult, FilterDistinct
<1>7. \A h \in HandlesOf(taken) : h \in 1 .. n /\ owner[h] = w
  <2>1. PICK S : taken = Filter(flat, S)
    BY <1>4
  <2>2. HandlesOf(taken) \subseteq HandlesOf(flat)
    <3>1. HandlesOf(taken) = {flat[i].evidenceHandle : i \in {k \in 1 .. Len(flat) : flat[k] \in S}}
      BY <1>3, <2>1, FilterHandles
    <3> QED  BY <3>1 DEF HandlesOf
  <2> QED  BY <1>3, <2>2
<1>8. CASE taken = <<>>
  BY <1>5, <1>8, NoInputOK DEF sequence
<1>9. CASE taken # <<>>
  <2> DEFINE input == [signals |-> taken, sequence |-> sequence]
  <2>1. /\ input \in [signals : Seq(Signal), sequence : Told]
        /\ input.signals = taken /\ input.sequence = sequence
    BY <1>1, <1>6
  <2> HIDE DEF input
  <2>2. InputOK(input, w, n, owner)
    BY <1>2, <1>6, <1>7, <1>9, <2>1 DEF InputOK
  <2>3. InputOf(records, sequence) = input
    BY <1>5, <1>9 DEF input
  <2> QED  BY <2>2, <2>3 DEF sequence
<1> QED  BY <1>8, <1>9

\* The signals of events that belong to no workflow.
LEMMA OthersOK ==
  ASSUME NEW n, NEW owner, NEW others, RecordsOK(others, NoWorkflow, n, owner), others # <<>>
  PROVE  InputOK([signals |-> [i \in DOMAIN others |->
                                 U!Flattened(EGS!fromEventRecord(others[i], EGS!NoSequence))],
                  sequence |-> EGS!NoSequence], NoWorkflow, n, owner)
<1> DEFINE flat == [i \in DOMAIN others |->
                      U!Flattened(EGS!fromEventRecord(others[i], EGS!NoSequence))]
           input == [signals |-> flat, sequence |-> EGS!NoSequence]
<1>1. /\ others \in Seq(EventRecord) /\ Len(others) \in Nat /\ Len(others) # 0
      /\ \A i \in 1 .. Len(others) :
           /\ others[i] \in EventRecord
           /\ others[i].handle \in 1 .. n /\ owner[others[i].handle] = NoWorkflow
      /\ \A i, j \in 1 .. Len(others) : i < j => others[i].handle < others[j].handle
  BY RecordsInOrder
<1>2. EGS!NoSequence \in Told
  BY DEF Told
<1>3. \A r : U!Flattened(EGS!fromEventRecord(r, EGS!NoSequence)).evidenceHandle = r.handle
  BY DEF U!Flattened, EGS!fromEventRecord
<1>4. \A r \in EventRecord : U!Flattened(EGS!fromEventRecord(r, EGS!NoSequence)) \in Signal
  BY <1>2 DEF Signal
<1>5. flat \in Seq(Signal) /\ Len(flat) = Len(others)
  BY <1>1, <1>4
<1>6. \A i \in 1 .. Len(others) : flat[i].evidenceHandle = others[i].handle
  BY <1>1, <1>3
<1> HIDE DEF flat
<1>7. Distinct(flat)
  <2> SUFFICES ASSUME NEW i \in 1 .. Len(others), NEW j \in 1 .. Len(others),
                      flat[i].evidenceHandle = flat[j].evidenceHandle
               PROVE  i = j
    BY <1>5 DEF Distinct
  <2>1. others[i].handle = others[j].handle /\ others[i].handle \in Nat
    BY <1>1, <1>6
  <2>2. ~(i < j) /\ ~(j < i)
    BY <1>1, <2>1
  <2> QED  BY <1>1, <2>2
<1>8. \A h \in HandlesOf(flat) : h \in 1 .. n /\ owner[h] = NoWorkflow
  BY <1>1, <1>5, <1>6 DEF HandlesOf
<1>9. flat # <<>>
  BY <1>1, <1>5
<1>10. /\ input \in [signals : Seq(Signal), sequence : Told]
       /\ input.signals = flat /\ input.sequence = EGS!NoSequence
  BY <1>2, <1>5
<1> HIDE DEF input
<1>11. InputOK(input, NoWorkflow, n, owner)
  BY <1>7, <1>8, <1>9, <1>10 DEF InputOK
<1> QED  BY <1>11 DEF input, flat

\* A new handle disturbs none.
LEMMA OwnersStay ==
  ASSUME NEW n \in Nat, NEW owner, NEW later, \A h \in 1 .. n : later[h] = owner[h], NEW w
  PROVE  /\ \A input : InputOK(input, w, n, owner) => InputOK(input, w, n + 1, later)
         /\ \A records : RecordsOK(records, w, n, owner) => RecordsOK(records, w, n + 1, later)
<1>1. \A h \in 1 .. n : h \in 1 .. n + 1
  OBVIOUS
<1>2. ASSUME NEW input, InputOK(input, w, n, owner) PROVE InputOK(input, w, n + 1, later)
  BY <1>1, <1>2 DEF InputOK
<1>3. ASSUME NEW records, RecordsOK(records, w, n, owner) PROVE RecordsOK(records, w, n + 1, later)
  BY <1>1, <1>3 DEF RecordsOK
<1> QED  BY <1>2, <1>3

\* An output adds records of one new handle to the logs, of the workflow it belongs to.
LEMMA StoreAddsOne ==
  ASSUME LogsOK(store), FlowOK(store), outputs \in Nat, Store
  PROVE  \E w : \A u \in Tenants, r \in EventRecord :
           InLog(store', u, r)
             => InLog(store, u, r) \/ (r.handle = outputs + 1 /\ r.workflow = w)
<1>1. PICK tenants \in StoredUnder : \E event :
            /\ IsEvent(event, outputs + 1) /\ AppendedOver(tenants, event)
            /\ tenants[1] \in Tenants
            /\ Len(tenants) # 1 => Len(tenants) = 2 /\ tenants[2] \in Tenants
  BY StoreAppends
<1>2. PICK event :
            /\ IsEvent(event, outputs + 1) /\ AppendedOver(tenants, event)
            /\ tenants[1] \in Tenants
            /\ Len(tenants) # 1 => Len(tenants) = 2 /\ tenants[2] \in Tenants
  BY <1>1
<1> DEFINE heard == Appended(store, tenants[1], event)
           both == Appended(heard, tenants[2], event)
           Adds(a, s) == \A u \in Tenants, r \in EventRecord :
                           InLog(a, u, r) => \/ InLog(s, u, r)
                                             \/ /\ r.handle = outputs + 1
                                                /\ r.workflow = event.workflow
<1>3. ASSUME NEW s, LogsOK(s), FlowOK(s), NEW t \in Tenants PROVE Adds(Appended(s, t, event), s)
  <2>1. /\ RecordOf(s, t, event).handle = outputs + 1
        /\ RecordOf(s, t, event).workflow = event.workflow
    BY <1>2, <1>3, AppendGives
  <2> QED  BY <1>2, <1>3, <2>1, AppendAdds
<1>4. Adds(heard, store) /\ LogsOK(heard) /\ FlowOK(heard)
  BY <1>2, <1>3, AppendKeepsFlow
<1>5. store' = IF Len(tenants) = 1 THEN heard ELSE both
  BY <1>2 DEF AppendedOver
<1> HIDE DEF heard
<1>6. Len(tenants) # 1 => Adds(both, heard)
  BY <1>2, <1>3, <1>4
<1> HIDE DEF both
<1> QED  BY <1>4, <1>5, <1>6

\* Every handle is owned by one workflow, or by none: what is logged, what was read of a
\* workflow, and what was taken into its input.
Owned(s, n, read, given, owner) ==
  /\ \A t \in Tenants, r \in EventRecord : InLog(s, t, r) => owner[r.handle] = r.workflow
  /\ \A w \in Workflows : RecordsOK(read[w], w, n, owner)
  /\ \A w \in Workflows \cup {NoWorkflow} : InputOK(given[w], w, n, owner)

OwnedInStep ==
  /\ HandlesInStep
  /\ DOMAIN fetched = Workflows /\ DOMAIN inputs = Workflows \cup {NoWorkflow}
  /\ \E owner : Owned(store, outputs, fetched, inputs, owner)

LEMMA NothingReadOK ==
  ASSUME NEW w, NEW n, NEW owner
  PROVE  RecordsOK(<<>>, w, n, owner)
<1>1. <<>> \in Seq(EventRecord) /\ Len(<<>>) = 0 /\ 1 .. 0 = {}
  OBVIOUS
<1> QED  BY <1>1 DEF RecordsOK, Ascending, Has

\* What is read of the maps is owned.
LEMMA ReadOK ==
  ASSUME Auditee \in Single, NEW s, LogsOK(s), FlowOK(s), NEW n, HandlesOK(s, n),
         NEW read, NEW given, NEW owner, Owned(s, n, read, given, owner)
  PROVE  /\ \A w \in Workflows : RecordsOK(getSequence(s, Auditee, w), w, n, owner)
         /\ RecordsOK(Filter(s.logs[Auditee], {r \in EventRecord : r.workflow = NoWorkflow}),
                      NoWorkflow, n, owner)
<1>1. Auditee \in Tenants
  BY AuditAssumption
<1>2. ASSUME NEW r \in EventRecord, InLog(s, Auditee, r)
      PROVE  r.handle \in 1 .. n /\ owner[r.handle] = r.workflow
  BY <1>1, <1>2 DEF Owned, HandlesOK
<1>3. \A r, q \in EventRecord : InLog(s, Auditee, r) /\ InLog(s, Auditee, q) /\ r.id < q.id
                               => r.handle < q.handle
  BY DEF HandlesOK
<1>4. ASSUME NEW w \in Workflows PROVE RecordsOK(getSequence(s, Auditee, w), w, n, owner)
  <2> DEFINE a == getSequence(s, Auditee, w)
  <2>1. /\ a \in Seq(EventRecord) /\ Ascending(a)
        /\ \A r \in EventRecord : Has(a, r) <=> InFlow(s, w, r) /\ r.partner = Auditee
    BY <1>1, SequenceIsEnd
  <2> HIDE DEF a
  <2>2. \A r \in EventRecord : Has(a, r) => r.workflow = w /\ InLog(s, Auditee, r)
    BY <2>1 DEF FlowOK
  <2>3. RecordsOK(a, w, n, owner)
    BY <1>2, <1>3, <2>1, <2>2 DEF RecordsOK
  <2> QED  BY <2>3 DEF a
<1>5. RecordsOK(Filter(s.logs[Auditee], {r \in EventRecord : r.workflow = NoWorkflow}),
                NoWorkflow, n, owner)
  <2> DEFINE log == s.logs[Auditee]
             S == {r \in EventRecord : r.workflow = NoWorkflow}
             b == Filter(log, S)
  <2>1. log \in Seq(EventRecord) /\ Ascending(log)
    BY <1>1, LogAscends
  <2>2. \A r \in EventRecord : Has(log, r) <=> InLog(s, Auditee, r)
    BY DEF InLog
  <2> HIDE DEF log
  <2>3. b \in Seq(EventRecord) /\ Ascending(b)
    BY <2>1, FilterResult, FilterAscends
  <2>4. \A r \in EventRecord : Has(b, r) <=> Has(log, r) /\ r \in S
    BY <2>1, FilterHas
  <2> HIDE DEF b
  <2>5. RecordsOK(b, NoWorkflow, n, owner)
    BY <1>2, <1>3, <2>2, <2>3, <2>4 DEF RecordsOK
  <2> QED  BY <2>5 DEF b, log
<1> QED  BY <1>4, <1>5

LEMMA AuditKeepsHandles ==
  ASSUME HandlesInStep, [AuditNext]_auditVars
  PROVE  HandlesInStep'
<1>1. CASE Store
  <2>1. [Next]_vars
    BY <1>1 DEF Next
  <2> QED  BY <2>1, HandlesNext
<1>2. CASE UNCHANGED <<store, outputs, client>>
  <2>1. [Next]_vars
    BY <1>2 DEF vars
  <2> QED  BY <2>1, HandlesNext
<1> QED
  BY <1>1, <1>2 DEF AuditNext, FetchRecords, FetchSummary, FetchOthers, auditVars

LEMMA OwnedNext ==
  ASSUME Auditee \in Single, OwnedInStep, [AuditNext]_auditVars
  PROVE  OwnedInStep'
<1>1. HandlesInStep /\ HandlesInStep'
  BY AuditKeepsHandles DEF OwnedInStep
<1>2. LogsOK(store) /\ FlowOK(store) /\ HandlesOK(store, outputs) /\ outputs \in Nat
  BY <1>1 DEF HandlesInStep, FlowInStep
<1>3. PICK owner : Owned(store, outputs, fetched, inputs, owner)
  BY DEF OwnedInStep
<1>4. DOMAIN fetched = Workflows /\ DOMAIN inputs = Workflows \cup {NoWorkflow}
  BY DEF OwnedInStep
<1>5. CASE UNCHANGED <<store, outputs, fetched, inputs>>
  BY <1>1, <1>5 DEF OwnedInStep
<1>6. CASE Store /\ UNCHANGED <<fetched, inputs>>
  <2> DEFINE n == outputs
  <2>1. PICK workflow : \A u \in Tenants, r \in EventRecord :
          InLog(store', u, r)
            => InLog(store, u, r) \/ (r.handle = n + 1 /\ r.workflow = workflow)
    BY <1>2, <1>6, StoreAddsOne
  <2>2. outputs' = n + 1
    BY <1>2, <1>6, StoreAppends
  <2> DEFINE later == [h \in 1 .. n + 1 |-> IF h = n + 1 THEN workflow ELSE owner[h]]
  <2>3. later[n + 1] = workflow /\ \A h \in 1 .. n : later[h] = owner[h]
    BY <1>2
  <2> HIDE DEF later
  <2>4. ASSUME NEW u \in Tenants, NEW r \in EventRecord, InLog(store', u, r)
        PROVE  later[r.handle] = r.workflow
    <3>1. CASE InLog(store, u, r)
      <4>1. r.handle \in 1 .. n /\ owner[r.handle] = r.workflow
        BY <1>2, <1>3, <3>1 DEF Owned, HandlesOK
      <4> QED  BY <2>3, <4>1
    <3>2. CASE r.handle = n + 1 /\ r.workflow = workflow
      BY <2>3, <3>2
    <3> QED  BY <2>1, <2>4, <3>1, <3>2
  <2>5. /\ \A w \in Workflows : RecordsOK(fetched[w], w, n + 1, later)
        /\ \A w \in Workflows \cup {NoWorkflow} : InputOK(inputs[w], w, n + 1, later)
    BY <1>2, <1>3, <2>3, OwnersStay DEF Owned
  <2>6. Owned(store', outputs', fetched', inputs', later)
    BY <1>6, <2>2, <2>4, <2>5 DEF Owned
  <2> QED  BY <1>1, <1>4, <1>6, <2>6 DEF OwnedInStep
<1>7. ASSUME NEW v \in Workflows, FetchRecords(v) PROVE OwnedInStep'
  <2> DEFINE now == getSequence(store, Auditee, v)
  <2>1. /\ fetched' = [fetched EXCEPT ![v] = now] /\ store' = store /\ outputs' = outputs
        /\ inputs' = inputs
    BY <1>7 DEF FetchRecords
  <2>2. RecordsOK(now, v, outputs, owner)
    BY <1>2, <1>3, ReadOK
  <2> HIDE DEF now
  <2>3. /\ DOMAIN fetched' = Workflows /\ fetched'[v] = now
        /\ \A w \in Workflows \ {v} : fetched'[w] = fetched[w]
    BY <1>4, <2>1
  <2>4. Owned(store, outputs, fetched', inputs, owner)
    BY <1>3, <2>2, <2>3 DEF Owned
  <2> QED  BY <1>1, <1>4, <2>1, <2>3, <2>4 DEF OwnedInStep
<1>8. ASSUME NEW v \in Workflows, FetchSummary(v) PROVE OwnedInStep'
  <2> DEFINE now == getSequence(store, Auditee, v)
             input == InputOf(fetched[v], EGS!summarizeSequence(now))
  <2>1. /\ fetched' = [fetched EXCEPT ![v] = <<>>] /\ store' = store /\ outputs' = outputs
        /\ inputs' = [inputs EXCEPT ![v] = input] /\ now # <<>>
    BY <1>8 DEF FetchSummary
  <2>2. InputOK(input, v, outputs, owner)
    <3>1. v # NoWorkflow
      BY EventStoreAssumption
    <3>2. RecordsOK(fetched[v], v, outputs, owner) /\ RecordsOK(now, v, outputs, owner)
      BY <1>2, <1>3, ReadOK DEF Owned
    <3>3. now \in Seq(EventRecord)
      BY <3>2 DEF RecordsOK
    <3> HIDE DEF now
    <3> QED  BY <2>1, <3>1, <3>2, <3>3, InputOfOK
  <2> HIDE DEF input
  <2>3. /\ DOMAIN fetched' = Workflows /\ fetched'[v] = <<>>
        /\ \A w \in Workflows \ {v} : fetched'[w] = fetched[w]
        /\ DOMAIN inputs' = Workflows \cup {NoWorkflow} /\ inputs'[v] = input
        /\ \A w \in (Workflows \cup {NoWorkflow}) \ {v} : inputs'[w] = inputs[w]
    BY <1>4, <2>1
  <2>4. Owned(store, outputs, fetched', inputs', owner)
    <3>1. \A w \in Workflows : RecordsOK(fetched'[w], w, outputs, owner)
      BY <1>3, <2>3, NothingReadOK DEF Owned
    <3>2. \A w \in Workflows \cup {NoWorkflow} : InputOK(inputs'[w], w, outputs, owner)
      BY <1>3, <2>2, <2>3 DEF Owned
    <3> QED  BY <1>3, <3>1, <3>2 DEF Owned
  <2> QED  BY <1>1, <2>1, <2>3, <2>4 DEF OwnedInStep
<1>9. CASE FetchOthers
  <2> DEFINE others == Filter(store.logs[Auditee], {r \in EventRecord : r.workflow = NoWorkflow})
             flat == [i \in DOMAIN others |->
                        U!Flattened(EGS!fromEventRecord(others[i], EGS!NoSequence))]
             input == [signals |-> flat, sequence |-> EGS!NoSequence]
  <2>1. /\ fetched' = fetched /\ store' = store /\ outputs' = outputs /\ others # <<>>
        /\ inputs' = [inputs EXCEPT ![NoWorkflow].signals = flat]
    BY <1>9 DEF FetchOthers
  <2>2. RecordsOK(others, NoWorkflow, outputs, owner)
    BY <1>2, <1>3, ReadOK
  <2>3. InputOK(input, NoWorkflow, outputs, owner)
    BY <2>1, <2>2, OthersOK
  <2> HIDE DEF flat
  <2>4. inputs'[NoWorkflow] = input
    <3>1. InputOK(inputs[NoWorkflow], NoWorkflow, outputs, owner)
      BY <1>3 DEF Owned
    <3>2. /\ inputs[NoWorkflow] \in [signals : Seq(Signal), sequence : Told]
          /\ inputs[NoWorkflow].sequence = EGS!NoSequence
      BY <3>1 DEF InputOK, NoInput
    <3>3. inputs'[NoWorkflow] = [inputs[NoWorkflow] EXCEPT !.signals = flat]
      BY <1>4, <2>1
    <3> QED  BY <3>2, <3>3
  <2> HIDE DEF input
  <2>5. /\ DOMAIN inputs' = Workflows \cup {NoWorkflow}
        /\ \A w \in Workflows : inputs'[w] = inputs[w]
    BY <1>4, <2>1, EventStoreAssumption
  <2>6. Owned(store, outputs, fetched, inputs', owner)
    BY <1>3, <2>3, <2>4, <2>5 DEF Owned
  <2> QED  BY <1>1, <1>4, <2>1, <2>5, <2>6 DEF OwnedInStep
<1> QED
  BY <1>5, <1>6, <1>7, <1>8, <1>9 DEF AuditNext, auditVars

LEMMA OwnedInit == AuditInit => OwnedInStep
<1> SUFFICES ASSUME AuditInit PROVE OwnedInStep
  OBVIOUS
<1>1. HandlesInStep
  BY HandlesInit DEF AuditInit
<1>2. store = Empty /\ DOMAIN fetched = Workflows /\ DOMAIN inputs = Workflows \cup {NoWorkflow}
  BY DEF AuditInit
<1>3. \A t \in Tenants, r \in EventRecord : ~InLog(store, t, r)
  <2>1. \A t \in Tenants : store.logs[t] = <<>>
    BY <1>2 DEF Empty
  <2> QED  BY <2>1 DEF InLog, Has
<1>4. /\ \A w \in Workflows : fetched[w] = <<>>
      /\ \A w \in Workflows \cup {NoWorkflow} : inputs[w] = NoInput
  BY DEF AuditInit
<1>5. Owned(store, outputs, fetched, inputs, <<>>)
  BY <1>3, <1>4, NothingReadOK, NoInputOK DEF Owned
<1> QED  BY <1>1, <1>2, <1>5 DEF OwnedInStep

-----------------------------------------------------------------------------
(***************************************************************************)
(* The report that is made of inputs which share no handle                 *)
(***************************************************************************)

Input == [signals : Seq(Signal), sequence : Told]

Finding == {U!generateFinding(s, i) : s \in Signal, i \in Nat}

ShareNone(ins) ==
  /\ ins \in Seq(Input)
  /\ \A i \in 1 .. Len(ins) : Distinct(ins[i].signals)
  /\ \A i, j \in 1 .. Len(ins) :
       i # j => HandlesOf(ins[i].signals) \cap HandlesOf(ins[j].signals) = {}

SignalsOf(ins) == [i \in DOMAIN ins |-> ins[i].signals]

\* The handles of such inputs.
AllHandles(ins) == UNION {HandlesOf(ins[i].signals) : i \in 1 .. Len(ins)}

\* The signals of all inputs in one sequence.
LEMMA JoinedSignals ==
  ASSUME NEW ins, ShareNone(ins)
  PROVE  /\ FlattenSeq(SignalsOf(ins)) \in Seq(Signal) /\ Distinct(FlattenSeq(SignalsOf(ins)))
         /\ HandlesOf(FlattenSeq(SignalsOf(ins))) = AllHandles(ins)
<1> DEFINE parts == SignalsOf(ins)
<1>1. /\ Len(ins) \in Nat /\ DOMAIN ins = 1 .. Len(ins)
      /\ \A i \in 1 .. Len(ins) : ins[i].signals \in Seq(Signal)
  <2>1. ins \in Seq(Input)
    BY DEF ShareNone
  <2>2. \A input \in Input : input.signals \in Seq(Signal)
    BY DEF Input
  <2> QED  BY <2>1, <2>2
<1>2. /\ parts \in Seq(Seq(Signal)) /\ Len(parts) = Len(ins)
      /\ \A i \in 1 .. Len(ins) : parts[i] = ins[i].signals
  BY <1>1 DEF SignalsOf
<1> HIDE DEF parts
<1>3. /\ \A i \in 1 .. Len(parts) : Distinct(parts[i])
      /\ \A i, j \in 1 .. Len(parts) : i # j => HandlesOf(parts[i]) \cap HandlesOf(parts[j]) = {}
  BY <1>2 DEF ShareNone
<1>4. /\ FlattenSeq(parts) \in Seq(Signal) /\ Distinct(FlattenSeq(parts))
      /\ HandlesOf(FlattenSeq(parts)) = HandlesUpTo(parts, Len(parts))
  BY <1>2, <1>3, FlattenDistinct
<1>5. HandlesUpTo(parts, Len(parts)) = AllHandles(ins)
  BY <1>2 DEF HandlesUpTo, AllHandles
<1> QED  BY <1>4, <1>5 DEF parts

\* A finding for each signal.
LEMMA FindingsOfSignals ==
  ASSUME NEW signals \in Seq(Signal), Distinct(signals)
  PROVE  LET findings == U!generateFindings(signals)
         IN  /\ findings \in Seq(Finding) /\ Len(findings) = Len(signals) /\ Distinct(findings)
             /\ HandlesOf(findings) = HandlesOf(signals)
<1> DEFINE findings == U!generateFindings(signals)
<1>1. \A s, i : U!generateFinding(s, i).evidenceHandle = s.evidenceHandle
  BY DEF U!generateFinding
<1>2. \A s \in Signal, i \in Nat : U!generateFinding(s, i) \in Finding
  BY DEF Finding
<1>3. findings = [i \in 1 .. Len(signals) |-> U!generateFinding(signals[i], i)]
  BY DEF U!generateFindings
<1>4. /\ findings \in Seq(Finding) /\ Len(findings) = Len(signals)
      /\ \A i \in 1 .. Len(signals) : findings[i] = U!generateFinding(signals[i], i)
  BY <1>2, <1>3
<1> HIDE DEF findings
<1>5. \A i \in 1 .. Len(signals) : findings[i].evidenceHandle = signals[i].evidenceHandle
  BY <1>1, <1>4
<1> QED  BY <1>4, <1>5 DEF Distinct, HandlesOf, findings

\* The set of handles, as the properties write it.
LEMMA HandlesInSet ==
  ASSUME NEW T, NEW seq \in Seq(T)
  PROVE  {f.evidenceHandle : f \in ToSet(seq)} = HandlesOf(seq)
<1>1. ToSet(seq) = {seq[i] : i \in 1 .. Len(seq)}
  BY DEF ToSet
<1> QED  BY <1>1 DEF HandlesOf

\* The findings of an input: one for each of its signals.
LEMMA FindingsOfInput ==
  ASSUME NEW findings \in Seq(Finding), Distinct(findings), NEW input \in Input,
         HandlesOf(input.signals) \subseteq HandlesOf(findings)
  PROVE  /\ U!FindingsOf(findings, input) \in Seq(Finding)
         /\ Distinct(U!FindingsOf(findings, input))
         /\ HandlesOf(U!FindingsOf(findings, input)) = HandlesOf(input.signals)
<1> DEFINE S == {f \in ToSet(findings) : \E s \in ToSet(input.signals) :
                                             s.evidenceHandle = f.evidenceHandle}
           out == Filter(findings, S)
<1>1. U!FindingsOf(findings, input) = out
  BY SameOperators DEF U!FindingsOf
<1>2. input.signals \in Seq(Signal)
  BY DEF Input
<1>3. /\ \A i \in 1 .. Len(findings) : findings[i] \in ToSet(findings)
      /\ ToSet(input.signals) = {input.signals[i] : i \in 1 .. Len(input.signals)}
  BY <1>2 DEF ToSet
<1>4. \A i \in 1 .. Len(findings) :
        findings[i] \in S <=> findings[i].evidenceHandle \in HandlesOf(input.signals)
  BY <1>3 DEF HandlesOf
<1> HIDE DEF S
<1>5. out \in Seq(Finding) /\ Distinct(out)
  BY FilterResult, FilterDistinct
<1>6. HandlesOf(out) = {findings[i].evidenceHandle : i \in {k \in 1 .. Len(findings) : findings[k] \in S}}
  BY FilterHandles
<1>7. HandlesOf(out) = HandlesOf(input.signals)
  <2> DEFINE wanted == HandlesOf(input.signals)
             kept == HandlesOf(out)
  <2>1. \A i \in 1 .. Len(findings) : findings[i] \in S <=> findings[i].evidenceHandle \in wanted
    BY <1>4
  <2>2. kept = {findings[i].evidenceHandle : i \in {k \in 1 .. Len(findings) : findings[k] \in S}}
    BY <1>6
  <2>3. wanted \subseteq {findings[i].evidenceHandle : i \in 1 .. Len(findings)}
    BY DEF HandlesOf
  <2> HIDE DEF wanted, kept
  <2>4. kept = wanted
    BY <2>1, <2>2, <2>3
  <2> QED  BY <2>4 DEF wanted, kept
<1> QED  BY <1>1, <1>5, <1>7

\* A control that is evidenced has findings with two handles.
LEMMA EvidencedByTwo ==
  ASSUME NEW findings \in Seq(Finding), Distinct(findings),
         NEW r \in U!buildCoverageReport(findings).records, r.status = "EVIDENCED"
  PROVE  Cardinality(r.evidenceHandles) >= 2
<1>1. U!buildCoverageReport(findings).records = U!buildControlEvidencePackage(findings)
  BY DEF U!buildCoverageReport
<1>2. PICK control :
        LET related == U!Filter(findings, {f \in U!ToSet(findings) : control \in f.isoControls})
        IN  r = [controlId       |-> control,
                 status          |-> IF U!Evidenced(related) THEN "EVIDENCED" ELSE "PARTIAL",
                 evidenceHandles |-> {f.evidenceHandle : f \in U!ToSet(related)},
                 findingIds      |-> {f.findingId : f \in U!ToSet(related)}]
  BY <1>1 DEF U!buildControlEvidencePackage
<1> DEFINE S == {f \in U!ToSet(findings) : control \in f.isoControls}
           related == Filter(findings, S)
<1>3. U!Filter(findings, S) = related /\ U!ToSet(related) = ToSet(related)
  BY SameOperators
<1> HIDE DEF S
<1>4. related \in Seq(Finding) /\ Distinct(related)
  BY FilterResult, FilterDistinct
<1>5. /\ r.status = IF U!Evidenced(related) THEN "EVIDENCED" ELSE "PARTIAL"
      /\ r.evidenceHandles = {f.evidenceHandle : f \in ToSet(related)}
  BY <1>2, <1>3 DEF S
<1> HIDE DEF related
<1>6. Len(related) >= 2
  BY <1>5 DEF U!Evidenced
<1>7. r.evidenceHandles = HandlesOf(related)
  BY <1>4, <1>5, HandlesInSet
<1> QED  BY <1>4, <1>6, <1>7, HandlesCounted

\* The handles of the inputs that belong to a sequence.
SequencedHandles(ins) ==
  UNION {HandlesOf(ins[i].signals) : i \in {k \in 1 .. Len(ins) : ins[k].sequence # EGS!NoSequence}}

\* The reports on the sequences, as U!buildTenantAuditReport makes them.
ReportsOn(ins, findings) ==
  LET sequenced == Filter(ins, {input \in ToSet(ins) : input.sequence # EGS!NoSequence})
  IN  [i \in DOMAIN sequenced |->
         U!buildSequenceReport(sequenced[i].sequence, U!FindingsOf(findings, sequenced[i]))]

\* The posture counts every finding of a sequence once.
LEMMA PostureCounts ==
  ASSUME NEW ins, ShareNone(ins), NEW findings \in Seq(Finding), Distinct(findings),
         HandlesOf(findings) = AllHandles(ins)
  PROVE  U!summarizeTenantPosture(ReportsOn(ins, findings)).totalFindings
           = Cardinality(SequencedHandles(ins))
<1> DEFINE S == {input \in ToSet(ins) : input.sequence # EGS!NoSequence}
           sequenced == Filter(ins, S)
           reports == ReportsOn(ins, findings)
           parts == [i \in DOMAIN reports |-> reports[i].findings]
           n == Len(sequenced)
           places == {k \in 1 .. Len(ins) : ins[k].sequence # EGS!NoSequence}
<1>1. /\ ins \in Seq(Input)
      /\ \A i, j \in 1 .. Len(ins) :
           i # j => HandlesOf(ins[i].signals) \cap HandlesOf(ins[j].signals) = {}
  BY DEF ShareNone
<1>2. sequenced \in Seq(Input) /\ FilteredTo(ins, S, Len(ins), sequenced)
  BY <1>1, FilterResult
<1>3. \A k \in 1 .. Len(ins) : ins[k] \in S <=> k \in places
  BY <1>1 DEF ToSet
<1>4. reports = [i \in DOMAIN sequenced |->
                   U!buildSequenceReport(sequenced[i].sequence, U!FindingsOf(findings, sequenced[i]))]
  BY DEF ReportsOn
<1> HIDE DEF S, sequenced, reports, places
<1>5. n \in Nat /\ DOMAIN sequenced = 1 .. n /\ \A i \in 1 .. n : sequenced[i] \in Input
  BY <1>2
<1>6. \A q, f : U!buildSequenceReport(q, f).findings = f
  BY DEF U!buildSequenceReport
<1>7. parts = [i \in 1 .. n |-> U!FindingsOf(findings, sequenced[i])]
  BY <1>4, <1>5, <1>6
<1>8. ASSUME NEW i \in 1 .. n
      PROVE  \E k \in places : sequenced[i] = ins[k]
  BY <1>2, <1>3 DEF FilteredTo
<1>9. ASSUME NEW k \in places
      PROVE  k \in 1 .. Len(ins) /\ \E i \in 1 .. n : sequenced[i] = ins[k]
  <2>1. k \in 1 .. Len(ins) /\ ins[k] \in S
    BY <1>3 DEF places
  <2> QED  BY <1>2, <2>1 DEF FilteredTo
<1>10. ASSUME NEW i \in 1 .. n
       PROVE  /\ U!FindingsOf(findings, sequenced[i]) \in Seq(Finding)
              /\ Distinct(U!FindingsOf(findings, sequenced[i]))
              /\ HandlesOf(U!FindingsOf(findings, sequenced[i])) = HandlesOf(sequenced[i].signals)
  <2>1. PICK k \in places : sequenced[i] = ins[k]
    BY <1>8
  <2>2. HandlesOf(sequenced[i].signals) \subseteq HandlesOf(findings)
    BY <1>9, <2>1 DEF AllHandles
  <2> QED  BY <1>5, <2>2, FindingsOfInput
<1>11. /\ parts \in Seq(Seq(Finding)) /\ Len(parts) = n
       /\ \A i \in 1 .. n : parts[i] = U!FindingsOf(findings, sequenced[i])
  <2> DEFINE of(i) == U!FindingsOf(findings, sequenced[i])
  <2>1. n \in Nat /\ \A i \in 1 .. n : of(i) \in Seq(Finding)
    BY <1>5, <1>10
  <2>2. parts = [i \in 1 .. n |-> of(i)]
    BY <1>7
  <2> HIDE DEF of, parts, n
  <2>3. \A i \in 1 .. n : parts[i] = of(i)
    BY <2>2
  <2>4. parts \in Seq(Seq(Finding)) /\ Len(parts) = n
    BY <2>1, <2>2
  <2> QED  BY <2>3, <2>4 DEF of
<1> HIDE DEF parts
<1>12. \A i \in 1 .. n : Distinct(parts[i]) /\ HandlesOf(parts[i]) = HandlesOf(sequenced[i].signals)
  BY <1>10, <1>11
<1>13. ASSUME NEW i \in 1 .. n, NEW j \in 1 .. n, i < j
       PROVE  HandlesOf(parts[i]) \cap HandlesOf(parts[j]) = {}
  <2>1. PICK k, l \in 1 .. Len(ins) : k < l /\ sequenced[i] = ins[k] /\ sequenced[j] = ins[l]
    BY <1>2, <1>13 DEF FilteredTo
  <2>2. k # l
    BY <2>1
  <2>3. HandlesOf(ins[k].signals) \cap HandlesOf(ins[l].signals) = {}
    BY <1>1, <2>2
  <2> QED  BY <1>12, <2>1, <2>3
<1>14. ASSUME NEW i \in 1 .. n, NEW j \in 1 .. n, i # j
       PROVE  HandlesOf(parts[i]) \cap HandlesOf(parts[j]) = {}
  <2>1. i < j \/ j < i
    BY <1>5, <1>14
  <2> QED  BY <1>13, <2>1
<1>15. /\ FlattenSeq(parts) \in Seq(Finding) /\ Distinct(FlattenSeq(parts))
       /\ HandlesOf(FlattenSeq(parts)) = HandlesUpTo(parts, Len(parts))
  BY <1>11, <1>12, <1>14, FlattenDistinct
<1>16. HandlesUpTo(parts, Len(parts)) = SequencedHandles(ins)
  <2>1. ASSUME NEW i \in 1 .. n PROVE \E k \in places : HandlesOf(parts[i]) = HandlesOf(ins[k].signals)
    <3>1. PICK k \in places : sequenced[i] = ins[k]
      BY <1>8
    <3> QED  BY <1>12, <3>1
  <2>2. ASSUME NEW k \in places PROVE \E i \in 1 .. n : HandlesOf(parts[i]) = HandlesOf(ins[k].signals)
    <3>1. PICK i \in 1 .. n : sequenced[i] = ins[k]
      BY <1>9
    <3> QED  BY <1>12, <3>1
  <2>3. HandlesUpTo(parts, Len(parts)) = UNION {HandlesOf(parts[i]) : i \in 1 .. n}
    BY <1>11 DEF HandlesUpTo
  <2>4. SequencedHandles(ins) = UNION {HandlesOf(ins[k].signals) : k \in places}
    BY DEF SequencedHandles, places
  <2> HIDE DEF n
  <2> QED  BY <2>1, <2>2, <2>3, <2>4
<1>17. U!summarizeTenantPosture(reports).totalFindings = Len(FlattenSeq(parts))
  <2>1. U!FlattenSeq(parts) = FlattenSeq(parts)
    BY SameOperators
  <2> QED  BY <2>1 DEF U!summarizeTenantPosture, parts
<1>18. Cardinality(HandlesOf(FlattenSeq(parts))) = Len(FlattenSeq(parts))
  BY <1>15, HandlesCounted
<1> QED  BY <1>15, <1>16, <1>17, <1>18 DEF reports

\* The whole report.
LEMMA ReportCounts ==
  ASSUME NEW ins, ShareNone(ins)
  PROVE  LET report == U!buildTenantAuditReport(ins)
         IN  /\ {f.evidenceHandle : f \in ToSet(report.findings)} = AllHandles(ins)
             /\ Len(report.findings) = Cardinality(AllHandles(ins))
             /\ report.postureSummary.totalFindings = Cardinality(SequencedHandles(ins))
             /\ report.mttd.sampleCount = Cardinality(AllHandles(ins))
             /\ \A r \in report.iso42001.records :
                  r.status = "EVIDENCED" => Cardinality(r.evidenceHandles) >= 2
<1> DEFINE signals == FlattenSeq(SignalsOf(ins))
           findings == U!generateFindings(signals)
           report == U!buildTenantAuditReport(ins)
<1>1. /\ report.findings = findings
      /\ report.postureSummary = U!summarizeTenantPosture(ReportsOn(ins, findings))
      /\ report.iso42001 = U!buildCoverageReport(findings)
      /\ report.mttd.sampleCount = Len(signals)
  <2>1. /\ U!FlattenSeq([i \in DOMAIN ins |-> ins[i].signals]) = signals
        /\ U!EGS!NoSequence = EGS!NoSequence
        /\ U!ToSet(ins) = ToSet(ins)
        /\ \A S : U!Filter(ins, S) = Filter(ins, S)
    BY SameOperators DEF SignalsOf
  <2> QED  BY <2>1 DEF U!buildTenantAuditReport, U!buildMttdReport, ReportsOn
<1> HIDE DEF report
<1>2. signals \in Seq(Signal) /\ Distinct(signals) /\ HandlesOf(signals) = AllHandles(ins)
  BY JoinedSignals
<1> HIDE DEF signals
<1>3. /\ findings \in Seq(Finding) /\ Len(findings) = Len(signals) /\ Distinct(findings)
      /\ HandlesOf(findings) = AllHandles(ins)
  BY <1>2, FindingsOfSignals
<1> HIDE DEF findings
<1>4. Cardinality(AllHandles(ins)) = Len(findings)
  BY <1>3, HandlesCounted
<1>5. {f.evidenceHandle : f \in ToSet(findings)} = AllHandles(ins)
  BY <1>3, HandlesInSet
<1>6. U!summarizeTenantPosture(ReportsOn(ins, findings)).totalFindings
        = Cardinality(SequencedHandles(ins))
  BY <1>3, PostureCounts
<1>7. \A r \in U!buildCoverageReport(findings).records :
        r.status = "EVIDENCED" => Cardinality(r.evidenceHandles) >= 2
  BY <1>3, EvidencedByTwo
<1> QED  BY <1>1, <1>3, <1>4, <1>5, <1>6, <1>7 DEF report

-----------------------------------------------------------------------------
(***************************************************************************)
(* The report on the inputs of the workflows                               *)
(***************************************************************************)

\* SetToSeq lists a finite set, each element once.
LEMMA SetToSeqLists ==
  ASSUME NEW S, IsFiniteSet(S)
  PROVE  /\ SetToSeq(S) \in Seq(S)
         /\ \A i, j \in 1 .. Len(SetToSeq(S)) : SetToSeq(S)[i] = SetToSeq(S)[j] => i = j
         /\ \A x \in S : \E i \in 1 .. Len(SetToSeq(S)) : SetToSeq(S)[i] = x
<1> DEFINE n == Cardinality(S)
           q == SetToSeq(S)
<1>1. n \in Nat /\ ExistsBijection(1 .. n, S)
  BY FS_CardinalityType
<1>2. \E f \in [1 .. n -> S] : IsInjective(f)
  BY <1>1 DEF ExistsBijection, Bijection, Injection
<1>3. q \in [1 .. n -> S] /\ IsInjective(q)
  BY <1>2 DEF SetToSeq
<1>4. IsFiniteSet(1 .. n) /\ Cardinality(1 .. n) = n
  <2> HIDE DEF n
  <2> QED  BY <1>1, FS_Interval
<1> HIDE DEF q
<1>5. q \in Surjection(1 .. n, S)
  BY <1>3, <1>4, FS_Injection DEF Injection
<1> HIDE DEF n
<1>6. q \in Seq(S) /\ Len(q) = n
  BY <1>1, <1>3
<1>7. \A i, j \in 1 .. n : q[i] = q[j] => i = j
  BY <1>3 DEF IsInjective
<1>8. \A x \in S : \E i \in 1 .. n : q[i] = x
  BY <1>5 DEF Surjection
<1> QED  BY <1>6, <1>7, <1>8 DEF q

\* The inputs there are.
InputsOf(given) == {given[w] : w \in Workflows \cup {NoWorkflow}} \ {NoInput}

\* They share no handle, and they are as finite as the handles are.
LEMMA InputsShareNone ==
  ASSUME NEW n \in Nat, NEW owner, NEW given,
         \A w \in Workflows \cup {NoWorkflow} : InputOK(given[w], w, n, owner)
  PROVE  IsFiniteSet(InputsOf(given)) /\ ShareNone(SetToSeq(InputsOf(given)))
<1> DEFINE S == InputsOf(given)
           f == [x \in S |-> x.signals[1].evidenceHandle]
           ins == SetToSeq(S)
<1>1. ASSUME NEW x \in S
      PROVE  /\ x \in Input /\ Distinct(x.signals)
             /\ f[x] \in HandlesOf(x.signals)
             /\ \E w \in Workflows \cup {NoWorkflow} :
                  \A h \in HandlesOf(x.signals) : h \in 1 .. n /\ owner[h] = w
  <2>1. PICK w \in Workflows \cup {NoWorkflow} : x = given[w]
    BY DEF InputsOf
  <2>2. x # NoInput /\ InputOK(x, w, n, owner)
    BY <2>1 DEF InputsOf
  <2>3. x.signals \in Seq(Signal) /\ x.signals # <<>>
    BY <2>2 DEF InputOK
  <2>4. 1 \in 1 .. Len(x.signals)
    BY <2>3
  <2>5. f[x] \in HandlesOf(x.signals)
    BY <2>4 DEF HandlesOf
  <2> QED  BY <2>2, <2>5 DEF InputOK, Input
<1>2. ASSUME NEW x \in S, NEW y \in S, x # y
      PROVE  HandlesOf(x.signals) \cap HandlesOf(y.signals) = {}
  <2>1. PICK w \in Workflows \cup {NoWorkflow} : x = given[w]
    BY DEF InputsOf
  <2>2. PICK v \in Workflows \cup {NoWorkflow} : y = given[v]
    BY DEF InputsOf
  <2>3. w # v
    BY <1>2, <2>1, <2>2
  <2>4. \A h \in HandlesOf(x.signals) : owner[h] = w
    BY <2>1 DEF InputOK
  <2>5. \A h \in HandlesOf(y.signals) : owner[h] = v
    BY <2>2 DEF InputOK
  <2> QED  BY <2>3, <2>4, <2>5
<1>3. f = [x \in S |-> f[x]] /\ \A x \in S : f[x] \in 1 .. n
  BY <1>1
<1> HIDE DEF f, S
<1>4. f \in Injection(S, 1 .. n)
  <2>1. f \in [S -> 1 .. n]
    BY <1>3
  <2>2. \A x, y \in S : f[x] = f[y] => x = y
    BY <1>1, <1>2
  <2> QED  BY <2>1, <2>2 DEF Injection, IsInjective
<1>5. IsFiniteSet(S)
  <2>1. IsFiniteSet(1 .. n)
    BY FS_Interval
  <2> QED  BY <1>4, <2>1, FS_Injection
<1>6. /\ ins \in Seq(S)
      /\ \A i, j \in 1 .. Len(ins) : ins[i] = ins[j] => i = j
  BY <1>5, SetToSeqLists
<1> HIDE DEF ins
<1>7. ins \in Seq(Input) /\ \A i \in 1 .. Len(ins) : ins[i] \in S
  BY <1>1, <1>6
<1>8. ShareNone(ins)
  BY <1>1, <1>2, <1>6, <1>7 DEF ShareNone
<1> QED  BY <1>5, <1>8 DEF S, ins

\* The handles in the posture are those of the workflows' inputs.
LEMMA SequencedAreWorkflows ==
  ASSUME NEW n \in Nat, NEW owner, NEW given,
         \A w \in Workflows \cup {NoWorkflow} : InputOK(given[w], w, n, owner)
  PROVE  SequencedHandles(SetToSeq(InputsOf(given)))
           = UNION {HandlesOf(given[w].signals) : w \in Workflows}
<1> DEFINE S == InputsOf(given)
           ins == SetToSeq(S)
           places == {k \in 1 .. Len(ins) : ins[k].sequence # EGS!NoSequence}
<1>1. IsFiniteSet(S)
  BY InputsShareNone
<1>2. ins \in Seq(S) /\ \A x \in S : \E i \in 1 .. Len(ins) : ins[i] = x
  BY <1>1, SetToSeqLists
<1>3. SequencedHandles(ins) = UNION {HandlesOf(ins[k].signals) : k \in places}
  BY DEF SequencedHandles
<1>4. \A k \in places : k \in 1 .. Len(ins) /\ ins[k].sequence # EGS!NoSequence
  OBVIOUS
<1>5. \A k \in 1 .. Len(ins) : ins[k].sequence # EGS!NoSequence => k \in places
  OBVIOUS
<1> HIDE DEF ins, places
<1>6. ASSUME NEW k \in places
      PROVE  \E w \in Workflows : HandlesOf(ins[k].signals) = HandlesOf(given[w].signals)
  <2>1. ins[k] \in S
    BY <1>2, <1>4
  <2>2. PICK w \in Workflows \cup {NoWorkflow} : ins[k] = given[w]
    BY <2>1 DEF InputsOf
  <2>3. ins[k] # NoInput /\ ins[k].sequence # EGS!NoSequence
    BY <1>4, <2>1 DEF InputsOf
  <2>4. w \in Workflows
    BY <2>2, <2>3 DEF InputOK
  <2> QED  BY <2>2, <2>4
<1>7. ASSUME NEW w \in Workflows, NEW h \in HandlesOf(given[w].signals)
      PROVE  \E k \in places : h \in HandlesOf(ins[k].signals)
  <2>1. given[w] # NoInput
    <3>1. HandlesOf(NoInput.signals) = {}
      BY DEF NoInput, HandlesOf
    <3> QED  BY <1>7, <3>1
  <2>2. given[w] \in S
    BY <2>1 DEF InputsOf
  <2>3. w # NoWorkflow
    BY EventStoreAssumption
  <2>4. given[w].sequence # EGS!NoSequence
    BY <2>1, <2>3 DEF InputOK
  <2>5. PICK k \in 1 .. Len(ins) : ins[k] = given[w]
    BY <1>2, <2>2
  <2>6. k \in places
    BY <1>5, <2>4, <2>5
  <2> QED  BY <1>7, <2>5, <2>6
<1>8. SequencedHandles(ins) = UNION {HandlesOf(given[w].signals) : w \in Workflows}
  BY <1>3, <1>6, <1>7
<1> QED  BY <1>8 DEF ins, S

\* A report counts each event once, though its inputs were read at different times
\* (report-builder.ts:83): as many findings as handles, in the posture summary those of
\* the sequences, and a control is evidenced only by two different events.  This is so for
\* any number of workflows and events, if no output is stored twice for the audited
\* tenant: two such records have one handle.
THEOREM ReportsCountOnce ==
  ASSUME Auditee \in Single
  PROVE  AuditSpec => []ReportCountsEventsOnce
<1>1. OwnedInStep /\ [AuditNext]_auditVars => OwnedInStep'
  BY OwnedNext
<1>2. OwnedInStep => ReportCountsEventsOnce
  <2> SUFFICES ASSUME OwnedInStep PROVE ReportCountsEventsOnce
    OBVIOUS
  <2> DEFINE ins == SetToSeq(InputsOf(inputs))
             handles == {f.evidenceHandle : f \in ToSet(Report.findings)}
             sequenced == {s.evidenceHandle :
                             s \in UNION {ToSet(inputs[w].signals) : w \in Workflows}}
  <2>1. outputs \in Nat
    BY DEF OwnedInStep, HandlesInStep, FlowInStep
  <2>2. PICK owner : \A w \in Workflows \cup {NoWorkflow} : InputOK(inputs[w], w, outputs, owner)
    BY DEF OwnedInStep, Owned
  <2>3. Report = U!buildTenantAuditReport(ins)
    <3>1. DOMAIN inputs = Workflows \cup {NoWorkflow}
      BY DEF OwnedInStep
    <3> QED  BY <3>1 DEF Report, InputsOf
  <2>4. ShareNone(ins)
    BY <2>1, <2>2, InputsShareNone
  <2>5. SequencedHandles(ins) = sequenced
    <3>1. SequencedHandles(ins) = UNION {HandlesOf(inputs[w].signals) : w \in Workflows}
      BY <2>1, <2>2, SequencedAreWorkflows
    <3>2. ASSUME NEW w \in Workflows
          PROVE  HandlesOf(inputs[w].signals)
                   = {s.evidenceHandle : s \in ToSet(inputs[w].signals)}
      <4>1. inputs[w].signals \in Seq(Signal)
        BY <2>2 DEF InputOK
      <4> QED  BY <4>1, HandlesInSet
    <3>3. sequenced = UNION {{s.evidenceHandle : s \in ToSet(inputs[w].signals)} : w \in Workflows}
      OBVIOUS
    <3> QED  BY <3>1, <3>2, <3>3
  <2> HIDE DEF ins
  <2>6. /\ handles = AllHandles(ins)
        /\ Len(Report.findings) = Cardinality(AllHandles(ins))
        /\ Report.postureSummary.totalFindings = Cardinality(SequencedHandles(ins))
        /\ Report.mttd.sampleCount = Cardinality(AllHandles(ins))
        /\ \A r \in Report.iso42001.records :
             r.status = "EVIDENCED" => Cardinality(r.evidenceHandles) >= 2
    BY <2>3, <2>4, ReportCounts
  <2> QED  BY <2>5, <2>6 DEF ReportCountsEventsOnce
<1> QED  BY <1>1, <1>2, OwnedInit, PTL DEF AuditSpec

=============================================================================
