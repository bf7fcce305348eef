-------------------------- MODULE RateLimiterProofs --------------------------
(***************************************************************************)
(* The token bucket is exact up to its rounding: for every rate, burst and *)
(* resolution of the clock, also when the clock is set back, it allows     *)
(* what leaves anything of the budget (RefusalsAreNeeded) and nothing      *)
(* beyond it (BudgetIsKept).  Behind                                       *)
(* the two hooks it is the same limiter (AdmissionImplementsLimiter), and  *)
(* a tenant is charged for its own requests only (BearersAreCharged).      *)
(***************************************************************************)
EXTENDS Admission, TLAPS

LEMMA FullType == Full \in Nat /\ Full >= Second
BY RateLimiterAssumption DEF Full

LEMMA BucketType ==
  ASSUME TypeOK, NEW t \in Tenants
  PROVE  BucketOf(t) \in Bucket /\ BucketOf(t).tokens <= Full
BY FullType DEF TypeOK, BucketOf, Bucket

\* What a refill gives: the cap, or the tokens of the elapsed time.
LEMMA RefillType ==
  ASSUME TypeOK, NEW t \in Tenants
  PROVE  /\ Refilled(BucketOf(t)) \in Int
         /\ Refilled(BucketOf(t)) <= Full
         /\ Gained(BucketOf(t)) \in Int
         /\ Refilled(BucketOf(t)) <= Gained(BucketOf(t))
         /\ Refilled(BucketOf(t)) # Full => Refilled(BucketOf(t)) = Gained(BucketOf(t))
         /\ Gained(BucketOf(t)) <= Full => Refilled(BucketOf(t)) = Gained(BucketOf(t))
<1> DEFINE b == BucketOf(t)
           gain == RatePerSec * (now - b.lastRefill)
<1>1. b.tokens \in Int /\ b.lastRefill \in Nat /\ now \in Nat
  BY BucketType DEF Bucket, TypeOK
<1>2. gain \in Int
  <2> HIDE DEF b
  <2>1. now - b.lastRefill \in Int
    BY <1>1
  <2> QED
    BY <2>1, RateLimiterAssumption
<1>3. /\ Gained(b) = b.tokens + gain
      /\ Refilled(b) = IF Gained(b) < Full THEN Gained(b) ELSE Full
  BY DEF Refilled, Gained
<1> HIDE DEF b, gain
<1>4. /\ Refilled(b) \in Int /\ Refilled(b) <= Full /\ Refilled(b) <= Gained(b)
      /\ Gained(b) \in Int
      /\ Refilled(b) # Full => Refilled(b) = Gained(b)
      /\ Gained(b) <= Full => Refilled(b) = Gained(b)
  BY <1>1, <1>2, <1>3, FullType
<1> QED
  BY <1>4 DEF b

\* A refill comes out short by no more than a unit, and only if it was not capped.
LEMMA ShortfallType ==
  ASSUME TypeOK, NEW t \in Tenants, NEW short \in Shortfall(BucketOf(t))
  PROVE  /\ short \in {0, 1}
         /\ short = 1 => t \in DOMAIN buckets /\ Refilled(BucketOf(t)) = Gained(BucketOf(t))
<1> DEFINE b == BucketOf(t)
<1>1. b.short \in {0, 1}
  BY BucketType DEF Bucket
<1>2. Gained(b) \in Int /\ Full \in Int /\ (Gained(b) <= Full => Refilled(b) = Gained(b))
  BY RefillType, FullType
<1>3. t \notin DOMAIN buckets => b.lastRefill = now /\ b.short = 0
  BY DEF BucketOf
<1>4. short \in IF Gained(b) > Full THEN {0}
               ELSE IF now = b.lastRefill THEN {b.short} ELSE {0, 1}
  BY DEF Shortfall
<1> HIDE DEF b
<1>5. /\ short \in {0, 1}
      /\ short = 1 => t \in DOMAIN buckets /\ Refilled(b) = Gained(b)
  BY <1>1, <1>2, <1>3, <1>4
<1> QED
  BY <1>5 DEF b

\* What check() does to the tenant that is checked, and to the others.
LEMMA CheckSteps ==
  ASSUME TypeOK, NEW t \in Tenants, check(t)
  PROVE  LET tokens == Refilled(BucketOf(t))
             n == Len(allowed[t])
         IN  /\ DOMAIN buckets' = DOMAIN buckets \cup {t}
             /\ buckets'[t].lastRefill = now /\ now' = now
             /\ buckets'[t] \in Bucket
             /\ \A s \in DOMAIN buckets \ {t} : buckets'[s] = buckets[s]
             /\ \A s \in Tenants \ {t} : allowed'[s] = allowed[s]
             /\ \/ /\ Enough(tokens) /\ latest'[t].allowed = TRUE
                   /\ buckets'[t].tokens = tokens - Second
                   /\ allowed'[t] \in Seq(Nat) /\ Len(allowed'[t]) = n + 1
                   /\ allowed'[t][n + 1] = now
                   /\ \A i \in 1 .. n : allowed'[t][i] = allowed[t][i]
                \/ /\ tokens <= Second /\ latest'[t].allowed = FALSE
                   /\ tokens = Second =>
                        t \in DOMAIN buckets /\ tokens = Gained(BucketOf(t))
                   /\ buckets'[t].tokens = tokens
                   /\ allowed' = allowed
<1> DEFINE tokens == Refilled(BucketOf(t))
           n == Len(allowed[t])
<1>1. tokens \in Int /\ now \in Nat /\ Second \in Int
  BY RefillType, RateLimiterAssumption DEF TypeOK
<1>0. PICK short \in Shortfall(BucketOf(t)) : checkRounded(t, BucketOf(t), short)
  BY DEF check
<1>7. short \in {0, 1} /\ (short = 1 => t \in DOMAIN buckets /\ tokens = Gained(BucketOf(t)))
  BY ShortfallType
<1> DEFINE passes == Enough(tokens - short)
<1>2. /\ DOMAIN buckets' = DOMAIN buckets \cup {t}
      /\ \A s \in DOMAIN buckets \ {t} : buckets'[s] = buckets[s]
      /\ buckets'[t] = IF passes
                       THEN [tokens |-> tokens - Second, lastRefill |-> now, short |-> short]
                       ELSE [tokens |-> tokens, lastRefill |-> now, short |-> short]
      /\ now' = now
      /\ allowed' = IF passes THEN [allowed EXCEPT ![t] = Append(@, now)] ELSE allowed
      /\ latest' = [latest EXCEPT ![t] = [time |-> now, allowed |-> passes]]
  BY <1>0 DEF check, checkRounded, Refused
<1>3. latest'[t] = [time |-> now, allowed |-> passes]
  BY <1>2 DEF TypeOK
<1>4. \A s \in Tenants \ {t} : allowed'[s] = allowed[s]
  BY <1>2 DEF TypeOK
<1> HIDE DEF tokens
<1>8. passes => Enough(tokens)
  BY <1>1, <1>7 DEF Enough
<1>9. ~passes => tokens <= Second /\ (tokens = Second => short = 1)
  BY <1>1, <1>7 DEF Enough
<1> HIDE DEF passes
<1>5. CASE passes
  <2>1. allowed'[t] = Append(allowed[t], now) /\ allowed[t] \in Seq(Nat)
    BY <1>2, <1>5 DEF TypeOK
  <2>2. /\ allowed'[t] \in Seq(Nat) /\ Len(allowed'[t]) = n + 1
        /\ allowed'[t][n + 1] = now
        /\ \A i \in 1 .. n : allowed'[t][i] = allowed[t][i]
    BY <1>1, <2>1
  <2>3. buckets'[t] = [tokens |-> tokens - Second, lastRefill |-> now, short |-> short]
    BY <1>2, <1>5
  <2>4. buckets'[t] \in Bucket
    BY <1>1, <1>7, <2>3 DEF Bucket
  <2>5. latest'[t].allowed = TRUE
    BY <1>3, <1>5
  <2> QED
    BY <1>2, <1>4, <1>8, <1>5, <2>2, <2>3, <2>4, <2>5 DEF tokens
<1>6. CASE ~passes
  <2>1. buckets'[t] = [tokens |-> tokens, lastRefill |-> now, short |-> short]
    BY <1>2, <1>6
  <2>2. buckets'[t] \in Bucket
    BY <1>1, <1>7, <2>1 DEF Bucket
  <2>3. latest'[t].allowed = FALSE
    BY <1>3, <1>6
  <2>4. /\ tokens <= Second
        /\ tokens = Second => t \in DOMAIN buckets /\ tokens = Gained(BucketOf(t))
    BY <1>7, <1>9, <1>6
  <2> QED
    BY <1>2, <1>4, <1>6, <2>1, <2>2, <2>3, <2>4 DEF tokens
<1> QED
  BY <1>5, <1>6

\* Type correctness: no bucket ever holds more than the burst.
THEOREM TypeCorrect == Spec => []TypeOK
<1>1. Init => TypeOK
  <2> SUFFICES ASSUME Init PROVE TypeOK
    OBVIOUS
  <2>1. setBack \in BOOLEAN
    BY Zenon DEF Init
  <2>2. latest \in [Tenants -> Check]
    BY DEF Init, Check
  <2> QED
    BY <2>1, <2>2, FullType DEF Init, TypeOK, Bucket
<1>2. TypeOK /\ [Next]_vars => TypeOK'
  <2> SUFFICES ASSUME TypeOK, [Next]_vars PROVE TypeOK'
    OBVIOUS
  <2>1. ASSUME NEW t \in Tenants, check(t)
        PROVE  TypeOK'
    <3> DEFINE tokens == Refilled(BucketOf(t))
    <3>1. /\ DOMAIN buckets' = DOMAIN buckets \cup {t}
          /\ buckets'[t] \in Bucket /\ now' = now
          /\ \A s \in DOMAIN buckets \ {t} : buckets'[s] = buckets[s]
          /\ \A s \in Tenants \ {t} : allowed'[s] = allowed[s]
          /\ allowed'[t] \in Seq(Nat)
          /\ buckets'[t].tokens = tokens - Second \/ buckets'[t].tokens = tokens
      BY <2>1, CheckSteps DEF TypeOK
    <3>2. buckets' = [s \in DOMAIN buckets' |-> buckets'[s]]
      BY <2>1, <3>1 DEF check, checkRounded
    <3>3. buckets' \in [DOMAIN buckets' -> Bucket] /\ DOMAIN buckets' \subseteq Tenants
      BY <3>1, <3>2 DEF TypeOK
    <3>4. \A s \in DOMAIN buckets' : buckets'[s].tokens <= Full
      <4>1. buckets'[t].tokens <= Full
        BY <3>1, RefillType, FullType, RateLimiterAssumption
      <4> QED
        BY <3>1, <4>1 DEF TypeOK
    <3>5. allowed' \in [Tenants -> Seq(Nat)]
      <4>1. allowed' = [s \in Tenants |-> allowed'[s]]
        BY <2>1 DEF check, checkRounded, TypeOK
      <4> QED
        BY <3>1, <4>1 DEF TypeOK
    <3>6. latest' \in [Tenants -> Check]
      <4>1. PICK short : latest' = [latest EXCEPT ![t] = [time    |-> now,
                                                         allowed |-> Enough(tokens - short)]]
        BY <2>1 DEF check, checkRounded
      <4>2. Enough(tokens - short) \in BOOLEAN
        BY DEF Enough
      <4>3. [time |-> now, allowed |-> Enough(tokens - short)] \in Check
        BY <4>2 DEF TypeOK, Check
      <4> QED
        BY <4>1, <4>3 DEF TypeOK
    <3>7. setBack' \in BOOLEAN
      BY <2>1 DEF check, TypeOK
    <3> QED
      BY <3>1, <3>3, <3>4, <3>5, <3>6, <3>7 DEF TypeOK
  <2>2. CASE Tick
    BY <2>2 DEF Tick, TypeOK
  <2>3. CASE StepBack
    BY <2>3, RateLimiterAssumption DEF StepBack, TypeOK
  <2>4. CASE UNCHANGED vars
    BY <2>4 DEF vars, TypeOK
  <2> QED
    BY <2>1, <2>2, <2>3, <2>4 DEF Next
<1> QED
  BY <1>1, <1>2, PTL DEF Spec

-----------------------------------------------------------------------------

\* The tokens left at time `last' of a bucket that was full at time `from' and
\* gave away k tokens since, if it was never capped.
Left(last, from, k) == Full + RatePerSec * (last - from) - Second * k

\* The bucket's tokens, at most those left since any request i was allowed, and
\* exactly those left since one of them.
Bounded(t) ==
  \A i \in 1 .. Len(allowed[t]) :
    buckets[t].tokens <= Left(buckets[t].lastRefill, allowed[t][i], Len(allowed[t]) - i + 1)

Exact(t) ==
  \E i \in 1 .. Len(allowed[t]) :
    buckets[t].tokens = Left(buckets[t].lastRefill, allowed[t][i], Len(allowed[t]) - i + 1)

\* The budget from one time to another has room for k requests.
Fits(k, from, to) == Second * k <= Full + RatePerSec * (to - from)

Within(t) ==
  \A i, j \in 1 .. Len(allowed[t]) :
    i <= j => Fits(j - i + 1, allowed[t][i], allowed[t][j])

BudgetInv ==
  \A t \in Tenants :
    /\ Within(t)
    /\ t \in DOMAIN buckets => Bounded(t) /\ Exact(t)
    /\ t \notin DOMAIN buckets => Len(allowed[t]) = 0

\* Time adds to what is left, a request takes a token of it, and a full bucket that
\* gives a token has the rest left.
LEMMA LeftMoves ==
  ASSUME NEW last \in Int, NEW from \in Int, NEW k \in Int, NEW later \in Int
  PROVE  /\ Left(last, from, k) \in Int
         /\ Left(later, from, k) = Left(last, from, k) + RatePerSec * (later - last)
         /\ Left(last, from, k + 1) = Left(last, from, k) - Second
         /\ Left(last, last, 1) = Full - Second
<1>1. RatePerSec \in Int /\ Second \in Int /\ Full \in Int
  BY FullType, RateLimiterAssumption
<1>2. /\ RatePerSec * (last - from) \in Int /\ RatePerSec * (later - last) \in Int
      /\ RatePerSec * (later - from) = RatePerSec * (last - from) + RatePerSec * (later - last)
      /\ RatePerSec * (last - last) = 0
  BY <1>1
<1>3. Second * k \in Int /\ Second * (k + 1) = Second * k + Second /\ Second * 1 = Second
  BY <1>1
<1> QED
  BY <1>1, <1>2, <1>3 DEF Left

\* The refill of a tenant that has a bucket, in these terms.
LEMMA RefillLeft ==
  ASSUME TypeOK, NEW t \in DOMAIN buckets,
         NEW from \in Int, NEW k \in Int
  PROVE  LET tokens == Refilled(BucketOf(t))
             last == buckets[t].lastRefill
         IN  /\ buckets[t].tokens <= Left(last, from, k) => tokens <= Left(now, from, k)
             /\ (tokens = Gained(BucketOf(t)) /\ buckets[t].tokens = Left(last, from, k)) =>
                  tokens = Left(now, from, k)
<1> DEFINE last == buckets[t].lastRefill
           tokens == Refilled(BucketOf(t))
           gain == RatePerSec * (now - last)
<1>1. t \in Tenants /\ last \in Int /\ now \in Int /\ buckets[t].tokens \in Int
  BY DEF TypeOK, Bucket
<1>2. BucketOf(t) = buckets[t]
  BY DEF BucketOf
<1>3. /\ tokens \in Int /\ tokens <= buckets[t].tokens + gain
      /\ tokens = Gained(BucketOf(t)) => tokens = buckets[t].tokens + gain
  BY <1>1, <1>2, RefillType DEF Gained
<1>4. /\ Left(last, from, k) \in Int /\ Left(now, from, k) \in Int
      /\ Left(now, from, k) = Left(last, from, k) + gain
  BY <1>1, LeftMoves
<1>5. gain \in Int
  <2> HIDE DEF last
  <2>1. now - last \in Int
    BY <1>1
  <2> QED
    BY <2>1, RateLimiterAssumption
<1> HIDE DEF last, tokens, gain
<1>6. /\ buckets[t].tokens <= Left(last, from, k) => tokens <= Left(now, from, k)
      /\ (tokens = Gained(BucketOf(t)) /\ buckets[t].tokens = Left(last, from, k)) =>
           tokens = Left(now, from, k)
  BY <1>1, <1>3, <1>4, <1>5
<1> QED
  BY <1>6 DEF last, tokens

\* A new bucket is full, so its first request passes.
LEMMA FirstPasses ==
  ASSUME TypeOK, NEW t \in Tenants, t \notin DOMAIN buckets
  PROVE  Refilled(BucketOf(t)) = Full /\ Enough(Full)
<1>1. BucketOf(t) = [tokens |-> Full, lastRefill |-> now, short |-> 0]
  BY DEF BucketOf
<1>2. RatePerSec * (now - now) = 0
  BY RateLimiterAssumption DEF TypeOK
<1>3. Enough(Full)
  BY FullType DEF Enough
<1> QED
  BY <1>1, <1>2, <1>3, FullType DEF Refilled, Gained

\* A check that passes keeps the invariant of its tenant.
LEMMA PassKeepsBudget ==
  ASSUME TypeOK, BudgetInv, NEW t \in Tenants, check(t), latest'[t].allowed
  PROVE  Bounded(t)' /\ Exact(t)' /\ Within(t)'
<1> DEFINE tokens == Refilled(BucketOf(t))
           n == Len(allowed[t])
<1>0. Enough(tokens)
  BY CheckSteps
<1>1. /\ n \in Nat /\ now \in Int /\ tokens \in Int /\ tokens <= Full
      /\ Second \in Nat /\ Full \in Int /\ tokens >= Second
      /\ \A i \in 1 .. n : allowed[t][i] \in Int
  BY <1>0, RefillType, FullType, RateLimiterAssumption DEF TypeOK, Enough
<1>2. /\ buckets'[t].tokens = tokens - Second /\ buckets'[t].lastRefill = now
      /\ Len(allowed'[t]) = n + 1 /\ allowed'[t][n + 1] = now
      /\ \A i \in 1 .. n : allowed'[t][i] = allowed[t][i]
  BY CheckSteps
<1>3. t \notin DOMAIN buckets => n = 0
  BY DEF BudgetInv
<1>4. \A i \in 1 .. n : t \in DOMAIN buckets /\ tokens <= Left(now, allowed[t][i], n - i + 1)
  <2> SUFFICES ASSUME NEW i \in 1 .. n
               PROVE  t \in DOMAIN buckets /\ tokens <= Left(now, allowed[t][i], n - i + 1)
    OBVIOUS
  <2>1. t \in DOMAIN buckets
    BY <1>1, <1>3
  <2>2. buckets[t].tokens <= Left(buckets[t].lastRefill, allowed[t][i], n - i + 1)
    BY <2>1 DEF BudgetInv, Bounded
  <2>3. n - i + 1 \in Int /\ allowed[t][i] \in Int
    BY <1>1
  <2> QED
    BY <2>1, <2>2, <2>3, RefillLeft
<1> HIDE DEF tokens, n
<1>5. \A i \in 1 .. n : Left(now, allowed[t][i], n + 1 - i + 1) =
                       Left(now, allowed[t][i], n - i + 1) - Second
  <2> SUFFICES ASSUME NEW i \in 1 .. n
               PROVE  Left(now, allowed[t][i], n + 1 - i + 1) =
                        Left(now, allowed[t][i], n - i + 1) - Second
    OBVIOUS
  <2>1. n - i + 1 \in Int /\ n + 1 - i + 1 = (n - i + 1) + 1
    BY <1>1
  <2> QED
    BY <1>1, <2>1, LeftMoves
<1>6. Left(now, now, 1) = Full - Second
  BY <1>1, LeftMoves
<1>7. \A i \in 1 .. n : Left(now, allowed[t][i], n - i + 1) \in Int
  <2> SUFFICES ASSUME NEW i \in 1 .. n
               PROVE  Left(now, allowed[t][i], n - i + 1) \in Int
    OBVIOUS
  <2>1. n - i + 1 \in Int
    BY <1>1
  <2> QED
    BY <1>1, <2>1, LeftMoves
<1>8. Bounded(t)'
  <2>1. ASSUME NEW i \in 1 .. n + 1
        PROVE  tokens - Second <= Left(now, allowed'[t][i], n + 1 - i + 1)
    <3>1. CASE i \in 1 .. n
      BY <1>1, <1>2, <1>4, <1>5, <1>7, <3>1
    <3>2. CASE i = n + 1
      <4>1. n + 1 - i + 1 = 1
        BY <1>1, <3>2
      <4> QED
        BY <1>1, <1>2, <1>6, <3>2, <4>1
    <3> QED
      BY <1>1, <3>1, <3>2
  <2> QED
    BY <1>1, <1>2, <2>1 DEF Bounded
<1>9. Exact(t)'
  <2>1. CASE tokens = Full
    <3>1. n + 1 \in 1 .. n + 1 /\ n + 1 - (n + 1) + 1 = 1
      BY <1>1
    <3>2. tokens - Second = Left(now, allowed'[t][n + 1], n + 1 - (n + 1) + 1)
      BY <1>2, <1>6, <2>1, <3>1
    <3> QED
      BY <1>1, <1>2, <3>1, <3>2 DEF Exact
  <2>2. CASE tokens # Full
    <3>1. t \in DOMAIN buckets
      BY <2>2, FirstPasses DEF tokens
    <3>2. PICK i \in 1 .. n :
            buckets[t].tokens = Left(buckets[t].lastRefill, allowed[t][i], n - i + 1)
      BY <3>1 DEF BudgetInv, Exact, n
    <3>3. n - i + 1 \in Int
      BY <1>1
    <3>4. tokens = Gained(BucketOf(t))
      BY <2>2, RefillType DEF tokens
    <3>5. tokens = Left(now, allowed[t][i], n - i + 1)
      BY <1>1, <3>1, <3>2, <3>3, <3>4, RefillLeft DEF tokens
    <3>6. i \in 1 .. n + 1 /\ allowed'[t][i] = allowed[t][i]
      BY <1>1, <1>2
    <3>7. i \in 1 .. n + 1 /\ tokens - Second = Left(now, allowed'[t][i], n + 1 - i + 1)
      BY <1>5, <3>5, <3>6
    <3> QED
      BY <1>1, <1>2, <3>7 DEF Exact
  <2> QED
    BY <2>1, <2>2
<1>10. Within(t)'
  <2>1. ASSUME NEW i \in 1 .. n + 1, NEW j \in 1 .. n + 1, i <= j
        PROVE  Fits(j - i + 1, allowed'[t][i], allowed'[t][j])
    <3>1. CASE j \in 1 .. n
      <4>1. i \in 1 .. n
        BY <1>1, <2>1, <3>1
      <4> QED
        BY <1>2, <2>1, <3>1, <4>1 DEF BudgetInv, Within, n
    <3>2. CASE j = n + 1 /\ i = n + 1
      <4>1. j - i + 1 = 1 /\ allowed'[t][j] = now /\ allowed'[t][i] = now
        BY <1>1, <1>2, <3>2
      <4>2. Second * 1 = Second /\ RatePerSec * (now - now) = 0
        BY <1>1, RateLimiterAssumption
      <4>3. Fits(1, now, now)
        BY <1>1, <4>2, FullType DEF Fits
      <4> QED
        BY <4>1, <4>3
    <3>3. CASE j = n + 1 /\ i \in 1 .. n
      <4>1. tokens <= Left(now, allowed[t][i], n - i + 1)
        BY <1>4, <3>3
      <4>2. Left(now, allowed[t][i], n - i + 1) =
              Full + RatePerSec * (now - allowed[t][i]) - Second * (n - i + 1)
        BY DEF Left
      <4>3. Second * (j - i + 1) = Second * (n - i + 1) + Second
        BY <1>1, <3>3
      <4> DEFINE x == RatePerSec * (now - allowed[t][i])
                 y == Second * (n - i + 1)
      <4>4. x \in Int /\ y \in Int
        <5>1. now - allowed[t][i] \in Int /\ n - i + 1 \in Int
          BY <1>1, <3>3
        <5> QED
          BY <5>1, RateLimiterAssumption
      <4>5. allowed'[t][j] - allowed'[t][i] = now - allowed[t][i]
        BY <1>2, <3>3
      <4>6. tokens <= Full + x - y /\ Second * (j - i + 1) = y + Second
        BY <4>1, <4>2, <4>3
      <4> HIDE DEF x, y
      <4>7. Second * (j - i + 1) <= Full + x
        BY <1>1, <4>4, <4>6
      <4> QED
        BY <4>5, <4>7 DEF x, Fits
    <3> QED
      BY <1>1, <3>1, <3>2, <3>3
  <2> QED
    BY <1>2, <2>1 DEF Within
<1> QED
  BY <1>8, <1>9, <1>10

\* A check that is refused keeps the invariant of its tenant, and would have used up the
\* budget.
LEMMA RefusalKeepsBudget ==
  ASSUME TypeOK, BudgetInv, NEW t \in Tenants, check(t), ~latest'[t].allowed
  PROVE  Bounded(t)' /\ Exact(t)' /\ Within(t)' /\ UsesUp(t)
<1> DEFINE tokens == Refilled(BucketOf(t))
           n == Len(allowed[t])
<1>0. /\ tokens <= Second
      /\ tokens = Second => t \in DOMAIN buckets /\ tokens = Gained(BucketOf(t))
  BY CheckSteps
<1>1. /\ n \in Nat /\ now \in Int /\ tokens \in Int
      /\ Second \in Nat /\ Full \in Int /\ Full >= Second
      /\ \A i \in 1 .. n : allowed[t][i] \in Int
  BY RefillType, FullType, RateLimiterAssumption DEF TypeOK
<1>2. /\ buckets'[t].tokens = tokens /\ buckets'[t].lastRefill = now
      /\ allowed' = allowed
  BY CheckSteps
<1>3. t \in DOMAIN buckets /\ tokens = Gained(BucketOf(t))
  <2>1. tokens # Second => tokens # Full
    BY <1>0, <1>1
  <2>2. t \notin DOMAIN buckets => tokens = Full
    BY FirstPasses
  <2>3. tokens # Full => tokens = Gained(BucketOf(t))
    BY RefillType
  <2> QED
    BY <1>0, <2>1, <2>2, <2>3
<1>4. \A i \in 1 .. n : tokens <= Left(now, allowed[t][i], n - i + 1)
  <2> SUFFICES ASSUME NEW i \in 1 .. n
               PROVE  tokens <= Left(now, allowed[t][i], n - i + 1)
    OBVIOUS
  <2>1. buckets[t].tokens <= Left(buckets[t].lastRefill, allowed[t][i], n - i + 1)
    BY <1>3 DEF BudgetInv, Bounded
  <2>2. n - i + 1 \in Int /\ allowed[t][i] \in Int
    BY <1>1
  <2> QED
    BY <1>3, <2>1, <2>2, RefillLeft
<1>5. PICK i \in 1 .. n :
        buckets[t].tokens = Left(buckets[t].lastRefill, allowed[t][i], n - i + 1)
  BY <1>3 DEF BudgetInv, Exact
<1>6. tokens = Left(now, allowed[t][i], n - i + 1)
  <2>1. n - i + 1 \in Int
    BY <1>1
  <2> QED
    BY <1>1, <1>3, <1>5, <2>1, RefillLeft
<1> HIDE DEF tokens, n
<1>7. Bounded(t)'
  BY <1>2, <1>4 DEF Bounded, n
<1>8. Exact(t)'
  BY <1>2, <1>6 DEF Exact, n
<1>9. Within(t)'
  BY <1>2 DEF BudgetInv, Within
<1>10. UsesUp(t)
  <2>1. n - i + 1 \in Int /\ n - i + 2 = (n - i + 1) + 1
    BY <1>1
  <2>2. Left(now, allowed[t][i], n - i + 2) = tokens - Second
    <3>1. Left(now, allowed[t][i], (n - i + 1) + 1) =
            Left(now, allowed[t][i], n - i + 1) - Second
      BY <1>1, <2>1, LeftMoves
    <3> QED
      BY <1>6, <2>1, <3>1
  <2>3. Full + RatePerSec * (now - allowed[t][i]) - Second * (n - i + 2) <= 0
    BY <1>0, <1>1, <2>2 DEF Left, tokens
  <2> DEFINE x == RatePerSec * (now - allowed[t][i])
             y == Second * (n - i + 2)
  <2>4. x \in Int /\ y \in Int
    <3>1. now - allowed[t][i] \in Int /\ n - i + 2 \in Int
      BY <1>1
    <3> QED
      BY <3>1, RateLimiterAssumption
  <2>5. Full + x - y <= 0
    BY <2>3
  <2> HIDE DEF x, y
  <2>6. y >= Full + x
    BY <1>1, <2>4, <2>5
  <2> QED
    BY <2>6 DEF UsesUp, x, y, n
<1> QED
  BY <1>7, <1>8, <1>9, <1>10

LEMMA CheckKeepsBudget ==
  ASSUME TypeOK, BudgetInv, NEW t \in Tenants, check(t)
  PROVE  BudgetInv'
<1>1. Bounded(t)' /\ Exact(t)' /\ Within(t)'
  BY PassKeepsBudget, RefusalKeepsBudget
<1>2. /\ DOMAIN buckets' = DOMAIN buckets \cup {t}
      /\ \A s \in DOMAIN buckets \ {t} : buckets'[s] = buckets[s]
      /\ \A s \in Tenants \ {t} : allowed'[s] = allowed[s]
  BY CheckSteps
<1>3. ASSUME NEW s \in Tenants \ {t}
      PROVE  /\ Within(s)'
             /\ s \in DOMAIN buckets' => Bounded(s)' /\ Exact(s)'
             /\ s \notin DOMAIN buckets' => Len(allowed'[s]) = 0
  <2>1. /\ allowed'[s] = allowed[s]
        /\ s \in DOMAIN buckets' <=> s \in DOMAIN buckets
        /\ s \in DOMAIN buckets => buckets'[s] = buckets[s]
    BY <1>2
  <2>2. Within(s)'
    BY <2>1 DEF BudgetInv, Within
  <2>3. s \in DOMAIN buckets => Bounded(s)' /\ Exact(s)'
    BY <2>1 DEF BudgetInv, Bounded, Exact
  <2> QED
    BY <2>1, <2>2, <2>3 DEF BudgetInv
<1> QED
  BY <1>1, <1>2, <1>3 DEF BudgetInv

LEMMA BudgetInvariant == Spec => [](TypeOK /\ BudgetInv)
<1>1. Init => BudgetInv
  <2> SUFFICES ASSUME Init, NEW t \in Tenants
               PROVE  Within(t) /\ t \notin DOMAIN buckets /\ Len(allowed[t]) = 0
    BY DEF BudgetInv
  <2>1. t \notin DOMAIN buckets /\ Len(allowed[t]) = 0
    BY DEF Init
  <2> QED
    BY <2>1 DEF Within
<1>2. TypeOK /\ BudgetInv /\ [Next]_vars => BudgetInv'
  <2> SUFFICES ASSUME TypeOK, BudgetInv, [Next]_vars PROVE BudgetInv'
    OBVIOUS
  <2>1. CASE UNCHANGED <<buckets, allowed>>
    BY <2>1 DEF BudgetInv, Within, Bounded, Exact
  <2> QED
    BY <2>1, CheckKeepsBudget DEF Next, Tick, StepBack, vars
<1> QED
  BY <1>1, <1>2, TypeCorrect, PTL DEF Spec

\* Between any two requests that were allowed, the tenant was allowed no more than
\* its burst and what its rate gives in between.
THEOREM BudgetIsKept == Spec => []WithinBudget
<1>1. BudgetInv => WithinBudget
  BY DEF BudgetInv, Within, Fits, WithinBudget
<1> QED
  BY <1>1, BudgetInvariant, PTL

\* Every request that is refused would have exceeded the budget or used it up, however
\* the refills were rounded.
THEOREM RefusalsAreNeeded == Spec => RefusalsAreDue
<1>1. TypeOK /\ BudgetInv /\ [Next]_vars =>
        [\A t \in Tenants : (check(t) /\ ~latest'[t].allowed) => UsesUp(t)]_vars
  BY RefusalKeepsBudget
<1> QED
  BY <1>1, BudgetInvariant, PTL DEF Spec, RefusalsAreDue

-----------------------------------------------------------------------------
(***************************************************************************)
(* Waiting after a 429                                                     *)
(***************************************************************************)

\* As long as the clock was not set back, a bucket is never overdrawn nor refilled in
\* the future, and that of a tenant that was refused was last refilled at that time.
RetryInv ==
  ~setBack =>
    \A t \in Tenants :
      /\ t \in DOMAIN buckets => buckets[t].tokens >= 0 /\ buckets[t].lastRefill <= now
      /\ ~latest[t].allowed =>
           t \in DOMAIN buckets /\ buckets[t].lastRefill = latest[t].time

\* What elapsed seconds and rates multiply to.
LEMMA RateTimesElapsed ==
  ASSUME NEW d \in Nat
  PROVE  /\ RatePerSec * d \in Nat
         /\ RatePerSec > 1 => RatePerSec * d >= 2 * d
<1>1. RatePerSec \in Nat /\ RatePerSec >= 1
  BY RateLimiterAssumption
<1>2. RatePerSec > 1 => RatePerSec >= 2
  BY <1>1
<1> QED  BY <1>1, <1>2

\* A refill of a bucket that is not overdrawn leaves it so, and one after a second
\* is more than enough for a request.
LEMMA RefillOfWaiting ==
  ASSUME TypeOK, RetryInv, ~setBack, NEW t \in Tenants
  PROVE  /\ Refilled(BucketOf(t)) >= 0
         /\ (RatePerSec > 1 /\ t \in DOMAIN buckets /\ now >= buckets[t].lastRefill + Second)
              => Refilled(BucketOf(t)) >= Second /\ Gained(BucketOf(t)) > Second
<1> DEFINE b == BucketOf(t)
           d == now - b.lastRefill
           gain == RatePerSec * d
<1>1. b.tokens \in Int /\ b.lastRefill \in Nat /\ now \in Nat /\ Second \in Nat /\ Second > 0
  BY BucketType, RateLimiterAssumption DEF Bucket, TypeOK
<1>2. b.tokens >= 0 /\ b.lastRefill <= now
  <2>1. CASE t \in DOMAIN buckets
    BY <2>1 DEF RetryInv, BucketOf
  <2>2. CASE t \notin DOMAIN buckets
    BY <1>1, <2>2, FullType DEF BucketOf
  <2> QED  BY <2>1, <2>2
<1>3. d \in Nat
  <2> HIDE DEF b
  <2> QED  BY <1>1, <1>2
<1>4. gain \in Nat /\ (RatePerSec > 1 => gain >= 2 * d)
  <2> HIDE DEF d
  <2> QED  BY <1>3, RateTimesElapsed
<1>5. /\ Gained(b) = b.tokens + gain
      /\ Refilled(b) = IF Gained(b) < Full THEN Gained(b) ELSE Full
  BY DEF Refilled, Gained
<1>6. (t \in DOMAIN buckets /\ now >= buckets[t].lastRefill + Second) => d >= Second
  <2>1. t \in DOMAIN buckets => b = buckets[t]
    BY DEF BucketOf
  <2> HIDE DEF b
  <2> QED  BY <1>1, <2>1
<1> HIDE DEF b, d, gain
<1>7. /\ Refilled(b) >= 0
      /\ (RatePerSec > 1 /\ d >= Second) => Refilled(b) >= Second /\ Gained(b) > Second
  BY <1>1, <1>2, <1>3, <1>4, <1>5, FullType
<1> QED  BY <1>6, <1>7 DEF b

LEMMA RetryInvariant == Spec => [](TypeOK /\ RetryInv)
<1>1. Init => RetryInv
  <2> SUFFICES ASSUME Init, NEW t \in Tenants
               PROVE  t \notin DOMAIN buckets /\ latest[t].allowed
    BY DEF RetryInv
  <2>1. DOMAIN buckets = {} /\ latest[t] = [time |-> 0, allowed |-> TRUE]
    BY DEF Init
  <2> QED  BY <2>1
<1>2. TypeOK /\ RetryInv /\ [Next]_vars => RetryInv'
  <2> SUFFICES ASSUME TypeOK, RetryInv, [Next]_vars PROVE RetryInv'
    OBVIOUS
  <2>1. ASSUME NEW t \in Tenants, check(t) PROVE RetryInv'
    <3> SUFFICES ASSUME ~setBack, NEW s \in Tenants
                 PROVE  /\ s \in DOMAIN buckets' =>
                             buckets'[s].tokens >= 0 /\ buckets'[s].lastRefill <= now
                        /\ ~latest'[s].allowed =>
                             s \in DOMAIN buckets' /\ buckets'[s].lastRefill = latest'[s].time
      BY <2>1 DEF check, RetryInv
    <3> DEFINE tokens == Refilled(BucketOf(t))
    <3>1. /\ DOMAIN buckets' = DOMAIN buckets \cup {t}
          /\ buckets'[t].lastRefill = now
          /\ \A u \in DOMAIN buckets \ {t} : buckets'[u] = buckets[u]
          /\ \/ Enough(tokens) /\ buckets'[t].tokens = tokens - Second
             \/ buckets'[t].tokens = tokens
      BY <2>1, CheckSteps
    <3>2. /\ latest'[t].time = now
          /\ \A u \in Tenants \ {t} : latest'[u] = latest[u]
      BY <2>1 DEF check, checkRounded, TypeOK
    <3>3. CASE s = t
      <4>1. tokens \in Int /\ tokens >= 0 /\ Second \in Nat /\ now \in Nat
        BY RefillType, RefillOfWaiting, RateLimiterAssumption DEF TypeOK
      <4> HIDE DEF tokens
      <4>2. buckets'[t].tokens >= 0
        BY <3>1, <4>1 DEF Enough
      <4> QED  BY <3>1, <3>2, <3>3, <4>1, <4>2
    <3>4. CASE s # t
      BY <3>1, <3>2, <3>4 DEF RetryInv
    <3> QED  BY <3>3, <3>4
  <2>2. CASE Tick
    <3> SUFFICES ASSUME ~setBack, NEW s \in Tenants
                 PROVE  /\ s \in DOMAIN buckets =>
                             buckets[s].tokens >= 0 /\ buckets[s].lastRefill <= now'
                        /\ ~latest[s].allowed =>
                             s \in DOMAIN buckets /\ buckets[s].lastRefill = latest[s].time
      BY <2>2 DEF Tick, RetryInv
    <3>1. s \in DOMAIN buckets => buckets[s].lastRefill \in Nat
      BY DEF TypeOK, Bucket
    <3>2. now' = now + 1 /\ now \in Nat
      BY <2>2 DEF Tick, TypeOK
    <3> QED  BY <3>1, <3>2 DEF RetryInv
  <2>3. CASE StepBack
    BY <2>3 DEF StepBack, RetryInv
  <2>4. CASE UNCHANGED vars
    BY <2>4 DEF vars, RetryInv
  <2> QED  BY <2>1, <2>2, <2>3, <2>4 DEF Next
<1> QED  BY <1>1, <1>2, TypeCorrect, PTL DEF Spec

\* A tenant that was refused and waits the second that the answer tells it to wait is
\* allowed its next request, unless the clock was set back, for every rate of more than
\* one request per second, however the refills were rounded.
THEOREM WaitingIsEnough ==
  ASSUME RatePerSec > 1
  PROVE  Spec => RetryAfterHonoured
<1>1. TypeOK /\ RetryInv /\ [Next]_vars =>
        [\A t \in Tenants :
           (/\ check(t)
            /\ ~setBack
            /\ ~latest[t].allowed
            /\ now >= latest[t].time + Second) => latest'[t].allowed]_vars
  <2> SUFFICES ASSUME TypeOK, RetryInv, NEW t \in Tenants, check(t), ~setBack,
                      ~latest[t].allowed, now >= latest[t].time + Second
               PROVE  latest'[t].allowed
    OBVIOUS
  <2>1. t \in DOMAIN buckets /\ now >= buckets[t].lastRefill + Second
    BY DEF RetryInv
  <2>2. Refilled(BucketOf(t)) >= Second /\ Gained(BucketOf(t)) > Second
    BY <2>1, RefillOfWaiting
  <2>3. Refilled(BucketOf(t)) \in Int /\ Gained(BucketOf(t)) \in Int /\ Second \in Int
    BY RefillType, RateLimiterAssumption
  <2>4. ASSUME latest'[t].allowed = FALSE PROVE FALSE
    <3>1. /\ Refilled(BucketOf(t)) <= Second
          /\ Refilled(BucketOf(t)) = Second =>
               Refilled(BucketOf(t)) = Gained(BucketOf(t))
      BY <2>4, CheckSteps
    <3> QED  BY <2>2, <2>3, <3>1
  <2>5. latest'[t].allowed \in BOOLEAN
    BY CheckSteps
  <2> QED  BY <2>4, <2>5
<1> QED  BY <1>1, RetryInvariant, PTL DEF Spec, RetryAfterHonoured

-----------------------------------------------------------------------------
(***************************************************************************)
(* The hooks in front of the limiter                                       *)
(***************************************************************************)

\* The token is one of its own of partner, is sound, has not expired and is of a role that
\* may use the route.
Bears(token, partner, route) ==
  /\ token \in Tokens /\ token # NoToken /\ token.sub = partner
  /\ token.sound /\ ~Expired(token)
  /\ token.role \in ROUTE_ROLES(route)

\* Whoever passes the first hook, is a tenant; with a secret, one with a token of its
\* own.
LEMMA PassedHook ==
  ASSUME NEW token \in Tokens \cup {NoToken}, NEW partner \in Tenants \cup {NoPartner},
         NEW route, verifyJwt(token, partner, route) = 200
  PROVE  /\ partner \in Tenants
         /\ secret => Bears(token, partner, route)
<1>1. CASE ~secret
  BY <1>1 DEF verifyJwt
<1>2. CASE secret /\ token = NoToken
  BY <1>2 DEF verifyJwt
<1>3. CASE secret /\ token # NoToken
  BY <1>3 DEF verifyJwt, verifyToken, Bears
<1> QED  BY <1>1, <1>2, <1>3

LEMMA AdmissionSteps == [AdmissionNext]_admissionVars => [Next]_vars
<1> SUFFICES ASSUME [AdmissionNext]_admissionVars PROVE [Next]_vars
  OBVIOUS
<1>1. ASSUME NEW token \in Tokens \cup {NoToken}, NEW partner \in Tenants \cup {NoPartner},
             NEW route \in Routes, Request(token, partner, route)
      PROVE  [Next]_vars
  BY <1>1, PassedHook DEF Request, Next, admissionVars
<1> QED  BY <1>1 DEF AdmissionNext, Next, admissionVars

\* Whatever the first hook lets through or turns away, the buckets behind it move as those
\* of the limiter alone: what is shown of the limiter holds of the two together.
THEOREM AdmissionImplementsLimiter == AdmissionSpec => Spec
<1>1. AdmissionInit => Init
  BY DEF AdmissionInit
<1> QED  BY <1>1, AdmissionSteps, PTL DEF AdmissionSpec, Spec

\* A token that has not expired is used before the second after its last one.
LEMMA NotExpired ==
  ASSUME NEW n \in Nat, NEW exp \in Nat, ~(exp < n \div Second)
  PROVE  n < Second * (exp + 1)
<1> DEFINE q == n \div Second
<1>1. Second \in Nat /\ Second >= 1
  BY RateLimiterAssumption
<1>2. q \in Nat /\ n < Second * (q + 1)
  BY <1>1
<1> HIDE DEF q
<1>3. q + 1 <= exp + 1
  BY <1>2 DEF q
<1>4. Second * (q + 1) <= Second * (exp + 1)
  BY <1>1, <1>2, <1>3
<1>5. Second * (q + 1) \in Nat /\ Second * (exp + 1) \in Nat
  BY <1>1, <1>2
<1> QED  BY <1>2, <1>4, <1>5

\* In production a tenant's budget is only touched by its own requests, with a token of
\* its own that has not expired, for a role that may process.
THEOREM BearersAreCharged == AdmissionSpec => OnlyBearersAreCharged
<1>1. TypeOK /\ [AdmissionNext]_admissionVars =>
        [\A t \in Tenants : (secret /\ Charged(t)) =>
           /\ bearer' # NoToken /\ bearer'.sub = t /\ bearer'.sound
           /\ bearer'.exp = 0 \/ now < Second * (bearer'.exp + 1)
           /\ bearer'.role # "auditor"]_admissionVars
  <2> SUFFICES ASSUME TypeOK, [AdmissionNext]_admissionVars,
                      NEW t \in Tenants, secret, Charged(t)
               PROVE  /\ bearer' # NoToken /\ bearer'.sub = t /\ bearer'.sound
                      /\ bearer'.exp = 0 \/ now < Second * (bearer'.exp + 1)
                      /\ bearer'.role # "auditor"
    OBVIOUS
  <2>1. ~UNCHANGED <<buckets, allowed>>
    BY DEF Charged
  <2>2. PICK token \in Tokens \cup {NoToken}, partner \in Tenants \cup {NoPartner},
             route \in Routes : Request(token, partner, route)
    BY <2>1 DEF AdmissionNext, admissionVars, vars, Tick, StepBack
  <2>3. /\ verifyJwt(token, partner, route) = 200 /\ route = "POST /v1/process"
        /\ check(partner) /\ bearer' = token
    BY <2>1, <2>2 DEF Request, admissionVars, vars
  <2>4. /\ partner \in Tenants /\ token \in Tokens /\ token # NoToken /\ token.sub = partner
        /\ token.sound /\ ~Expired(token) /\ token.role \in ROUTE_ROLES(route)
    <3>1. partner \in Tenants /\ Bears(token, partner, route)
      BY <2>3, PassedHook, Zenon
    <3> QED  BY <3>1, Zenon DEF Bears
  <2>5. partner = t
    <3>1. /\ DOMAIN buckets' = DOMAIN buckets \cup {partner}
          /\ \A s \in DOMAIN buckets \ {partner} : buckets'[s] = buckets[s]
          /\ \A s \in Tenants \ {partner} : allowed'[s] = allowed[s]
      BY <2>3, <2>4, CheckSteps
    <3> QED  BY <3>1 DEF Charged
  <2>6. token.role # "auditor"
    BY <2>3, <2>4 DEF ROUTE_ROLES
  <2>7. token.exp \in Nat /\ now \in Nat
    BY <2>4, AdmissionAssumption DEF JwtPayload, TypeOK
  <2>8. token.exp = 0 \/ now < Second * (token.exp + 1)
    BY <2>4, <2>7, NotExpired DEF Expired
  <2> QED  BY <2>3, <2>4, <2>5, <2>6, <2>8
<1> QED
  BY <1>1, AdmissionImplementsLimiter, TypeCorrect, PTL DEF AdmissionSpec, OnlyBearersAreCharged

=============================================================================
