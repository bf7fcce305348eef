----------------------------- MODULE RateLimiter -----------------------------
(***************************************************************************)
(* The token bucket of each tenant: RateLimiter.check() and the 429 of     *)
(* rateLimitMiddleware (hardening/src/jwt/auth-middleware.ts).             *)
(*                                                                         *)
(* Tokens are counted in units of 1/Second of a token, so a refill of      *)
(* elapsed / 1000 * ratePerSec tokens is a whole number of them.  The code *)
(* adds refills up in floating point, with errors that stay far below a    *)
(* unit: one too many never makes a token whole, but one too few may leave *)
(* a bucket that should hold exactly one token just short of it.  `short'  *)
(* says that a bucket holds less than its tokens by such an error.         *)
(*                                                                         *)
(* The clock is Date.now(), which may be set back while the server runs.   *)
(***************************************************************************)
EXTENDS Integers, Sequences

CONSTANTS
  Tenants,     \* partner ids
  Second,      \* clock units in a second (1000)
  RatePerSec,  \* ratePerSec (100)
  Burst,       \* burst (150)
  MaxStepBack, \* how far the clock is set back at once
  MaxAllowed,  \* bound: requests of a tenant that were allowed
  MaxNow       \* bound: clock readings

ASSUME RateLimiterAssumption ==
  /\ Second \in Nat \ {0}
  /\ RatePerSec \in Nat \ {0}
  /\ Burst \in Nat \ {0}
  /\ MaxStepBack \in Nat
  /\ MaxAllowed \in Nat
  /\ MaxNow \in Nat

VARIABLES
  buckets, \* the bucket of each tenant that was checked
  allowed, \* when the requests of each tenant were allowed, oldest first
  latest,  \* when the latest check of each tenant was made, and its outcome
  now,     \* Date.now()
  setBack  \* whether the clock has ever been set back

vars == <<buckets, allowed, latest, now, setBack>>

Bucket == [tokens : Int, lastRefill : Nat, short : {0, 1}]

Check == [time : Nat, allowed : BOOLEAN]

Full == Second * Burst

Init ==
  /\ buckets = [t \in {} |-> [tokens |-> Full, lastRefill |-> 0, short |-> 0]]
  /\ allowed = [t \in Tenants |-> <<>>]
  /\ latest = [t \in Tenants |-> [time |-> 0, allowed |-> TRUE]]
  /\ now = 0
  /\ setBack = FALSE

-----------------------------------------------------------------------------

BucketOf(t) ==
  IF t \in DOMAIN buckets THEN buckets[t]
  ELSE [tokens |-> Full, lastRefill |-> now, short |-> 0]

\* What a bucket holds with what it gains, before it is capped.
Gained(bucket) == bucket.tokens + RatePerSec * (now - bucket.lastRefill)

Refilled(bucket) == IF Gained(bucket) < Full THEN Gained(bucket) ELSE Full

\* The rounding: a bucket that is capped holds the burst exactly, adding nothing changes
\* nothing, and any other sum may come out short.
Shortfall(bucket) ==
  IF Gained(bucket) > Full THEN {0}
  ELSE IF now = bucket.lastRefill THEN {bucket.short}
  ELSE {0, 1}

Enough(tokens) == tokens >= Second

\* Mutant: the time of the refill is only noted when the request is allowed.
Refused_NotNoted(bucket, tokens, short) ==
  [tokens |-> tokens, lastRefill |-> bucket.lastRefill, short |-> short]

\* Mutant: a refused request is charged too.
Refused_Charged(bucket, tokens, short) ==
  [tokens |-> tokens - Second, lastRefill |-> now, short |-> short]

\* The bucket after a refused request.
Refused(bucket, tokens, short) == [tokens |-> tokens, lastRefill |-> now, short |-> short]

\* check() of a bucket whose refill came out short or not.
checkRounded(t, bucket, short) ==
  LET tokens == Refilled(bucket)
      passes == Enough(tokens - short)
  IN  /\ buckets' = [s \in DOMAIN buckets \cup {t} |->
                       IF s # t THEN buckets[s]
                       ELSE IF passes
                            THEN [tokens |-> tokens - Second, lastRefill |-> now, short |-> short]
                            ELSE Refused(bucket, tokens, short)]
      /\ allowed' = IF passes THEN [allowed EXCEPT ![t] = Append(@, now)] ELSE allowed
      /\ latest' = [latest EXCEPT ![t] = [time |-> now, allowed |-> passes]]

\* check(), the whole of a request as far as the limiter goes.
check(t) ==
  /\ Len(allowed[t]) < MaxAllowed
  /\ \E short \in Shortfall(BucketOf(t)) : checkRounded(t, BucketOf(t), short)
  /\ UNCHANGED <<now, setBack>>

Tick ==
  /\ now < MaxNow
  /\ now' = now + 1
  /\ UNCHANGED <<buckets, allowed, latest, setBack>>

\* The clock is set back.
StepBack ==
  /\ \E d \in 1 .. MaxStepBack : d <= now /\ now' = now - d
  /\ setBack' = TRUE
  /\ UNCHANGED <<buckets, allowed, latest>>

Next == (\E t \in Tenants : check(t)) \/ Tick \/ StepBack

Spec == Init /\ [][Next]_vars

-----------------------------------------------------------------------------
(***************************************************************************)
(* Properties                                                              *)
(***************************************************************************)

\* The types of the variables; no bucket holds more than the burst.
TypeOK ==
  /\ DOMAIN buckets \subseteq Tenants
  /\ buckets \in [DOMAIN buckets -> Bucket]
  /\ \A t \in DOMAIN buckets : buckets[t].tokens <= Full
  /\ allowed \in [Tenants -> Seq(Nat)]
  /\ latest \in [Tenants -> Check]
  /\ now \in Nat
  /\ setBack \in BOOLEAN

\* "100 requests/second per tenant (burst: 150)" (auth-middleware.ts:204): between any two
\* requests that were allowed, no more than the burst and what the rate gives in
\* between were allowed, whatever was refused in between and however the clock
\* was set back.
WithinBudget ==
  \A t \in Tenants : \A i, j \in 1 .. Len(allowed[t]) :
    i <= j =>
      Second * (j - i + 1) <= Full + RatePerSec * (allowed[t][j] - allowed[t][i])

\* Whether one more request of tenant t would exceed the budget from an earlier one on,
\* or use it up to the last.
UsesUp(t) ==
  \E i \in 1 .. Len(allowed[t]) :
    Second * (Len(allowed[t]) - i + 2) >= Full + RatePerSec * (now - allowed[t][i])

\* No request is refused that leaves anything of the budget: refusals, however many there
\* are and whenever they come, cost the tenant no more than the rounding of their
\* refills, which takes effect when a request would use up the budget exactly (ten
\* refills of 0.1 tokens make less than one).
RefusalsAreDue ==
  [][\A t \in Tenants : (check(t) /\ ~latest'[t].allowed) => UsesUp(t)]_vars

\* The answer 429 says "retryAfterMs: 1000": a tenant that was refused and then waits a
\* second is not refused again, unless the clock was set back: that takes tokens away.
\* Rounding does not matter as a second brings more than one token.
RetryAfterHonoured ==
  [][\A t \in Tenants :
       (/\ check(t)
        /\ ~setBack
        /\ ~latest[t].allowed
        /\ now >= latest[t].time + Second) => latest'[t].allowed]_vars

=============================================================================
