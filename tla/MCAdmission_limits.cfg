\* Two tenants behind both hooks, with and without a secret.
SPECIFICATION AdmissionSpec
CONSTANTS
  Tenants = {"t1", "t2"}
  Second = 3
  RatePerSec = 2
  Burst = 2
  MaxStepBack = 1
  MaxAllowed = 3
  MaxNow = 3
  Routes <- MCRoutes
  Tokens <- MCTokens
  NoToken <- MCNoToken
INVARIANTS WithinBudget
PROPERTIES RefusalsAreDue RetryAfterHonoured OnlyBearersAreCharged
CHECK_DEADLOCK FALSE
