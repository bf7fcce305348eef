\* Three calls between two tenants, a clock of three instants, resets at any time.
SPECIFICATION Spec
CONSTANTS
  Tenants = {a, b}
  Workflows = {w1}
  Rules <- MCRules
  GateInputs <- MCGateInputs
  Terms <- MCTerms
  Weights <- MCWeights
  Claims <- MCClaims
  Grants = {"decision-ready", "reference-only"}
  Failures <- MCFailures
  Thresholds <- MCThresholds
  MaxCalls = 3
  MaxTime = 2
SYMMETRY Permuted
INVARIANTS GatesAreIsolated RulesNeverSoften PresentationDecides AuthorityNeverRises WindowFollowsHistory
\* The calls are bounded.
CHECK_DEADLOCK FALSE
