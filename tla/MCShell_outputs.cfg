SPECIFICATION Spec
CONSTANTS
  Policies <- MCPolicies
  Requests <- MCRequests
  Listeners = {"fine", "throws once", "throws always"}
  ObserverFaults = TRUE
INVARIANTS TypeOK HighNeverPasses ServedAsAnnounced EventNamesWorstLayer
PROPERTIES WorseIsNotMoreLenient  WorseHasNoMoreAuthority
