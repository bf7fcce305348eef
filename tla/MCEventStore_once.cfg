SPECIFICATION FairSpec
CONSTANTS
  t1 = t1
  t2 = t2
  Tenants = {t1, t2}
  Workflows = {w1}
  NoWorkflow = NoWorkflow
  Kinds = {gate, premise}
  StoredUnder <- Apart
  Capacity = 2
  Limits = {1, 2}
  Clears = TRUE
  MaxOutputs = 3
INVARIANTS SequencesAgree PagingIsComplete
PROPERTIES ImplementsLog PagingEnds
CHECK_DEADLOCK FALSE
