SPECIFICATION FairSpec
CONSTANTS
  t1 = t1
  t2 = t2
  Tenants = {t1, t2}
  Workflows = {w1}
  NoWorkflow = NoWorkflow
  Kinds = {gate}
  StoredUnder <- Twice
  Capacity = 5
  Limits = {1}
  Clears = FALSE
  MaxOutputs = 3
PROPERTIES PagingEnds
CHECK_DEADLOCK FALSE
