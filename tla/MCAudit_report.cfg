SPECIFICATION AuditSpec
CONSTANTS
  t1 = t1
  t2 = t2
  Tenants = {t1, t2}
  Auditee = t1
  Workflows = {w1, w2}
  NoWorkflow = NoWorkflow
  Kinds <- MCKinds
  StoredUnder <- MCServer
  Capacity = 3
  Limits = {1}
  Clears = FALSE
  MaxOutputs = 4
INVARIANTS ClassifiedMeansEscalated UrielleClaimsNoMore ChainsOnlyGrow ReportCountsEventsOnce
CHECK_DEADLOCK FALSE
