SPECIFICATION Spec
CONSTANTS
  strict = strict
  pilot = pilot
  malformed = malformed
  inconsistent = inconsistent
  RawPolicies = {strict, pilot, malformed, inconsistent}
  WellFormed = {strict, pilot, inconsistent}
  Consistent = {strict, pilot, malformed}
  DefaultPolicy = strict
  Sla <- MCSla
  Tenants = {t1, t2}
  Layers = {gate, premise}
  Users = {u1}
  MaxHistory = 1
  BufferSize = 2
  Latencies = {1, 2}
  MaxChanges = 3
  MaxSamples = 3
INVARIANTS SlaFollowsPolicy CountsFollowPolicy HistoryIsExact PercentilesAreRanks
SYMMETRY TenantSymmetry
