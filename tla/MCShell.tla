------------------------------ MODULE MCShell ------------------------------
(* Small sets of requests and policies for the model checker.             *)
EXTENDS Shell

\* Requests by combination, of the extremes only beside a critical flag or an override:
\* no premise mismatch, one below and one at each threshold; an update whose fail rate
\* is at 0.1 and its score at 75 (which does not trigger where the policy's limit is 75),
\* one whose score is at 55 (severity med), and one whose fail rate is at 0.4 (high).
MCRequests ==
  {r \in [flags : {{}, {"GEO_MISMATCH"}, {"GEO_MISMATCH", "SIGNATURE_INVALID"}},
          claimed : {10}, unvalidated : {0, 1, 3, 7},
          requested : {"decision-ready"}, granted : {"decision-ready", "reference-only"},
          override : BOOLEAN,
          update : {NoUpdate,
                    [total |-> 10, failed |-> 1, score |-> 75],
                    [total |-> 10, failed |-> 3, score |-> 55],
                    [total |-> 10, failed |-> 4, score |-> 55]}] :
     /\ r.override => r.granted = "decision-ready"
     /\ r.override \/ "SIGNATURE_INVALID" \in r.flags => r.unvalidated \in {0, 7}}

RELAXED ==
  [govLevel |-> "ENTERPRISE_RELAXED", blockOnContainment |-> TRUE,
   available |-> 70, limited |-> 50, degraded |-> 40, stable |-> 75, provisional |-> 55]

\* A custom profile: the pilot level with blocking on.
PILOT_BLOCKING ==
  [govLevel |-> "PILOT", blockOnContainment |-> TRUE,
   available |-> 60, limited |-> 58, degraded |-> 30, stable |-> 65, provisional |-> 45]

INCONSISTENT == [STRICT_PROD EXCEPT !.limited = 80]

MCPolicies ==
  {STRICT_PROD, CRITICAL_STRICT, PILOT_OBS, RELAXED, PILOT_BLOCKING, INCONSISTENT}
=============================================================================
