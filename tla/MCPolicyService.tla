-------------------------- MODULE MCPolicyService --------------------------
(* Policies for the model checker: two that are accepted and differ in     *)
(* their SLAs, one that does not parse, and one that is not consistent.    *)
EXTENDS PolicyService

CONSTANTS strict, pilot, malformed, inconsistent

MCSla ==
  [p \in RawPolicies |-> [l \in Layers |-> IF p = pilot THEN 3 ELSE 1]]

\* The tenants are alike: no definition tells one from another.
TenantSymmetry == Permutations(Tenants)
=============================================================================
