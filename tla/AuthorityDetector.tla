-------------------------- MODULE AuthorityDetector --------------------------
(***************************************************************************)
(* The authority detector of phase 3 (detection/src/authority): what a     *)
(* request may be granted after what it was granted before.  Operators     *)
(* only; the audit log is state of DetectorSets.tla.                       *)
(*                                                                         *)
(* An input is [requested, policyGranted, overrideAttempted, previous],    *)
(* where previous is NoAuthority at the start of a chain.                  *)
(***************************************************************************)
LOCAL INSTANCE Integers

Authorities == {"decision-ready", "reference-only", "invalid"}
NoAuthority == "none"

AuthorityDetectionInput ==
  [requested : Authorities, policyGranted : Authorities, overrideAttempted : BOOLEAN,
   previous : Authorities \cup {NoAuthority}]

AUTHORITY_RANK ==
  [a \in Authorities |-> CASE a = "invalid" -> 0 [] a = "reference-only" -> 1
                           [] a = "decision-ready" -> 2]

min(a, b) == IF AUTHORITY_RANK[a] <= AUTHORITY_RANK[b] THEN a ELSE b

PolicyEffective(input) == min(input.requested, input.policyGranted)

\* Mutant: an authority lost by a policy that has changed since is given back.
EffectiveAuthority_Unchained(input) == PolicyEffective(input)

EffectiveAuthority(input) ==
  IF input.previous = NoAuthority THEN PolicyEffective(input)
  ELSE min(PolicyEffective(input), input.previous)

ActualOverride(input) ==
  \/ input.overrideAttempted
  \/ AUTHORITY_RANK[input.requested] > AUTHORITY_RANK[EffectiveAuthority(input)]

classifyOverride(input) ==
  LET effective == EffectiveAuthority(input)
  IN  IF ~ActualOverride(input) /\ input.requested = effective THEN "none"
      ELSE IF effective = "invalid" /\ input.requested # "invalid" THEN "invalid_state_claim"
      ELSE IF AUTHORITY_RANK[input.requested] > AUTHORITY_RANK[input.policyGranted]
           THEN "escalation_attempt"
      ELSE IF input.requested = input.policyGranted /\ effective # input.policyGranted
           THEN "boundary_test"
      ELSE "none"

AuthoritySeverity(classification, effective) ==
  CASE classification \in {"escalation_attempt", "invalid_state_claim"} -> "high"
    [] OTHER -> IF effective = "invalid" \/ classification = "boundary_test"
                THEN "med" ELSE "low"

Decision(input) ==
  CASE EffectiveAuthority(input) = "invalid" -> "DENY"
    [] OTHER -> IF EffectiveAuthority(input) # input.requested THEN "DOWNGRADE" ELSE "GRANT"

AuditEntry(input) ==
  [requestedAuthority     |-> input.requested,
   grantedAuthority       |-> EffectiveAuthority(input),
   overrideAttempted      |-> ActualOverride(input),
   overrideClassification |-> classifyOverride(input),
   decision               |-> Decision(input)]

detect(input) ==
  [triggered          |-> \/ ActualOverride(input)
                          \/ EffectiveAuthority(input) = "invalid"
                          \/ EffectiveAuthority(input) # input.requested,
   severity           |-> AuthoritySeverity(classifyOverride(input), EffectiveAuthority(input)),
   scope              |-> IF classifyOverride(input) = "escalation_attempt"
                          THEN "sys" ELSE "req",
   effectiveAuthority |-> EffectiveAuthority(input),
   auditEntry         |-> AuditEntry(input)]

=============================================================================
