------------------------------ MODULE Judgment ------------------------------
(***************************************************************************)
(* How the shell decides about one request: the four detection layers      *)
(* (core/src/detection/layers.ts), their aggregation (shell/src/judge),    *)
(* the scores (core/src/scoring), the verdict (core/src/engine) and the    *)
(* policies (core/src/policy).  Operators only; Shell.tla is the machine.  *)
(*                                                                         *)
(* A request is a record: the input flags; how many premises it claims and *)
(* how many of them are not among the validated ones; the authority it     *)
(* asks for, the one policy grants, and whether it tries to override; and  *)
(* the update under watch, with its equivalence tests and score, if any.   *)
(* A ratio is compared with a decimal literal by cross-multiplication: the *)
(* quotient of two integers rounds to the double of the literal exactly    *)
(* when they are equal.                                                    *)
(***************************************************************************)
EXTENDS Integers

CriticalFlags == {"INJECTION_PATTERN", "KNOWN_BAD_SOURCE", "SIGNATURE_INVALID"}
WarnFlags == {"RATE_EXCEEDED", "UNRECOGNIZED_SOURCE", "GEO_MISMATCH"}

Severities == {"low", "med", "high"}
Scopes == {"req", "flow", "sys"}
Layers == {"gate", "premise", "authority", "continuity"}
Authorities == {"decision-ready", "reference-only", "invalid"}
IntegrityLevels == {"Available", "Limited", "Degraded", "Critical"}
Actions == {"PASS", "DOWNGRADE", "BLOCK", "FAIL_SAFE"}
RoutingHints ==
  {"SOC / Security Queue", "Architecture / Requirements Review",
   "Governance / Policy Review", "Change Mgmt / Rollback Path"}
GovLevels == {"CRITICAL_STRICT", "ENTERPRISE_STRICT", "ENTERPRISE_RELAXED", "PILOT"}

\* A request without an updateId: one test fails out of none.
NoUpdate == [total |-> 0, failed |-> 1, score |-> 0]

Update == {u \in [total : Nat, failed : Nat, score : Int] : u.failed <= u.total}

Request ==
  {r \in [flags : SUBSET STRING, claimed : Nat, unvalidated : Nat,
          requested : {"decision-ready", "reference-only"},
          granted : Authorities, override : BOOLEAN,
          update : Update \cup {NoUpdate}] : r.unvalidated <= r.claimed}

Policy ==
  [govLevel : GovLevels, blockOnContainment : BOOLEAN, available : Nat,
   limited : Nat, degraded : Nat, stable : Nat, provisional : Nat]

-----------------------------------------------------------------------------
(***************************************************************************)
(* The detection layers                                                    *)
(***************************************************************************)

detectGate(flags) ==
  LET hasCritical == flags \cap CriticalFlags # {}
      hasWarn == flags \cap WarnFlags # {}
  IN  [layer     |-> "gate",
       triggered |-> hasCritical \/ hasWarn,
       severity  |-> IF hasCritical THEN "high" ELSE IF hasWarn THEN "med" ELSE "low",
       scope     |-> IF hasCritical THEN "sys" ELSE "req"]

PremiseSeverity(claimed, unvalidated) ==
  IF claimed > 0 /\ 10 * unvalidated >= 7 * claimed THEN "high"
  ELSE IF claimed > 0 /\ 10 * unvalidated >= 3 * claimed THEN "med"
  ELSE "low"

detectPremise(claimed, unvalidated) ==
  [layer     |-> "premise",
   triggered |-> unvalidated > 0,
   severity  |-> PremiseSeverity(claimed, unvalidated),
   scope     |-> IF PremiseSeverity(claimed, unvalidated) = "high" THEN "flow" ELSE "req"]

detectAuthority(requested, granted, override) ==
  [layer     |-> "authority",
   triggered |-> override \/ (granted # "decision-ready" /\ requested = "decision-ready"),
   severity  |-> IF override \/ granted = "invalid" THEN "high" ELSE "med",
   scope     |-> IF override THEN "sys" ELSE "req"]

ContinuitySeverity(update) ==
  IF (update.total > 0 /\ 10 * update.failed >= 4 * update.total) \/ update.score < 55
  THEN "high"
  ELSE IF (update.total > 0 /\ 10 * update.failed >= update.total) \/ update.score < 75
  THEN "med"
  ELSE "low"

detectContinuity(update, stable) ==
  [layer     |-> "continuity",
   triggered |-> update.score < stable \/ 10 * update.failed > update.total,
   severity  |-> ContinuitySeverity(update),
   scope     |-> "sys"]

-----------------------------------------------------------------------------
(***************************************************************************)
(* Judge.judge: all layers run, continuity only for an update              *)
(***************************************************************************)

LayerResults(req, policy) ==
  {detectGate(req.flags),
   detectPremise(req.claimed, req.unvalidated),
   detectAuthority(req.requested, req.granted, req.override)}
  \cup (IF req.update = NoUpdate THEN {} ELSE {detectContinuity(req.update, policy.stable)})

Triggered(req, policy) == {r \in LayerResults(req, policy) : r.triggered}

SEVERITY_RANK == [s \in Severities |-> CASE s = "low" -> 1 [] s = "med" -> 2 [] s = "high" -> 3]

\* The order the layers run in.
Position ==
  [l \in Layers |-> CASE l = "gate" -> 1 [] l = "premise" -> 2
                      [] l = "authority" -> 3 [] l = "continuity" -> 4]

\* Mutant: the last result wins, whatever its severity.
Dominates_Latest(r, other) == Position[r.layer] >= Position[other.layer]

\* The reduce keeps the earlier layer unless the later one is strictly worse.
Dominates(r, other) ==
  \/ SEVERITY_RANK[r.severity] > SEVERITY_RANK[other.severity]
  \/ /\ r.severity = other.severity
     /\ Position[r.layer] <= Position[other.layer]

Dominant(results) == CHOOSE r \in results : \A other \in results : Dominates(r, other)

\* Mutant: the mildest severity of the triggered layers.
Severity_Mildest(results) ==
  IF results = {} \/ \E r \in results : r.severity = "low" THEN "low"
  ELSE IF \E r \in results : r.severity = "med" THEN "med"
  ELSE "high"

\* worseSeverity folded over the triggered layers, from "low" on.
Severity(results) ==
  IF \E r \in results : r.severity = "high" THEN "high"
  ELSE IF \E r \in results : r.severity = "med" THEN "med"
  ELSE "low"

\* widerScope folded over the triggered layers, from "req" on.
Scope(results) ==
  IF \E r \in results : r.scope = "sys" THEN "sys"
  ELSE IF \E r \in results : r.scope = "flow" THEN "flow"
  ELSE "req"

-----------------------------------------------------------------------------
(***************************************************************************)
(* The scores: by the aggregate severity, or nominal if nothing triggered  *)
(***************************************************************************)

\* Mutant: two entries of the table are transposed.
IntegrityScore_Transposed(triggered, severity) ==
  CASE ~triggered -> 88
    [] triggered /\ severity = "low" -> 61
    [] triggered /\ severity = "med" -> 74
    [] triggered /\ severity = "high" -> 29

IntegrityScore(triggered, severity) ==
  CASE ~triggered -> 88
    [] triggered /\ severity = "low" -> 74
    [] triggered /\ severity = "med" -> 61
    [] triggered /\ severity = "high" -> 29

\* Mutant: two entries of the table are transposed.
AuthorityScore_Transposed(triggered, severity) ==
  CASE ~triggered -> 84
    [] triggered /\ severity = "low" -> 58
    [] triggered /\ severity = "med" -> 72
    [] triggered /\ severity = "high" -> 22

AuthorityScore(triggered, severity) ==
  CASE ~triggered -> 84
    [] triggered /\ severity = "low" -> 72
    [] triggered /\ severity = "med" -> 58
    [] triggered /\ severity = "high" -> 22

scoreToIntegrityLevel(score, policy) ==
  IF score >= policy.available THEN "Available"
  ELSE IF score >= policy.limited THEN "Limited"
  ELSE IF score >= policy.degraded THEN "Degraded"
  ELSE "Critical"

scoreToOutputAuthority(score, policy) ==
  IF score >= policy.available THEN "decision-ready"
  ELSE IF score >= policy.limited THEN "reference-only"
  ELSE "invalid"

scoreToContinuityState(score, policy) ==
  IF score >= policy.stable THEN "STABLE"
  ELSE IF score >= policy.provisional THEN "PROVISIONAL"
  ELSE "UNSTABLE"

clamp(value, low, high) == IF value < low THEN low ELSE IF value > high THEN high ELSE value

\* The metrics that are shown with a state, from the integrity score; all are rounded
\* half up.  What is governed is a part of the exposure before that is clamped.
computeContainmentMetrics(score) ==
  LET rawExposurePct == (18 * (100 - score) + 13) \div 10
  IN  [rawExposurePct          |-> clamp(rawExposurePct, 0, 100),
       governedOutputPct       |-> clamp((42 * rawExposurePct + 50) \div 100, 0, 100),
       coreIsolationPct        |-> clamp((92 * score + 850) \div 100, 0, 100),
       contextDriftPressurePct |-> clamp((6 * (100 - score) + 5) \div 10, 0, 100),
       latencyOverheadMs       |-> (7 * (100 - score) + 241) \div 2]

\* The JudgmentResult.
judge(req, policy) ==
  LET hits == Triggered(req, policy)
      triggered == hits # {}
      severity == Severity(hits)
  IN  [layer     |-> IF triggered THEN Dominant(hits).layer ELSE "none",
       severity  |-> severity,
       scope     |-> Scope(hits),
       score     |-> IntegrityScore(triggered, severity),
       integrity |-> scoreToIntegrityLevel(IntegrityScore(triggered, severity), policy),
       authority |-> scoreToOutputAuthority(AuthorityScore(triggered, severity), policy)]

-----------------------------------------------------------------------------
(***************************************************************************)
(* The verdict and the output of the Enforcer                              *)
(***************************************************************************)

\* Mutant: the profile that never blocks passes the worst, not the rest.
resolveAction_Swapped(severity, policy) ==
  IF ~policy.blockOnContainment THEN IF severity = "high" THEN "PASS" ELSE "DOWNGRADE"
  ELSE IF severity = "high" THEN "BLOCK" ELSE "DOWNGRADE"

resolveAction(severity, policy) ==
  IF ~policy.blockOnContainment THEN IF severity = "high" THEN "DOWNGRADE" ELSE "PASS"
  ELSE CASE policy.govLevel = "CRITICAL_STRICT" -> "BLOCK"
         [] policy.govLevel = "ENTERPRISE_STRICT" ->
              IF severity = "low" THEN "DOWNGRADE" ELSE "BLOCK"
         [] policy.govLevel = "ENTERPRISE_RELAXED" ->
              IF severity = "high" THEN "BLOCK"
              ELSE IF severity = "med" THEN "DOWNGRADE" ELSE "PASS"
         [] policy.govLevel = "PILOT" ->
              IF severity = "high" THEN "DOWNGRADE" ELSE "PASS"

\* Mutant: the authority of a downgrade is an integrity label.
AuthorityForAction_Label(action, authority) ==
  CASE action = "PASS" -> authority
    [] action = "DOWNGRADE" -> "Limited"
    [] action \in {"BLOCK", "FAIL_SAFE"} -> "invalid"

AuthorityForAction(action, authority) ==
  CASE action = "PASS" -> authority
    [] action = "DOWNGRADE" -> "reference-only"
    [] action \in {"BLOCK", "FAIL_SAFE"} -> "invalid"

computeRouting(layer) ==
  CASE layer = "gate" -> "SOC / Security Queue"
    [] layer = "premise" -> "Architecture / Requirements Review"
    [] layer = "authority" -> "Governance / Policy Review"
    [] layer = "continuity" -> "Change Mgmt / Rollback Path"

\* The event: it always names a layer, the gate when no layer triggered.
BuildGovEvent(judgment) ==
  [layer    |-> IF judgment.layer = "none" THEN "gate" ELSE judgment.layer,
   severity |-> judgment.severity,
   scope    |-> judgment.scope]

NoEvent == [layer |-> "none", severity |-> "none", scope |-> "none"]

\* core's enforce().
enforce(judgment, policy) ==
  LET action == resolveAction(judgment.severity, policy)
  IN  [action    |-> action,
       authority |-> AuthorityForAction(action, judgment.authority),
       integrity |-> judgment.integrity,
       routing   |-> IF action = "PASS" THEN "none"
                     ELSE computeRouting(BuildGovEvent(judgment).layer)]

\* The continuity score in the state is a constant of the code.
BuildGovState(judgment, action, policy) ==
  [systemStatus  |-> CASE action = "BLOCK" -> "ENFORCING (STRICT)"
                       [] action = "DOWNGRADE" -> "ENFORCING (LIMITED)"
                       [] action = "PASS" -> "ENFORCING",
   operationalMode |-> CASE action = "BLOCK" -> "CONTAINMENT"
                         [] action = "DOWNGRADE" -> "LIMITED"
                         [] action = "PASS" -> "NORMAL",
   integrity     |-> judgment.integrity,
   metrics       |-> computeContainmentMetrics(judgment.score),
   updateState   |-> scoreToContinuityState(85, policy),
   blockedLayer  |-> judgment.layer]

\* What _enforce returns and emits.
Decide(req, policy) ==
  LET judgment == judge(req, policy)
      verdict == enforce(judgment, policy)
  IN  [verdict |-> verdict,
       event   |-> IF verdict.action = "PASS" THEN NoEvent ELSE BuildGovEvent(judgment),
       state   |-> BuildGovState(judgment, verdict.action, policy)]

failSafeVerdict ==
  [action |-> "FAIL_SAFE", authority |-> "invalid", integrity |-> "Critical", routing |-> "none"]

BuildFailSafeState ==
  [systemStatus    |-> "FAIL_SAFE",
   operationalMode |-> "CONTAINMENT",
   integrity       |-> "Critical",
   metrics         |-> [rawExposurePct |-> 100, governedOutputPct |-> 0, coreIsolationPct |-> 0,
                        contextDriftPressurePct |-> 100, latencyOverheadMs |-> 0],
   updateState     |-> "UNSTABLE",
   blockedLayer    |-> "none"]

\* The loop writes out the state that the Enforcer builds; there is no event.
FailSafe == [verdict |-> failSafeVerdict, event |-> NoEvent, state |-> BuildFailSafeState]

-----------------------------------------------------------------------------
(***************************************************************************)
(* The built-in policies and the check a policy must pass                  *)
(***************************************************************************)

STRICT_PROD ==
  [govLevel |-> "ENTERPRISE_STRICT", blockOnContainment |-> TRUE,
   available |-> 80, limited |-> 60, degraded |-> 40, stable |-> 75, provisional |-> 55]

CRITICAL_STRICT ==
  [govLevel |-> "CRITICAL_STRICT", blockOnContainment |-> TRUE,
   available |-> 90, limited |-> 70, degraded |-> 50, stable |-> 85, provisional |-> 65]

PILOT_OBS ==
  [govLevel |-> "PILOT", blockOnContainment |-> FALSE,
   available |-> 70, limited |-> 50, degraded |-> 30, stable |-> 65, provisional |-> 45]

validatePolicyConsistency(policy) ==
  /\ policy.available > policy.limited
  /\ policy.limited > policy.degraded
  /\ policy.stable > policy.provisional

-----------------------------------------------------------------------------
(***************************************************************************)
(* The orders the properties compare by                                    *)
(***************************************************************************)

ActionRank ==
  [a \in Actions |-> CASE a = "PASS" -> 0 [] a = "DOWNGRADE" -> 1
                       [] a = "BLOCK" -> 2 [] a = "FAIL_SAFE" -> 3]

AuthorityRank ==
  [a \in Authorities |-> CASE a = "invalid" -> 0 [] a = "reference-only" -> 1
                           [] a = "decision-ready" -> 2]

\* q gives at least the grounds for containment that r gives.
AtLeastAsBad(q, r) ==
  /\ r.flags \subseteq q.flags
  /\ q.claimed = r.claimed /\ q.unvalidated >= r.unvalidated
  /\ r.requested = "decision-ready" => q.requested = "decision-ready"
  /\ AuthorityRank[q.granted] <= AuthorityRank[r.granted]
  /\ r.override => q.override
  /\ \/ r.update = NoUpdate
     \/ /\ q.update # NoUpdate
        /\ q.update.total = r.update.total
        /\ q.update.failed >= r.update.failed
        /\ q.update.score <= r.update.score

=============================================================================
