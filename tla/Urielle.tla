------------------------------- MODULE Urielle -------------------------------
(***************************************************************************)
(* The audit layer (urielle/src): it takes EGS's signals in through a      *)
(* schema of its own and turns them into findings, sequence reports, the   *)
(* posture of a tenant, the coverage of ISO 42001 controls and a report on *)
(* latencies.  Operators only.  Urielle's signal is the core of EGS's,     *)
(* flattened, with the sequence layer; the sequences of signals, findings  *)
(* and reports keep their order, since ids and ties depend on it.          *)
(***************************************************************************)
EXTENDS Integers, Sequences, FiniteSets, SequencesExt, Filtering

EGS == INSTANCE AuditSignal

\* EGS's pattern types but one.
AcceptedPatterns == {"STABLE", "DEGRADING", "CONTAINED", "VOLATILE"}

\* Urielle's AuditSignalSchema.safeParse() succeeds.
Accepts(signal) ==
  /\ signal.sequenceNumber \in Nat \ {0}
  /\ signal.layer \in EGS!Layers /\ signal.severity \in EGS!Severities
  /\ signal.action \in EGS!Actions /\ signal.mttdUs \in Nat
  /\ \/ signal.sequence = EGS!NoSequence
     \/ /\ signal.sequence.patternType \in AcceptedPatterns
        /\ signal.sequence.consistencyScore \in 0 .. 100
        /\ signal.sequence.eventCount \in Nat \ {0}
        /\ ToSet(signal.sequence.actionChain) \subseteq EGS!Actions
        /\ signal.sequence.layersInvolved \subseteq EGS!Layers

\* A signal of EGS in the form that Urielle's schema asks for.  EGS makes a record with
\* the parts core and sequence, Urielle takes one whose core fields lie beside sequence,
\* and no code of the repository makes the one of the other: whoever calls Urielle does.
Flattened(signal) ==
  [evidenceHandle |-> signal.core.evidenceHandle,
   sequenceNumber |-> signal.core.sequenceNumber,
   layer          |-> signal.core.layer,
   severity       |-> signal.core.severity,
   action         |-> signal.core.action,
   mttdUs         |-> signal.core.mttdUs,
   sequence       |-> signal.sequence]

\* Urielle's own level of the evidence: the consistency score is not asked for.
evidenceLevel(signal) ==
  CASE signal.severity = "high" /\ signal.action = "BLOCK"
         /\ signal.sequence.escalationDetected -> "STRONG"
    [] OTHER -> IF signal.severity = "high" \/ signal.action = "BLOCK"
                THEN "MODERATE" ELSE "WEAK"

\* Controls are named by their clause.
ISO42001_CONTROL_MAP ==
  [l \in EGS!Layers |-> CASE l = "gate"       -> {"6.1.2", "8.4", "9.1"}
                          [] l = "premise"    -> {"6.1.3", "8.3", "9.2"}
                          [] l = "authority"  -> {"8.5", "9.3", "10.1"}
                          [] l = "continuity" -> {"8.6", "9.1", "10.2"}]

-----------------------------------------------------------------------------
(***************************************************************************)
(* Findings                                                                *)
(***************************************************************************)

deriveFindingSeverity(signal) ==
  CASE signal.action = "FAIL_SAFE" -> "CRITICAL"
    [] signal.action = "BLOCK" -> IF signal.severity = "high" THEN "HIGH" ELSE "MEDIUM"
    [] signal.action = "DOWNGRADE" -> IF signal.severity = "high" THEN "MEDIUM" ELSE "LOW"
    [] OTHER -> "INFORMATIONAL"

deriveControlStatus(signal) ==
  CASE signal.action = "FAIL_SAFE" -> "FAILED_SAFE"
    [] signal.action # "FAIL_SAFE" /\ signal.sequence.escalationDetected -> "ESCALATED"
    [] OTHER -> IF signal.action \in {"BLOCK", "DOWNGRADE"} THEN "TRIGGERED" ELSE "OPERATING"

generateFinding(signal, id) ==
  [findingId       |-> id,
   evidenceHandle  |-> signal.evidenceHandle,
   findingSeverity |-> deriveFindingSeverity(signal),
   evidenceLevel   |-> evidenceLevel(signal),
   controlStatus   |-> deriveControlStatus(signal),
   detectionLayer  |-> signal.layer,
   isoControls     |-> ISO42001_CONTROL_MAP[signal.layer]]

\* The counter of finding ids runs on from report to report; here from 1.
generateFindings(signals) == [i \in DOMAIN signals |-> generateFinding(signals[i], i)]

-----------------------------------------------------------------------------
(***************************************************************************)
(* Sequence reports and the posture of a tenant                            *)
(***************************************************************************)

\* In the order of the keys of postureDistribution.
Postures == <<"HEALTHY", "UNDER_PRESSURE", "CONTAINED", "UNSTABLE">>

derivePosture(sequence) ==
  CASE sequence.patternType = "STABLE" -> "HEALTHY"
    [] sequence.patternType = "DEGRADING" ->
         IF sequence.escalationDetected THEN "UNDER_PRESSURE" ELSE "HEALTHY"
    [] sequence.patternType = "CONTAINED" -> "CONTAINED"
    [] sequence.patternType = "VOLATILE" -> "UNSTABLE"

buildSequenceReport(sequence, findings) ==
  [sequenceId  |-> sequence.sequenceId,
   posture     |-> derivePosture(sequence),
   findings    |-> findings,
   isoEvidence |-> UNION {f.isoControls : f \in ToSet(findings)}]

Distribution(reports) ==
  [p \in ToSet(Postures) |-> Cardinality({i \in DOMAIN reports : reports[i].posture = p})]

\* The earlier of two postures that are equally frequent.
DominantPosture(distribution) ==
  FoldLeft(LAMBDA a, b : IF distribution[a] >= distribution[b] THEN a ELSE b,
           Head(Postures), Tail(Postures))

CountSeverity(findings, severity) ==
  Len(Filter(findings, {f \in ToSet(findings) : f.findingSeverity = severity}))

summarizeTenantPosture(reports) ==
  LET findings == FlattenSeq([i \in DOMAIN reports |-> reports[i].findings])
  IN  [totalSequences      |-> Len(reports),
       totalFindings       |-> Len(findings),
       highSeverityCount   |-> CountSeverity(findings, "HIGH"),
       criticalCount       |-> CountSeverity(findings, "CRITICAL"),
       postureDistribution |-> Distribution(reports),
       dominantPosture     |-> DominantPosture(Distribution(reports))]

-----------------------------------------------------------------------------
(***************************************************************************)
(* ISO 42001 evidence                                                      *)
(***************************************************************************)

\* Two findings for the control.  Their handles are not compared.
Evidenced(findings) == Len(findings) >= 2

\* A record for each control that some finding speaks of; all have a description.
buildControlEvidencePackage(findings) ==
  {LET related == Filter(findings, {f \in ToSet(findings) : control \in f.isoControls})
   IN  [controlId       |-> control,
        status          |-> IF Evidenced(related) THEN "EVIDENCED" ELSE "PARTIAL",
        evidenceHandles |-> {f.evidenceHandle : f \in ToSet(related)},
        findingIds      |-> {f.findingId : f \in ToSet(related)}] :
     control \in UNION {f.isoControls : f \in ToSet(findings)}}

WithStatus(records, status) == Cardinality({r \in records : r.status = status})

\* A partial record counts a half; the percentage is rounded half up.
CoveragePercent(records) ==
  LET halves == 2 * WithStatus(records, "EVIDENCED") + WithStatus(records, "PARTIAL")
  IN  IF records = {} THEN 0
      ELSE (100 * halves + Cardinality(records)) \div (2 * Cardinality(records))

buildCoverageReport(findings) ==
  LET records == buildControlEvidencePackage(findings)
  IN  [totalControls   |-> Cardinality(records),
       evidenced       |-> WithStatus(records, "EVIDENCED"),
       partial         |-> WithStatus(records, "PARTIAL"),
       coveragePercent |-> CoveragePercent(records),
       records         |-> records,
       auditReadiness  |-> IF CoveragePercent(records) >= 70 THEN "READY"
                           ELSE IF CoveragePercent(records) >= 40 THEN "PARTIAL"
                           ELSE "NOT_READY"]

-----------------------------------------------------------------------------
(***************************************************************************)
(* Latencies: the thresholds are Urielle's own, whatever the policy says   *)
(***************************************************************************)

MTTD_SLA_US ==
  [l \in EGS!Layers |-> CASE l = "gate" -> 50000 [] l = "premise" -> 200000
                          [] l = "authority" -> 100000 [] l = "continuity" -> 500000]

MTTD_BASELINE_P99_US ==
  [l \in EGS!Layers |-> IF l \in {"gate", "authority"} THEN 30 ELSE 50]

slaBreached(layer, mttdUs) == mttdUs > MTTD_SLA_US[layer]

\* More than ten percent above the baseline.
regressionFlag(layer, mttdUs) == 10 * mttdUs > 11 * MTTD_BASELINE_P99_US[layer]

\* The worst category of the layer's samples.
LayerCategory(signals, layer) ==
  LET samples == {s.mttdUs : s \in {s \in ToSet(signals) : s.layer = layer}}
  IN  CASE \E us \in samples : slaBreached(layer, us) -> "SLA_BREACH"
        [] OTHER -> IF \E us \in samples : regressionFlag(layer, us)
                    THEN "ELEVATED" ELSE "NOMINAL"

buildMttdReport(signals) ==
  [sampleCount    |-> Len(signals),
   byLayer        |-> [l \in EGS!Layers |-> LayerCategory(signals, l)],
   overallHealthy |-> \A l \in EGS!Layers : LayerCategory(signals, l) # "SLA_BREACH"]

-----------------------------------------------------------------------------
(***************************************************************************)
(* The report of a tenant                                                  *)
(***************************************************************************)

\* Mutant: every sequence is given the findings of all.
FindingsOf_All(findings, input) == findings

\* The findings of a sequence are matched by evidence handle.
FindingsOf(findings, input) ==
  Filter(findings, {f \in ToSet(findings) : \E s \in ToSet(input.signals) :
                                               s.evidenceHandle = f.evidenceHandle})

\* Inputs are records of signals and the sequence they belong to, if any.
buildTenantAuditReport(inputs) ==
  LET signals == FlattenSeq([i \in DOMAIN inputs |-> inputs[i].signals])
      findings == generateFindings(signals)
      sequenced == Filter(inputs, {input \in ToSet(inputs) : input.sequence # EGS!NoSequence})
      reports == [i \in DOMAIN sequenced |->
                    buildSequenceReport(sequenced[i].sequence,
                                        FindingsOf(findings, sequenced[i]))]
  IN  [findings       |-> findings,
       sequences      |-> reports,
       postureSummary |-> summarizeTenantPosture(reports),
       iso42001       |-> buildCoverageReport(findings),
       mttd           |-> buildMttdReport(signals)]

=============================================================================
