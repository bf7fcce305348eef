-------------------------------- MODULE Audit --------------------------------
(***************************************************************************)
(* From the event store to the audit report of a tenant.  Whoever runs     *)
(* Urielle reads, for each workflow, the sequence and then its summary     *)
(* (GET /v1/events/sequence/:id and .../summary, two requests), makes an   *)
(* audit signal of each record, and keeps what Urielle's schema accepts as *)
(* the input of the next report.  Events are stored and evicted between    *)
(* any two of these steps, so the inputs are of different times.           *)
(*                                                                         *)
(* A record's kind is [layer, severity, action, mttdUs].  Only DOWNGRADE   *)
(* and BLOCK leave an event to store (enforcer.ts:103, shell-loop.ts:143). *)
(***************************************************************************)
EXTENDS EventStore

EGS == INSTANCE AuditSignal
U == INSTANCE Urielle

CONSTANT Auditee  \* the tenant that is audited

ASSUME AuditAssumption ==
  /\ Auditee \in Tenants
  /\ \A k \in Kinds : /\ k.layer \in EGS!Layers /\ k.severity \in EGS!Severities
                      /\ k.action \in {"DOWNGRADE", "BLOCK"} /\ k.mttdUs \in Nat

VARIABLES
  fetched,  \* the records read of each workflow, waiting for its summary
  inputs    \* the input of the report for each workflow

auditVars == <<store, outputs, client, fetched, inputs>>

NoInput == [signals |-> <<>>, sequence |-> EGS!NoSequence]

\* Nobody pages through the log here: one client that has asked for nothing stands for all.
AuditInit ==
  /\ store = Empty
  /\ outputs = 0
  /\ client = CHOOSE c \in NewClients : TRUE
  /\ fetched = [w \in Workflows |-> <<>>]
  /\ inputs = [w \in Workflows \cup {NoWorkflow} |-> NoInput]

\* The signals of records that share a summary, as EGS makes them.
Signals(records, sequence) ==
  [i \in DOMAIN records |-> EGS!fromEventRecord(records[i], sequence)]

FetchRecords(w) ==
  /\ getSequence(store, Auditee, w) # <<>>
  /\ fetched' = [fetched EXCEPT ![w] = getSequence(store, Auditee, w)]
  /\ UNCHANGED <<store, outputs, client, inputs>>

\* The signals that EGS lets out, and those of them that Urielle takes in.
LetOut(signals) == Filter(signals, {s \in ToSet(signals) : EGS!Parses(s)})

TakenIn(signals) ==
  LET flat == [i \in DOMAIN signals |-> U!Flattened(signals[i])]
  IN  Filter(flat, {s \in ToSet(flat) : U!Accepts(s)})

InputOf(records, sequence) ==
  LET signals == TakenIn(LetOut(Signals(records, sequence)))
  IN  IF signals = <<>> THEN NoInput ELSE [signals |-> signals, sequence |-> sequence]

\* The summary arrives, of the sequence as it is by now.
FetchSummary(w) ==
  /\ fetched[w] # <<>>
  /\ getSequence(store, Auditee, w) # <<>>
  /\ inputs' = [inputs EXCEPT ![w] =
                  InputOf(fetched[w],
                          EGS!summarizeSequence(getSequence(store, Auditee, w)))]
  /\ fetched' = [fetched EXCEPT ![w] = <<>>]
  /\ UNCHANGED <<store, outputs, client>>

MaxPage == 100  \* the most records that one GET /v1/events returns

\* Events without a workflow come from GET /v1/events, which has no filter for them, and
\* have no sequence layer.  One request reads the log as it is at one moment as long
\* as a page holds it; a longer log, read over several requests, is left to EventStore.
FetchOthers ==
  LET others == Filter(store.logs[Auditee], {r \in EventRecord : r.workflow = NoWorkflow})
  IN  /\ Len(store.logs[Auditee]) <= MaxPage
      /\ others # <<>>
      /\ inputs' = [inputs EXCEPT ![NoWorkflow].signals =
                      [i \in DOMAIN others |->
                         U!Flattened(EGS!fromEventRecord(others[i], EGS!NoSequence))]]
      /\ UNCHANGED <<store, outputs, client, fetched>>

AuditNext ==
  \/ Store /\ UNCHANGED <<fetched, inputs>>
  \/ \E w \in Workflows : FetchRecords(w) \/ FetchSummary(w)
  \/ FetchOthers

AuditSpec == AuditInit /\ [][AuditNext]_auditVars

-----------------------------------------------------------------------------
(***************************************************************************)
(* Properties                                                              *)
(***************************************************************************)

\* The report that would be built now, in some order of the inputs.
Report ==
  U!buildTenantAuditReport(
    SetToSeq({inputs[w] : w \in DOMAIN inputs} \ {NoInput}))

Summary(w) == EGS!summarizeSequence(getSequence(store, Auditee, w))

Active == {w \in Workflows : getSequence(store, Auditee, w) # <<>>}

\* A sequence is CONTAINED exactly if at some place a block followed a downgrade,
\* and otherwise UNKNOWN: with the events the server stores no other pattern of
\* event-store.ts:112 occurs, and the score never falls below the 80 that EGS asks of
\* strong evidence, however long the sequence is.
ClassifiedMeansEscalated ==
  \A w \in Active :
    LET chain == Summary(w).actionChain
        escalated == \E i, j \in DOMAIN chain :
                       i < j /\ chain[i] = "DOWNGRADE" /\ chain[j] = "BLOCK"
    IN  /\ Summary(w).patternType = IF escalated THEN "CONTAINED" ELSE "UNKNOWN"
        /\ Summary(w).consistencyScore >= 80

LevelRank == [l \in EGS!EvidenceLevels |-> CASE l = "WEAK" -> 0 [] l = "MODERATE" -> 1
                                             [] l = "STRONG" -> 2]

\* EGS and Urielle grade the evidence by two functions written apart
\* (audit-signal.ts:347, audit-signal-consumer.ts:72): Urielle never claims more than
\* EGS does, and the two agree on what is strong, for every record and the summary
\* its sequence has by now.
UrielleClaimsNoMore ==
  \A w \in Active : \A i \in DOMAIN getSequence(store, Auditee, w) :
    LET signal == Signals(getSequence(store, Auditee, w), Summary(w))[i]
        urielle == U!evidenceLevel(U!Flattened(signal))
    IN  /\ LevelRank[urielle] <= LevelRank[EGS!evidenceLevel(signal)]
        /\ urielle = "STRONG" <=> EGS!evidenceLevel(signal) = "STRONG"

\* What Urielle was told of a sequence stays true of it until its first event is
\* evicted: the chain only grows, and no escalation is taken back.
ChainsOnlyGrow ==
  \A w \in Workflows :
    LET told == inputs[w].sequence
    IN  (/\ told # EGS!NoSequence
         /\ \E r \in ToSet(store.logs[Auditee]) : r.id = told.firstDetectedAt)
        => /\ told.firstDetectedAt = Summary(w).firstDetectedAt
           /\ IsPrefix(told.actionChain, Summary(w).actionChain)
           /\ told.escalationDetected => Summary(w).escalationDetected

\* A report counts each event once, though its inputs were read at different times:
\* findings and handles are as many, those in the posture summary are those of the
\* sequences, and a control is evidenced only by two different events.
ReportCountsEventsOnce ==
  LET report == Report
      handles == {f.evidenceHandle : f \in ToSet(report.findings)}
      sequenced == {s.evidenceHandle :
                      s \in UNION {ToSet(inputs[w].signals) : w \in Workflows}}
  IN  /\ Len(report.findings) = Cardinality(handles)
      /\ report.postureSummary.totalFindings = Cardinality(sequenced)
      /\ report.mttd.sampleCount = Cardinality(handles)
      /\ \A r \in report.iso42001.records :
           r.status = "EVIDENCED" => Cardinality(r.evidenceHandles) >= 2

-----------------------------------------------------------------------------
(***************************************************************************)
(* What a comment says and the code does not keep to                       *)
(***************************************************************************)

\* audit-signal-consumer.ts:20 "ADR-006: AuditSignal schema (mirrors
\* audit-signal/src/audit-signal.ts)": every signal EGS's schema lets out is let in.
SchemasMirror ==
  \A w \in Active : \A signal \in ToSet(Signals(getSequence(store, Auditee, w), Summary(w))) :
    EGS!Parses(signal) => U!Accepts(U!Flattened(signal))

=============================================================================
