----------------------------- MODULE AuditSignal -----------------------------
(***************************************************************************)
(* The evidence EGS gives away: the summary of a workflow's sequence of    *)
(* events (summarizeSequence in api/src/store/event-store.ts) and the      *)
(* audit signal made of a stored record and, if there is one, the summary  *)
(* of its sequence (audit-signal/src/audit-signal.ts).  Operators only.    *)
(*                                                                         *)
(* A record is one of EventStore.tla whose kind is [layer, severity,       *)
(* action, mttdUs]; latencies are in microseconds.  Times are the ids of   *)
(* the records stored at them.  Field by field, parse() is the membership  *)
(* in a set; fields that are copied and never looked at are left out.      *)
(***************************************************************************)
EXTENDS Integers, Sequences, FiniteSetsExt

Layers == {"gate", "premise", "authority", "continuity"}
Severities == {"low", "med", "high"}
Actions == {"PASS", "DOWNGRADE", "BLOCK", "FAIL_SAFE"}
Patterns == {"STABLE", "DEGRADING", "CONTAINED", "VOLATILE", "UNKNOWN"}

ACTION_RANK ==
  [a \in Actions |-> CASE a = "PASS" -> 0 [] a = "DOWNGRADE" -> 1
                       [] a = "BLOCK" -> 2 [] a = "FAIL_SAFE" -> 3]

-----------------------------------------------------------------------------
(***************************************************************************)
(* summarizeSequence                                                       *)
(***************************************************************************)

Ranks(records) == [i \in DOMAIN records |-> ACTION_RANK[records[i].kind.action]]

\* Mutant: a later action of the same rank counts as an escalation too.
EscalationDetected_NotStrict(ranks) ==
  \E i \in DOMAIN ranks : i > 1 /\ ranks[i] >= ranks[i - 1]

\* Mutant: only the last two actions are compared.
EscalationDetected_Latest(ranks) ==
  Len(ranks) > 1 /\ ranks[Len(ranks)] > ranks[Len(ranks) - 1]

EscalationDetected(ranks) == \E i \in DOMAIN ranks : i > 1 /\ ranks[i] > ranks[i - 1]

Total(numbers) == MapThenSumSet(LAMBDA i : numbers[i], DOMAIN numbers)

\* The variance of the ranks times the square of their number, a whole number.
Spread(ranks) ==
  Len(ranks) * Total([i \in DOMAIN ranks |-> ranks[i] * ranks[i]])
    - Total(ranks) * Total(ranks)

\* Mutant: a hundred points are taken off for each unit of variance.
ConsistencyScore_Steeper(ranks) ==
  LET square == Len(ranks) * Len(ranks)
  IN  Max({0, (2 * (100 * square - 100 * Spread(ranks)) + square) \div (2 * square)})

\* 100 - 25 * variance, rounded half up, and not below zero.
ConsistencyScore(ranks) ==
  LET square == Len(ranks) * Len(ranks)
  IN  Max({0, (2 * (100 * square - 25 * Spread(ranks)) + square) \div (2 * square)})

PatternType(ranks) ==
  CASE \A i \in DOMAIN ranks : ranks[i] = ACTION_RANK["PASS"] -> "STABLE"
    [] EscalationDetected(ranks) ->
         IF \E i \in DOMAIN ranks : ranks[i] >= ACTION_RANK["BLOCK"]
         THEN "CONTAINED" ELSE "DEGRADING"
    [] OTHER -> IF Spread(ranks) > Len(ranks) * Len(ranks) THEN "VOLATILE" ELSE "UNKNOWN"

\* The summary of a sequence that is not empty.
summarizeSequence(records) ==
  [sequenceId         |-> Head(records).workflow,
   patternType        |-> PatternType(Ranks(records)),
   escalationDetected |-> EscalationDetected(Ranks(records)),
   consistencyScore   |-> ConsistencyScore(Ranks(records)),
   eventCount         |-> Len(records),
   firstDetectedAt    |-> Head(records).id,
   actionChain        |-> [i \in DOMAIN records |-> records[i].kind.action],
   layersInvolved     |-> {records[i].kind.layer : i \in DOMAIN records}]

-----------------------------------------------------------------------------
(***************************************************************************)
(* The signal and its schema                                               *)
(***************************************************************************)

\* A signal without the sequence layer.
NoSequence == [patternType |-> "none", escalationDetected |-> FALSE, consistencyScore |-> 0]

AuditSignalCore(core) ==
  /\ core.sequenceNumber \in Nat \ {0}
  /\ core.layer \in Layers /\ core.severity \in Severities /\ core.action \in Actions
  /\ core.mttdUs \in Nat

AuditSignalSequence(sequence) ==
  /\ sequence.patternType \in Patterns
  /\ sequence.escalationDetected \in BOOLEAN
  /\ sequence.consistencyScore \in 0 .. 100
  /\ sequence.eventCount \in Nat \ {0}
  /\ \A i \in DOMAIN sequence.actionChain : sequence.actionChain[i] \in Actions
  /\ sequence.layersInvolved \subseteq Layers

\* AuditSignalSchema.parse() does not throw.
Parses(signal) ==
  /\ AuditSignalCore(signal.core)
  /\ signal.sequence = NoSequence \/ AuditSignalSequence(signal.sequence)

fromEventRecord(record, sequence) ==
  [core     |-> [evidenceHandle |-> record.handle,
                 sequenceNumber |-> record.number,
                 layer          |-> record.kind.layer,
                 severity       |-> record.kind.severity,
                 action         |-> record.kind.action,
                 mttdUs         |-> record.kind.mttdUs],
   sequence |-> sequence]

EvidenceLevels == {"WEAK", "MODERATE", "STRONG"}

\* EGS's own level of the evidence in a signal.
evidenceLevel(signal) ==
  CASE /\ signal.core.severity = "high" /\ signal.core.action = "BLOCK"
       /\ signal.sequence.escalationDetected
       /\ signal.sequence.consistencyScore >= 80 -> "STRONG"
    [] OTHER ->
         IF \/ signal.core.severity = "high"
            \/ signal.core.action = "BLOCK"
            \/ signal.sequence.patternType = "CONTAINED"
         THEN "MODERATE" ELSE "WEAK"

=============================================================================
