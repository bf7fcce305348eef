---------------------------- MODULE GateDetector ----------------------------
(***************************************************************************)
(* The gate detector of phase 3 (detection/src/gate/gate-detector.ts):     *)
(* rules matched against the flags of an input.  Operators only; the array *)
(* of rules a detector holds is state of DetectorSets.tla.                 *)
(*                                                                         *)
(* A rule is [pattern, priority, scope], an input [flags, allowed] where   *)
(* allowed is FALSE if the source is missing from a list of allowed ones.  *)
(***************************************************************************)
LOCAL INSTANCE Integers
LOCAL INSTANCE Sequences

GateRule ==
  [pattern : STRING, priority : {"critical", "warning", "info"}, scope : {"req", "flow", "sys"}]

GateDetectionInput == [flags : SUBSET STRING, allowed : BOOLEAN]

Rule(priority, scope, pattern) ==
  [pattern |-> pattern, priority |-> priority, scope |-> scope]

DEFAULT_GATE_RULES ==
  [i \in 1..5 |-> Rule("critical", "sys",
     <<"INJECTION_PATTERN", "SIGNATURE_INVALID", "KNOWN_BAD_SOURCE", "REPLAY_ATTACK",
       "TAMPERED_PAYLOAD">>[i])]
  \o <<Rule("warning", "req", "RATE_EXCEEDED"),
       Rule("warning", "req", "UNRECOGNIZED_SOURCE"),
       Rule("warning", "req", "GEO_MISMATCH"),
       Rule("warning", "flow", "SCHEMA_VIOLATION"),
       Rule("warning", "req", "OVERSIZED_PAYLOAD"),
       Rule("info", "req", "DEPRECATED_ENDPOINT"),
       Rule("info", "req", "SLOW_CLIENT")>>

AugmentedFlags(input) ==
  input.flags \cup IF input.allowed THEN {} ELSE {"UNRECOGNIZED_SOURCE"}

\* The rules that match; info ones never do.
MatchedRules(rules, input) ==
  {r \in {rules[i] : i \in DOMAIN rules} :
     r.pattern \in AugmentedFlags(input) /\ r.priority # "info"}

\* Mutant: the warnings are looked for first.
Priority_WarningFirst(matched) ==
  IF \E r \in matched : r.priority = "warning" THEN "warning" ELSE "critical"

\* Of the dominant rule: a critical one if there is any.
Priority(matched) ==
  IF \E r \in matched : r.priority = "critical" THEN "critical" ELSE "warning"

widerScope(scopes) ==
  CASE "sys" \in scopes -> "sys"
    [] OTHER -> IF "flow" \in scopes THEN "flow" ELSE "req"

detect(rules, input) ==
  LET matched == MatchedRules(rules, input)
      triggered == matched # {}
  IN  [triggered |-> triggered,
       severity  |-> IF ~triggered THEN "low"
                     ELSE IF Priority(matched) = "critical" THEN "high" ELSE "med",
       scope     |-> widerScope({r.scope : r \in matched})]

=============================================================================
