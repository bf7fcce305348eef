--------------------------- MODULE MCDetectorSets ---------------------------
(* Two tenants: one added rule repeats a default pattern more mildly, one is  *)
(* critical and new; a premise that expires and one that does not; runs of    *)
(* the test template that are stable, stable with a critical failure,         *)
(* provisional and unstable; two policies that agree on none of them.         *)
EXTENDS DetectorSets, TLC

MCRules == {Gate!Rule("warning", "req", "TAMPERED_PAYLOAD"), Gate!Rule("critical", "flow", "NEW_FLAG")}

MCGateInputs ==
  [flags : {{}, {"TAMPERED_PAYLOAD"}, {"NEW_FLAG"}, {"SLOW_CLIENT", "RATE_EXCEEDED"}},
   allowed : BOOLEAN]

MCTerms == {[id |-> "p", expiryMs |-> 1], [id |-> "q", expiryMs |-> 0]}

MCWeights == [id \in {"p", "q"} |-> IF id = "p" THEN "critical" ELSE "standard"]

MCClaims == {<<"p", "unknown", "q", "q">>}

Failed(critical, standard, informational) ==
  [c \in Continuity!Criticalities |->
     CASE c = "critical" -> critical [] c = "standard" -> standard
       [] c = "informational" -> informational]

MCFailures == {Failed(0, 0, 0), Failed(1, 0, 0), Failed(1, 2, 0), Failed(3, 5, 4)}

MCThresholds == {[stable |-> 80, provisional |-> 60], [stable |-> 90, provisional |-> 75]}

Permuted == Permutations(Tenants)

=============================================================================
