------------------------- MODULE ContinuityDetector -------------------------
(***************************************************************************)
(* The continuity detector of phase 3 (detection/src/continuity): the      *)
(* weighted score of the equivalence tests run on an update, and the state *)
(* machine of its change window.  Operators only; the last score is state  *)
(* of DetectorSets.tla, the window is kept by the caller.                  *)
(*                                                                         *)
(* Tests are counted by criticality: [passed, failed], two functions.  An  *)
(* input is [tests, stable, provisional, window].                          *)
(***************************************************************************)
LOCAL INSTANCE Integers
LOCAL INSTANCE FiniteSetsExt

Criticalities == {"critical", "standard", "informational"}
WindowStates == {"IDLE", "OPEN", "WATCHING", "CLOSED", "CONTAINMENT"}
UpdateStates == {"STABLE", "PROVISIONAL", "UNSTABLE"}
NoScore == -1

EquivalenceTests == [passed : [Criticalities -> Nat], failed : [Criticalities -> Nat]]

ContinuityDetectionInput ==
  [tests : EquivalenceTests, stable : 0 .. 100, provisional : 0 .. 100, window : WindowStates]

\* Twice the weights of the code.
weightMap ==
  [c \in Criticalities |-> CASE c = "critical" -> 6 [] c = "standard" -> 2
                             [] c = "informational" -> 1]

Weighed(counts) == MapThenSumSet(LAMBDA c : weightMap[c] * counts[c], Criticalities)

\* The weight of the tests that passed in percent of all, rounded half up.
computeContinuityScore(tests) ==
  LET passWeight == Weighed(tests.passed)
      totalWeight == passWeight + Weighed(tests.failed)
  IN  IF totalWeight = 0 THEN 100
      ELSE (200 * passWeight + totalWeight) \div (2 * totalWeight)

\* The tests of generateTestTemplate() of which those in failed, by criticality, fail.
Template(failed) ==
  [passed |-> [c \in Criticalities |->
                 (CASE c = "critical" -> 3 [] c = "standard" -> 5
                    [] c = "informational" -> 4) - failed[c]],
   failed |-> failed]

computeUpdateState(score, stable, provisional) ==
  IF score >= stable THEN "STABLE"
  ELSE IF score >= provisional THEN "PROVISIONAL" ELSE "UNSTABLE"

ContinuitySeverity(score, criticalFailures, provisional) ==
  IF criticalFailures > 0 \/ score < provisional THEN "high"
  ELSE IF score < 75 THEN "med" ELSE "low"

\* Mutant: tests that pass close every window but an open one, a contained one too.
computeWindowState_NotSticky(current, updateState) ==
  CASE updateState = "UNSTABLE" -> "CONTAINMENT"
    [] updateState # "UNSTABLE" /\ current = "OPEN" -> "WATCHING"
    [] OTHER -> IF updateState = "STABLE" THEN "CLOSED" ELSE current

\* As coded, not as the header of the file draws it (continuity-detector.ts:21-27): there
\* the tests take OPEN to WATCHING, only WATCHING is breached and CLOSED is final; here
\* (230-238) unstable tests contain a window of any state, OPEN and CLOSED too.
computeWindowState(current, updateState) ==
  CASE updateState = "UNSTABLE" -> "CONTAINMENT"
    [] updateState # "UNSTABLE" /\ current = "OPEN" -> "WATCHING"
    [] OTHER -> IF current = "WATCHING" /\ updateState = "STABLE" THEN "CLOSED" ELSE current

computeTrend(lastScore, score) ==
  IF lastScore = NoScore \/ score - lastScore \in -5 .. 5 THEN "stable"
  ELSE IF score > lastScore THEN "improving" ELSE "degrading"

detect(lastScore, input) ==
  LET score == computeContinuityScore(input.tests)
      updateState == computeUpdateState(score, input.stable, input.provisional)
      criticalFailures == input.tests.failed["critical"]
  IN  [triggered         |-> score < input.stable \/ criticalFailures > 0,
       severity          |-> ContinuitySeverity(score, criticalFailures, input.provisional),
       continuityScore   |-> score,
       updateState       |-> updateState,
       changeWindowState |-> computeWindowState(input.window, updateState),
       scoretrend        |-> computeTrend(lastScore, score)]

=============================================================================
