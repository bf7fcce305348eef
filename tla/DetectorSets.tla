---------------------------- MODULE DetectorSets ----------------------------
(***************************************************************************)
(* The detectors of the tenants (api/src/detectors/tenant-registry.ts and  *)
(* detection/src): a set of four for each tenant, made when it is first    *)
(* asked for and made anew when the tenant's policy changes, and the       *)
(* callers that carry state from call to call themselves: what a request   *)
(* was last granted, and the change window of an update.  The HTTP server  *)
(* only creates and resets the sets; the calls of the detectors are those  *)
(* their interface allows, as detection/tests/detection.test.ts makes      *)
(* them.  Every tenant has one request, one update, and several workflows. *)
(***************************************************************************)
EXTENDS Integers, Sequences, SequencesExt

Gate == INSTANCE GateDetector
Premise == INSTANCE PremiseDetector
Authority == INSTANCE AuthorityDetector
Continuity == INSTANCE ContinuityDetector

CONSTANTS
  Tenants, Workflows,
  Rules,        \* rules that tenants add
  GateInputs,   \* the inputs of the gate the properties look at
  Terms,        \* the premises there are and when they expire: [id, expiryMs]
  Weights,      \* the weights of the premises that are defined
  Claims,       \* sequences of premise ids that are claimed together
  Grants,       \* the authorities policies grant
  Failures,     \* how many tests of each criticality fail
  Thresholds,   \* [stable, provisional] of policies
  MaxCalls,     \* bound: the calls that change a detector or its caller
  MaxTime       \* bound on the clock

ASSUME DetectorSetsAssumption ==
  /\ Rules \subseteq Gate!GateRule
  /\ GateInputs \subseteq Gate!GateDetectionInput
  /\ Weights \in [DOMAIN Weights -> Premise!PremiseWeight]
  /\ \A claimed \in Claims, p \in Terms :
       [claimed |-> claimed, weights |-> Weights, contract |-> TRUE,
        presented |-> <<[id |-> p.id, expiryMs |-> p.expiryMs, validatedAt |-> 0]>>]
         \in Premise!PremiseDetectionInput(Weights)
  /\ Grants \subseteq Authority!Authorities
  /\ \A failed \in Failures, p \in Thresholds, w \in Continuity!WindowStates :
       /\ [tests |-> Continuity!Template(failed), stable |-> p.stable,
           provisional |-> p.provisional, window |-> w] \in Continuity!ContinuityDetectionInput
       /\ p.provisional <= p.stable
  /\ MaxCalls \in Nat /\ MaxTime \in Nat

VARIABLES
  shared,   \* the array DEFAULT_GATE_RULES, which is one for the whole program
  sets,     \* the set of detectors of each tenant, or NoSet
  granted,  \* what the request of each tenant was granted, from the first decision
  window,   \* the change window of each tenant's update, as its caller carries it
  added,    \* the rules a tenant added to its present set
  tested,   \* the states of each tenant's update, from the first run of its tests
  calls, now

vars == <<shared, sets, granted, window, added, tested, calls, now>>

NoSet == [gate |-> "none"]

\* Mutant: the detector is handed the array of defaults itself (the default of its
\* constructor's parameter).
NewGate_Shared == "shared"

\* Which array of rules a new gate detector holds: a copy of its own.
NewGate == "own"

NewSet ==
  [gate      |-> NewGate,
   rules     |-> shared,
   premises  |-> [w \in Workflows |-> Premise!NoPremises],
   auditLog  |-> <<>>,
   lastScore |-> Continuity!NoScore]

\* TenantDetectorRegistry.get()
SetOf(t) == IF sets[t] = NoSet THEN NewSet ELSE sets[t]

RulesOf(t) == IF SetOf(t).gate = "own" THEN SetOf(t).rules ELSE shared

Init ==
  /\ shared = Gate!DEFAULT_GATE_RULES
  /\ sets = [t \in Tenants |-> NoSet]
  /\ granted = [t \in Tenants |-> <<>>]
  /\ window = [t \in Tenants |-> "OPEN"]
  /\ added = [t \in Tenants |-> <<>>]
  /\ tested = [t \in Tenants |-> <<>>]
  /\ calls = 0
  /\ now = 0

Call == calls < MaxCalls /\ calls' = calls + 1

\* TenantDetectorRegistry.reset(), on policy:changed.
Reset(t) ==
  /\ sets[t] # NoSet
  /\ sets' = [sets EXCEPT ![t] = NewSet]
  /\ added' = [added EXCEPT ![t] = <<>>]
  /\ UNCHANGED <<shared, granted, window, tested, calls, now>>

AddRule(t, rule) ==
  /\ Call
  /\ IF SetOf(t).gate = "own"
     THEN /\ sets' = [sets EXCEPT ![t] =
                        [SetOf(t) EXCEPT !.rules = Append(SetOf(t).rules, rule)]]
          /\ UNCHANGED shared
     ELSE /\ sets' = [sets EXCEPT ![t] = SetOf(t)]
          /\ shared' = Append(shared, rule)
  /\ added' = [added EXCEPT ![t] = Append(added[t], rule)]
  /\ UNCHANGED <<granted, window, tested, now>>

\* Premises that can be presented: validated at some time, by this program's clock.
Presentable ==
  {[id |-> p.id, expiryMs |-> p.expiryMs, validatedAt |-> at] : p \in Terms, at \in 0 .. now}

DetectPremise(t, w) ==
  \E presented \in SeqOf(Presentable, 2) :
    /\ presented # <<>>
    /\ Call
    /\ sets' = [sets EXCEPT ![t] =
                  [SetOf(t) EXCEPT !.premises[w] =
                     Premise!Registered(SetOf(t).premises[w], presented)]]
    /\ UNCHANGED <<shared, granted, window, added, tested, now>>

\* PremiseRegistry.clear(), when a workflow is done.
ClearPremises(t, w) ==
  /\ sets[t] # NoSet
  /\ sets[t].premises[w] # Premise!NoPremises
  /\ sets' = [sets EXCEPT ![t].premises[w] = Premise!NoPremises]
  /\ UNCHANGED <<shared, granted, window, added, tested, calls, now>>

\* The caller passes on what the request was granted last.
Previous(t) == IF granted[t] = <<>> THEN Authority!NoAuthority ELSE Last(granted[t])

DetectAuthority(t) ==
  \E input \in Authority!AuthorityDetectionInput :
    LET result == Authority!detect(input)
    IN  /\ input.policyGranted \in Grants /\ input.previous = Previous(t)
        /\ Call
        /\ sets' = [sets EXCEPT ![t] =
                      [SetOf(t) EXCEPT !.auditLog = Append(SetOf(t).auditLog, result.auditEntry)]]
        /\ granted' = [granted EXCEPT ![t] = Append(granted[t], result.effectiveAuthority)]
        /\ UNCHANGED <<shared, window, added, tested, now>>

\* The caller passes on the state the window was left in.
DetectContinuity(t) ==
  \E failed \in Failures, thresholds \in Thresholds :
    LET result == Continuity!detect(SetOf(t).lastScore,
                    [tests |-> Continuity!Template(failed), stable |-> thresholds.stable,
                     provisional |-> thresholds.provisional, window |-> window[t]])
    IN  /\ Call
        /\ sets' = [sets EXCEPT ![t] =
                      [SetOf(t) EXCEPT !.lastScore = result.continuityScore]]
        /\ window' = [window EXCEPT ![t] = result.changeWindowState]
        /\ tested' = [tested EXCEPT ![t] = Append(tested[t], result.updateState)]
        /\ UNCHANGED <<shared, granted, added, now>>

Tick ==
  /\ now < MaxTime
  /\ now' = now + 1
  /\ UNCHANGED <<shared, sets, granted, window, added, tested, calls>>

Next ==
  \/ \E t \in Tenants :
       \/ Reset(t)
       \/ \E rule \in Rules : AddRule(t, rule)
       \/ \E w \in Workflows : DetectPremise(t, w) \/ ClearPremises(t, w)
       \/ DetectAuthority(t)
       \/ DetectContinuity(t)
  \/ Tick

Spec == Init /\ [][Next]_vars

-----------------------------------------------------------------------------
(***************************************************************************)
(* Properties                                                              *)
(***************************************************************************)

\* A tenant's gate judges every input by the default rules and those the tenant itself
\* added since its set was made: no rule of another tenant, none from before a reset.
GatesAreIsolated ==
  \A t \in Tenants, input \in GateInputs :
    Gate!detect(RulesOf(t), input)
      = Gate!detect(Gate!DEFAULT_GATE_RULES \o added[t], input)

SeverityRank == [s \in {"low", "med", "high"} |-> CASE s = "low" -> 0 [] s = "med" -> 1
                                                    [] s = "high" -> 2]

ScopeRank == [s \in {"req", "flow", "sys"} |-> CASE s = "req" -> 0 [] s = "flow" -> 1
                                                 [] s = "sys" -> 2]

\* Adding rules never softens the gate: whatever was added, in whatever order and with
\* whatever pattern, an input is judged at least as the default rules judge it.
RulesNeverSoften ==
  \A t \in Tenants, input \in GateInputs :
    LET by == Gate!detect(RulesOf(t), input)
        default == Gate!detect(Gate!DEFAULT_GATE_RULES, input)
    IN  /\ default.triggered => by.triggered
        /\ SeverityRank[by.severity] >= SeverityRank[default.severity]
        /\ ScopeRank[by.scope] >= ScopeRank[default.scope]

\* What the code does with its registry: what was registered before decides nothing.  On
\* every presentation, a premise is legitimate by what is presented now (the last entry
\* of an id, by its own expiry), as if the detector were new: an expired premise neither
\* lingers nor is held against its renewal, and no workflow, reset or clear() matters.
\* This is not what the comments there say: claims are validated "against the registry"
\* (premise-detector.ts:142) and what is presented is accepted "also" (161).  The look-up
\* of what is registered (registeredIds, 155-159) is computed and never used, and a
\* premise registered earlier, still valid and not presented again, is not accepted.
PresentationDecides ==
  \A t \in Tenants, w \in Workflows :
    LET registered == SetOf(t).premises[w]
    IN  registered # Premise!NoPremises =>
          \A presented \in SeqOf(Presentable, 2), claimed \in Claims :
            LET input == [claimed |-> claimed, presented |-> presented, weights |-> Weights,
                          contract |-> TRUE]
            IN  Premise!detect(registered, input, now)
                  = Premise!detect(Premise!NoPremises, input, now)

NonIncreasing(authorities) ==
  \A i, j \in DOMAIN authorities :
    i < j => Authority!AUTHORITY_RANK[authorities[j]] <= Authority!AUTHORITY_RANK[authorities[i]]

\* Along the chain of a request authority is never given back, through changes of
\* policy and resets of the detector between two decisions, and the audit log of the
\* present set holds the newest decisions of that chain.
AuthorityNeverRises ==
  \A t \in Tenants :
    /\ NonIncreasing(granted[t])
    /\ sets[t] # NoSet =>
         IsSuffix([i \in DOMAIN sets[t].auditLog |-> sets[t].auditLog[i].grantedAuthority],
                  granted[t])

\* The state the code gives a change window is what the whole history of its tests says:
\* containment if any run was unstable, closed if none was and a run after the first was
\* stable, and being watched otherwise.  Closed is never watched or open again, and
\* containment is for good.  The diagram of the file says less and otherwise
\* (continuity-detector.ts:21-27): there unstable tests contain only a watched window,
\* not one just opened or already closed, as they do here (235).
WindowFollowsHistory ==
  \A t \in Tenants :
    tested[t] # <<>> =>
      window[t] = IF \E i \in DOMAIN tested[t] : tested[t][i] = "UNSTABLE" THEN "CONTAINMENT"
                  ELSE IF \E i \in DOMAIN tested[t] : i > 1 /\ tested[t][i] = "STABLE"
                  THEN "CLOSED" ELSE "WATCHING"

=============================================================================
