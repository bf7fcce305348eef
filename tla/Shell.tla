------------------------------- MODULE Shell -------------------------------
(***************************************************************************)
(* One ShellLoop instance (shell-loop.ts): Observer, Judge and Enforcer    *)
(* behind process(), start() and stop().  The Observer runs exactly when   *)
(* the loop does, so `running' stands for both flags.                      *)
(*                                                                         *)
(* process() is synchronous and is one action; what happens within it is   *)
(* kept in `emitted', the outputs that shell:output subscribers were given *)
(* during the last call, and `returned', what its caller got: one output,  *)
(* or none if an exception left process().                                 *)
(***************************************************************************)
EXTENDS Judgment, Sequences

CONSTANTS
  Policies,       \* the policies an instance may be constructed with
  Requests,       \* the requests it is given
  Listeners,      \* what the shell:output listeners do with an output
  ObserverFaults  \* whether a request:observed listener may throw

ListenerBehaviours == {"fine", "throws once", "throws always"}

ASSUME ShellAssumption ==
  /\ Policies \subseteq Policy
  /\ Requests \subseteq Request
  /\ Listeners \subseteq ListenerBehaviours
  /\ ObserverFaults \in BOOLEAN

VARIABLES
  policy,     \* this.policy
  running,    \* this.running
  lastState,  \* the Enforcer's lastState, or NoState
  request,    \* the request of the last call of process(), or NoRequest
  emitted,    \* the outputs that call emitted, in order
  returned    \* <<output>>, or <<>> if it threw

vars == <<policy, running, lastState, request, emitted, returned>>

Verdicts ==
  [action : Actions, authority : Authorities, integrity : IntegrityLevels,
   routing : RoutingHints \cup {"none"}]

Events == [layer : Layers, severity : Severities, scope : Scopes] \cup {NoEvent}

States ==
  [systemStatus : {"ENFORCING", "ENFORCING (LIMITED)", "ENFORCING (STRICT)", "FAIL_SAFE"},
   operationalMode : {"NORMAL", "LIMITED", "CONTAINMENT"},
   integrity : IntegrityLevels,
   metrics : [rawExposurePct : 0..100, governedOutputPct : 0..100, coreIsolationPct : 0..100,
              contextDriftPressurePct : 0..100, latencyOverheadMs : Nat],
   updateState : {"STABLE", "PROVISIONAL", "UNSTABLE"},
   blockedLayer : Layers \cup {"none"}]

Outputs == [verdict : Verdicts, event : Events, state : States]

NoState == [FailSafe.state EXCEPT !.systemStatus = "none"]

NoRequest ==
  [flags |-> {}, claimed |-> 0, unvalidated |-> 1, requested |-> "reference-only",
   granted |-> "invalid", override |-> FALSE, update |-> NoUpdate]

\* The constructor throws if the policy is inconsistent: there is no instance.
Init ==
  /\ policy \in {p \in Policies : validatePolicyConsistency(p)}
  /\ running = FALSE
  /\ lastState = NoState
  /\ request = NoRequest
  /\ emitted = <<>>
  /\ returned = <<>>

-----------------------------------------------------------------------------

Start ==
  /\ ~running
  /\ running' = TRUE
  /\ UNCHANGED <<policy, lastState, request, emitted, returned>>

Stop ==
  /\ running
  /\ running' = FALSE
  /\ UNCHANGED <<policy, lastState, request, emitted, returned>>

\* process() that gives up before the Judge: the loop is stopped, or tap()
\* returned null.  No output is emitted.
Refuse(req) ==
  /\ ~running \/ ObserverFaults
  /\ emitted' = <<>>
  /\ returned' = <<FailSafe>>
  /\ UNCHANGED lastState

\* Mutant: the caller gets the output that could not be delivered.
Caught_Undelivered(output) == output

\* What enforce() returns of an output whose emission threw.
Caught(output) == FailSafe

\* enforce(): the state is stored before the output is emitted.  A listener that
\* throws lands in the catch, which emits again; nothing catches a second throw.
Enforce(output, listener) ==
  /\ lastState' = output.state
  /\ \/ /\ listener = "fine"
        /\ emitted' = <<output>>
        /\ returned' = <<output>>
     \/ /\ listener = "throws once"
        /\ emitted' = <<output, FailSafe>>
        /\ returned' = <<Caught(output)>>
     \/ /\ listener = "throws always"
        /\ emitted' = <<output, FailSafe>>
        /\ returned' = <<>>

Process(req) ==
  /\ request' = req
  /\ \/ Refuse(req)
     \/ /\ running
        /\ \E listener \in Listeners : Enforce(Decide(req, policy), listener)
  /\ UNCHANGED <<policy, running>>

Next == Start \/ Stop \/ \E req \in Requests : Process(req)

Spec == Init /\ [][Next]_vars

-----------------------------------------------------------------------------
(***************************************************************************)
(* Properties                                                              *)
(***************************************************************************)

\* The types of the variables.
TypeOK ==
  /\ policy \in Policies
  /\ running \in BOOLEAN
  /\ lastState \in States \cup {NoState}
  /\ request \in Requests \cup {NoRequest}
  /\ emitted \in Seq(Outputs)
  /\ returned \in Seq(Outputs)

\* The layers that triggered on the last request.
Hits == Triggered(request, policy)

\* Whatever the policy and whichever layers triggered, no subscriber and no caller
\* sees a PASS for a request on which some layer triggered with severity high,
\* though the aggregate, not that layer, decides and two profiles rarely block.
HighNeverPasses ==
  (\E r \in Hits : r.severity = "high") =>
    \A i \in DOMAIN emitted : emitted[i].verdict.action # "PASS"

\* What is served is never more lenient than what was announced: the output that
\* process() returns is the last one it emitted, and no emitted one is stricter,
\* also when a listener threw in between.
ServedAsAnnounced ==
  (returned # <<>> /\ emitted # <<>>) =>
    /\ returned[1] = emitted[Len(emitted)]
    /\ \A i \in DOMAIN emitted :
         ActionRank[emitted[i].verdict.action] <= ActionRank[returned[1].verdict.action]

\* An event names the layer that triggered with the worst severity, of several such
\* layers the one that runs first, and the verdict is routed to the queue of that layer:
\* continuity, which runs last, never wins a tie (judge.ts:174 says that it does).
EventNamesWorstLayer ==
  \A i \in DOMAIN emitted :
    (emitted[i].event # NoEvent /\ Hits # {}) =>
      /\ emitted[i].verdict.routing = computeRouting(emitted[i].event.layer)
      /\ \E r \in Hits :
           /\ r.layer = emitted[i].event.layer
           /\ \A other \in Hits :
                /\ SEVERITY_RANK[other.severity] <= SEVERITY_RANK[r.severity]
                /\ other.severity = r.severity => Position[other.layer] >= Position[r.layer]

\* Two successive calls whose outputs the Enforcer decided: the first emission.
Decided == emitted # <<>>

\* Worse grounds never earn a more lenient verdict: not one more flag, failed test
\* or unvalidated premise, nor a lower grant or score, through the four layers,
\* the aggregate and the profile.
WorseIsNotMoreLenient ==
  [][(Decided /\ Decided' /\ AtLeastAsBad(request', request)) =>
       ActionRank[emitted[1].verdict.action] <= ActionRank[emitted'[1].verdict.action]]_vars

\* Nor do they look better: the metrics shown with a state are five formulas over a score
\* from a table, rounded and clamped apart.  Exposure, drift pressure and latency are not
\* shown lower and isolation is not shown higher; governedOutputPct is a share of the
\* exposure and rises with it, but what it leaves exposed is not shown to shrink, and
\* it is never more than what was exposed.
WorseLooksNoBetter ==
  [][(Decided /\ Decided' /\ AtLeastAsBad(request', request)) =>
       LET before == emitted[1].state.metrics
           after == emitted'[1].state.metrics
       IN  /\ after.rawExposurePct >= before.rawExposurePct
           /\ after.contextDriftPressurePct >= before.contextDriftPressurePct
           /\ after.latencyOverheadMs >= before.latencyOverheadMs
           /\ after.coreIsolationPct <= before.coreIsolationPct
           /\ after.rawExposurePct - after.governedOutputPct
                >= before.rawExposurePct - before.governedOutputPct
           /\ after.governedOutputPct <= after.rawExposurePct]_vars

\* A PASS cannot carry the authority `invalid' under this policy: it passes no severity,
\* or the scores of those it passes reach its threshold `limited'.
PassesAreUsable ==
  \A s \in Severities :
    resolveAction(s, policy) = "PASS" =>
      scoreToOutputAuthority(AuthorityScore(TRUE, s), policy) # "invalid"

\* Nor more authority, if the policy lets no PASS be invalid: a DOWNGRADE is
\* always reference-only, which is more than an invalid PASS.
WorseHasNoMoreAuthority ==
  [][(Decided /\ Decided' /\ AtLeastAsBad(request', request) /\ PassesAreUsable) =>
       AuthorityRank[emitted'[1].verdict.authority]
         <= AuthorityRank[emitted[1].verdict.authority]]_vars

=============================================================================
