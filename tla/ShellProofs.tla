---------------------------- MODULE ShellProofs ----------------------------
(***************************************************************************)
(* Theorems about one shell, for all policies and all requests.  The       *)
(* inductive invariant says that the first output of a call is what        *)
(* Decide makes of its request, and that only the fail-safe output may     *)
(* follow; the lemmas say that each layer, then the aggregate severity,    *)
(* then the action and the authority are monotone in the request.          *)
(***************************************************************************)
EXTENDS Shell, TLAPS

\* The aggregate severity of a request under a policy.
Sev(req, p) == Severity(Triggered(req, p))

-----------------------------------------------------------------------------
(***************************************************************************)
(* The layers                                                              *)
(***************************************************************************)

\* A layer's result in r is outweighed by the same layer's result in q.
Outweighs(y, x) ==
  x.triggered => y.triggered /\ (x.severity = "high" => y.severity = "high")
                 /\ (x.severity = "med" => y.severity \in {"med", "high"})

\* More flags never make the gate milder.
LEMMA GateMonotone ==
  ASSUME NEW f, NEW g, f \subseteq g
  PROVE  Outweighs(detectGate(g), detectGate(f))
BY DEF Outweighs, detectGate

\* More unvalidated premises never make the premise layer milder.
LEMMA PremiseMonotone ==
  ASSUME NEW c \in Nat, NEW u \in Nat, NEW v \in Nat, u <= v
  PROVE  Outweighs(detectPremise(c, v), detectPremise(c, u))
<1>1. u > 0 => v > 0
  OBVIOUS
<1>2. PremiseSeverity(c, u) = "high" => PremiseSeverity(c, v) = "high"
  BY DEF PremiseSeverity
<1>3. PremiseSeverity(c, u) = "med" => PremiseSeverity(c, v) \in {"med", "high"}
  BY DEF PremiseSeverity
<1> QED  BY <1>1, <1>2, <1>3, Zenon DEF Outweighs, detectPremise

\* A higher claim, a lower grant or an override never make the authority layer
\* milder.
LEMMA AuthorityMonotone ==
  ASSUME NEW a \in {"decision-ready", "reference-only"},
         NEW b \in {"decision-ready", "reference-only"},
         NEW g \in Authorities, NEW h \in Authorities,
         NEW o \in BOOLEAN, NEW w \in BOOLEAN,
         a = "decision-ready" => b = "decision-ready",
         AuthorityRank[h] <= AuthorityRank[g],
         o => w
  PROVE  Outweighs(detectAuthority(b, h, w), detectAuthority(a, g, o))
BY DEF Outweighs, detectAuthority, AuthorityRank, Authorities

\* More failed tests or a lower score never make the continuity layer milder.
LEMMA ContinuityMonotone ==
  ASSUME NEW x \in Update, NEW y \in Update, NEW s \in Nat,
         y.total = x.total, y.failed >= x.failed, y.score <= x.score
  PROVE  Outweighs(detectContinuity(y, s), detectContinuity(x, s))
<1>1. /\ x.total \in Nat /\ x.failed \in Nat /\ x.score \in Int
      /\ y.failed \in Nat /\ y.score \in Int
  BY DEF Update
<1>2. (x.score < s \/ 10 * x.failed > x.total) => (y.score < s \/ 10 * y.failed > y.total)
  BY <1>1
<1>3. ContinuitySeverity(x) = "high" => ContinuitySeverity(y) = "high"
  BY <1>1 DEF ContinuitySeverity
<1>4. ContinuitySeverity(x) = "med" => ContinuitySeverity(y) \in {"med", "high"}
  BY <1>1 DEF ContinuitySeverity
<1> QED  BY <1>2, <1>3, <1>4, Zenon DEF Outweighs, detectContinuity

-----------------------------------------------------------------------------
(***************************************************************************)
(* The aggregate                                                           *)
(***************************************************************************)

\* Every triggered layer of r is outweighed by a triggered layer of q.
LEMMA LayersMonotone ==
  ASSUME NEW p \in Policy, NEW q \in Request, NEW r \in Request, AtLeastAsBad(q, r),
         NEW x \in Triggered(r, p)
  PROVE  \E y \in Triggered(q, p) : Outweighs(y, x)
<1>1. x \in LayerResults(r, p) /\ x.triggered
  BY DEF Triggered
<1>2. /\ r.claimed \in Nat /\ r.unvalidated \in Nat /\ q.unvalidated \in Nat
      /\ r.requested \in {"decision-ready", "reference-only"}
      /\ q.requested \in {"decision-ready", "reference-only"}
      /\ r.granted \in Authorities /\ q.granted \in Authorities
      /\ r.override \in BOOLEAN /\ q.override \in BOOLEAN
      /\ r.update \in Update \cup {NoUpdate} /\ q.update \in Update \cup {NoUpdate}
      /\ p.stable \in Nat
  BY DEF Request, Policy
<1> SUFFICES \E y \in LayerResults(q, p) : Outweighs(y, x)
  BY <1>1 DEF Triggered, Outweighs
<1>3. CASE x = detectGate(r.flags)
  BY <1>3, GateMonotone DEF AtLeastAsBad, LayerResults
<1>4. CASE x = detectPremise(r.claimed, r.unvalidated)
  <2>1. q.claimed = r.claimed /\ r.unvalidated <= q.unvalidated
    BY <1>2 DEF AtLeastAsBad
  <2> QED  BY <1>2, <1>4, <2>1, PremiseMonotone DEF LayerResults
<1>5. CASE x = detectAuthority(r.requested, r.granted, r.override)
  <2>1. Outweighs(detectAuthority(q.requested, q.granted, q.override), x)
    BY <1>2, <1>5, AuthorityMonotone DEF AtLeastAsBad
  <2> QED  BY <2>1 DEF LayerResults
<1>6. CASE r.update # NoUpdate /\ x = detectContinuity(r.update, p.stable)
  <2>1. Outweighs(detectContinuity(q.update, p.stable), x)
    BY <1>2, <1>6, ContinuityMonotone DEF AtLeastAsBad
  <2>2. q.update # NoUpdate
    BY <1>6 DEF AtLeastAsBad
  <2> QED  BY <2>1, <2>2 DEF LayerResults
<1> QED  BY <1>1, <1>3, <1>4, <1>5, <1>6 DEF LayerResults

\* The aggregate severity is one of the three.
LEMMA SeverityType ==
  ASSUME NEW S
  PROVE  Severity(S) \in Severities
BY DEF Severity, Severities

\* Worse grounds never lower the aggregate severity.
LEMMA SeverityMonotone ==
  ASSUME NEW p \in Policy, NEW q \in Request, NEW r \in Request, AtLeastAsBad(q, r)
  PROVE  SEVERITY_RANK[Sev(r, p)] <= SEVERITY_RANK[Sev(q, p)]
<1>1. \A x \in Triggered(r, p) : \E y \in Triggered(q, p) : Outweighs(y, x)
  BY LayersMonotone
<1>2. \A x \in Triggered(r, p) : x.triggered
  BY DEF Triggered
<1>3. Sev(r, p) = "high" => Sev(q, p) = "high"
  BY <1>1, <1>2 DEF Sev, Severity, Outweighs
<1>4. Sev(r, p) = "med" => Sev(q, p) \in {"med", "high"}
  BY <1>1, <1>2 DEF Sev, Severity, Outweighs
<1>5. Sev(r, p) \in Severities /\ Sev(q, p) \in Severities
  BY SeverityType DEF Sev
<1> QED  BY <1>3, <1>4, <1>5 DEF SEVERITY_RANK, Severities

\* A worse severity never gets a milder action.
LEMMA ActionMonotone ==
  ASSUME NEW p \in Policy, NEW s \in Severities, NEW t \in Severities,
         SEVERITY_RANK[s] <= SEVERITY_RANK[t]
  PROVE  ActionRank[resolveAction(s, p)] <= ActionRank[resolveAction(t, p)]
<1>1. p.govLevel \in GovLevels
  BY DEF Policy
<1> QED  BY <1>1 DEF resolveAction, GovLevels, ActionRank, Actions, SEVERITY_RANK, Severities

\* The authority of the verdict on a severity, for a judgment that triggered or not.
Granted(triggered, s, p) ==
  AuthorityForAction(resolveAction(s, p),
                     scoreToOutputAuthority(AuthorityScore(triggered, s), p))

\* Nor does it get more authority, if no PASS is invalid.
LEMMA AuthorityShrinks ==
  ASSUME NEW p \in Policy, p.limited < p.available,
         \A u \in Severities : resolveAction(u, p) = "PASS" =>
           scoreToOutputAuthority(AuthorityScore(TRUE, u), p) # "invalid",
         NEW s \in Severities, NEW t \in Severities,
         SEVERITY_RANK[s] <= SEVERITY_RANK[t],
         NEW a \in BOOLEAN, NEW b \in BOOLEAN, a => b
  PROVE  AuthorityRank[Granted(b, t, p)] <= AuthorityRank[Granted(a, s, p)]
<1>1. p.govLevel \in GovLevels /\ p.limited \in Nat /\ p.available \in Nat
  BY DEF Policy
<1> DEFINE A(x, u) == scoreToOutputAuthority(AuthorityScore(x, u), p)
<1>2. /\ A(a, s) \in Authorities /\ A(b, t) \in Authorities
      /\ AuthorityRank[A(b, t)] <= AuthorityRank[A(a, s)]
  BY <1>1 DEF scoreToOutputAuthority, AuthorityScore, AuthorityRank, Authorities,
              Severities, SEVERITY_RANK
<1>3. A(TRUE, s) # "invalid" => A(a, s) \in {"reference-only", "decision-ready"}
  BY <1>1 DEF scoreToOutputAuthority, AuthorityScore, Severities
<1>4. resolveAction(s, p) = "PASS" => A(a, s) \in {"reference-only", "decision-ready"}
  BY <1>3
<1>5. /\ resolveAction(s, p) \in {"PASS", "DOWNGRADE", "BLOCK"}
      /\ resolveAction(t, p) \in {"PASS", "DOWNGRADE", "BLOCK"}
      /\ ActionRank[resolveAction(s, p)] <= ActionRank[resolveAction(t, p)]
  BY <1>1, ActionMonotone DEF resolveAction, GovLevels, Severities
<1> HIDE DEF A
<1>6. /\ resolveAction(s, p) = "DOWNGRADE" => resolveAction(t, p) \in {"DOWNGRADE", "BLOCK"}
      /\ resolveAction(s, p) = "BLOCK" => resolveAction(t, p) = "BLOCK"
  BY <1>5 DEF ActionRank, Actions
<1>7. AuthorityRank[AuthorityForAction(resolveAction(t, p), A(b, t))]
        <= AuthorityRank[AuthorityForAction(resolveAction(s, p), A(a, s))]
  BY <1>2, <1>4, <1>5, <1>6 DEF AuthorityForAction, AuthorityRank, Authorities
<1> QED  BY <1>7 DEF Granted, A

-----------------------------------------------------------------------------
(***************************************************************************)
(* The output                                                              *)
(***************************************************************************)

\* The output decided on a request has the action of its aggregate severity.
LEMMA DecidedAction ==
  ASSUME NEW req, NEW p
  PROVE  /\ Decide(req, p).verdict.action = resolveAction(Sev(req, p), p)
         /\ Decide(req, p).verdict.authority = Granted(Triggered(req, p) # {}, Sev(req, p), p)
BY DEF Decide, enforce, judge, Sev, Granted

\* resolveAction never fails safe, and a high severity never passes.
LEMMA ActionType ==
  ASSUME NEW p \in Policy, NEW s \in Severities
  PROVE  /\ resolveAction(s, p) \in {"PASS", "DOWNGRADE", "BLOCK"}
         /\ s = "high" => resolveAction(s, p) # "PASS"
<1>1. p.govLevel \in GovLevels
  BY DEF Policy
<1> QED  BY <1>1 DEF resolveAction, GovLevels, Severities

\* What a call leaves behind.
CallInv ==
  /\ policy \in Policies /\ validatePolicyConsistency(policy)
  /\ emitted # <<>> => request \in Requests
  /\ \/ emitted = <<>>
     \/ emitted = <<Decide(request, policy)>> /\ returned = emitted
     \/ /\ emitted = <<Decide(request, policy), FailSafe>>
        /\ returned \in {<<>>, <<FailSafe>>}

LEMMA CallInvInit == Init => CallInv
BY DEF Init, CallInv

LEMMA CallInvNext == CallInv /\ [Next]_vars => CallInv'
<1> SUFFICES ASSUME CallInv, [Next]_vars PROVE CallInv'
  OBVIOUS
<1>1. CASE Start
  BY <1>1 DEF Start, CallInv
<1>2. CASE Stop
  BY <1>2 DEF Stop, CallInv
<1>3. ASSUME NEW req \in Requests, Process(req) PROVE CallInv'
  <2>1. request' = req /\ policy' = policy
    BY <1>3 DEF Process
  <2>2. CASE Refuse(req)
    BY <2>1, <2>2 DEF Refuse, CallInv
  <2>3. ASSUME NEW listener \in Listeners, Enforce(Decide(req, policy), listener)
        PROVE  CallInv'
    BY <2>1, <2>3 DEF Enforce, Caught, CallInv
  <2> QED  BY <1>3, <2>2, <2>3 DEF Process
<1>4. CASE UNCHANGED vars
  BY <1>4 DEF vars, CallInv
<1> QED  BY <1>1, <1>2, <1>3, <1>4 DEF Next

LEMMA CallInvAlways == Spec => []CallInv
BY CallInvInit, CallInvNext, PTL DEF Spec

\* No policy and no combination of layers lets a high severity pass.
THEOREM NothingHighPasses == Spec => []HighNeverPasses
<1>1. CallInv => HighNeverPasses
  <2> SUFFICES ASSUME CallInv, NEW r \in Hits, r.severity = "high",
                      NEW i \in DOMAIN emitted
               PROVE  emitted[i].verdict.action # "PASS"
    BY DEF HighNeverPasses
  <2>1. policy \in Policy
    BY ShellAssumption DEF CallInv
  <2>2. Sev(request, policy) = "high"
    BY DEF Hits, Sev, Severity
  <2>3. Decide(request, policy).verdict.action # "PASS"
    BY <2>1, <2>2, DecidedAction, ActionType DEF Severities
  <2>4. FailSafe.verdict.action # "PASS"
    BY DEF FailSafe, failSafeVerdict
  <2>5. emitted[i] \in {Decide(request, policy), FailSafe}
    BY DEF CallInv
  <2> QED  BY <2>3, <2>4, <2>5
<1> QED  BY <1>1, CallInvAlways, PTL

\* The output served is the last one announced, and the strictest.
THEOREM ServedIsAnnounced == Spec => []ServedAsAnnounced
<1>1. CallInv => ServedAsAnnounced
  <2> SUFFICES ASSUME CallInv, returned # <<>>, emitted # <<>>
               PROVE  /\ returned[1] = emitted[Len(emitted)]
                      /\ \A i \in DOMAIN emitted :
                           ActionRank[emitted[i].verdict.action]
                             <= ActionRank[returned[1].verdict.action]
    BY DEF ServedAsAnnounced
  <2> DEFINE D == Decide(request, policy)
  <2>1. D.verdict.action \in {"PASS", "DOWNGRADE", "BLOCK"}
    BY DecidedAction, ActionType, SeverityType, ShellAssumption DEF CallInv, Sev
  <2>2. FailSafe.verdict.action = "FAIL_SAFE"
    BY DEF FailSafe, failSafeVerdict
  <2> HIDE DEF D
  <2>3. CASE emitted = <<D>> /\ returned = emitted
    BY <2>1, <2>3 DEF ActionRank, Actions
  <2>4. CASE emitted = <<D, FailSafe>> /\ returned = <<FailSafe>>
    BY <2>1, <2>2, <2>4 DEF ActionRank, Actions
  <2> QED  BY <2>3, <2>4 DEF CallInv, D
<1> QED  BY <1>1, CallInvAlways, PTL

\* Two calls whose outputs were decided, one after the other.
LEMMA Successive ==
  ASSUME CallInv, CallInv', [Next]_vars, Decided, Decided', AtLeastAsBad(request', request)
  PROVE  /\ policy' = policy /\ policy \in Policy
         /\ request \in Request /\ request' \in Request
         /\ emitted[1] = Decide(request, policy) /\ emitted'[1] = Decide(request', policy)
         /\ SEVERITY_RANK[Sev(request, policy)] <= SEVERITY_RANK[Sev(request', policy)]
         /\ Triggered(request, policy) # {} => Triggered(request', policy) # {}
<1>1. policy' = policy
  BY DEF Next, Start, Stop, Process, vars
<1>2. policy \in Policy /\ request \in Request /\ request' \in Request
  BY ShellAssumption DEF CallInv, Decided
<1>3. emitted[1] = Decide(request, policy) /\ emitted'[1] = Decide(request', policy)
  BY <1>1 DEF CallInv, Decided
<1>4. SEVERITY_RANK[Sev(request, policy)] <= SEVERITY_RANK[Sev(request', policy)]
  BY <1>2, SeverityMonotone
<1>5. Triggered(request, policy) # {} => Triggered(request', policy) # {}
  BY <1>2, LayersMonotone
<1> QED  BY <1>1, <1>2, <1>3, <1>4, <1>5

\* Worse grounds never earn a more lenient verdict, for every policy.
THEOREM WorseIsNeverMoreLenient == Spec => WorseIsNotMoreLenient
<1>1. CallInv /\ CallInv' /\ [Next]_vars =>
        ((Decided /\ Decided' /\ AtLeastAsBad(request', request)) =>
           ActionRank[emitted[1].verdict.action] <= ActionRank[emitted'[1].verdict.action])
  <2> SUFFICES ASSUME CallInv, CallInv', [Next]_vars, Decided, Decided',
                      AtLeastAsBad(request', request)
               PROVE  ActionRank[emitted[1].verdict.action]
                        <= ActionRank[emitted'[1].verdict.action]
    OBVIOUS
  <2>1. /\ policy \in Policy
        /\ emitted[1] = Decide(request, policy) /\ emitted'[1] = Decide(request', policy)
        /\ SEVERITY_RANK[Sev(request, policy)] <= SEVERITY_RANK[Sev(request', policy)]
    BY Successive
  <2>2. Sev(request, policy) \in Severities /\ Sev(request', policy) \in Severities
    BY SeverityType DEF Sev
  <2>3. /\ emitted[1].verdict.action = resolveAction(Sev(request, policy), policy)
        /\ emitted'[1].verdict.action = resolveAction(Sev(request', policy), policy)
    BY <2>1, DecidedAction
  <2> QED  BY <2>1, <2>2, <2>3, ActionMonotone
<1> QED  BY <1>1, CallInvAlways, PTL DEF Spec, WorseIsNotMoreLenient

\* Nor more authority, for every policy under which a PASS cannot be invalid: those that
\* never pass, as the two strict built-in ones do, and those whose PASSes are usable.
THEOREM WorseNeverHasMoreAuthority == Spec => WorseHasNoMoreAuthority
<1>1. CallInv /\ CallInv' /\ [Next]_vars =>
        ((Decided /\ Decided' /\ AtLeastAsBad(request', request) /\ PassesAreUsable) =>
           AuthorityRank[emitted'[1].verdict.authority]
             <= AuthorityRank[emitted[1].verdict.authority])
  <2> SUFFICES ASSUME CallInv, CallInv', [Next]_vars, Decided, Decided',
                      AtLeastAsBad(request', request), PassesAreUsable
               PROVE  AuthorityRank[emitted'[1].verdict.authority]
                        <= AuthorityRank[emitted[1].verdict.authority]
    OBVIOUS
  <2> DEFINE a == Triggered(request, policy) # {}
             b == Triggered(request', policy) # {}
  <2>1. /\ policy \in Policy
        /\ emitted[1] = Decide(request, policy) /\ emitted'[1] = Decide(request', policy)
        /\ SEVERITY_RANK[Sev(request, policy)] <= SEVERITY_RANK[Sev(request', policy)]
        /\ a => b
    BY Successive
  <2>2. Sev(request, policy) \in Severities /\ Sev(request', policy) \in Severities
    BY SeverityType DEF Sev
  <2>3. /\ emitted[1].verdict.authority = Granted(a, Sev(request, policy), policy)
        /\ emitted'[1].verdict.authority = Granted(b, Sev(request', policy), policy)
    BY <2>1, DecidedAction
  <2>4. /\ policy.limited < policy.available
        /\ \A u \in Severities : resolveAction(u, policy) = "PASS" =>
             scoreToOutputAuthority(AuthorityScore(TRUE, u), policy) # "invalid"
    BY <2>1 DEF PassesAreUsable, CallInv, validatePolicyConsistency, Policy
  <2>5. a \in BOOLEAN /\ b \in BOOLEAN
    OBVIOUS
  <2> HIDE DEF a, b
  <2> QED  BY <2>1, <2>2, <2>3, <2>4, <2>5, AuthorityShrinks
<1> QED  BY <1>1, CallInvAlways, PTL DEF Spec, WorseHasNoMoreAuthority

-----------------------------------------------------------------------------
(***************************************************************************)
(* The dominant layer                                                      *)
(***************************************************************************)

\* The results of the layers have their types.
LEMMA HitTypes ==
  ASSUME NEW req, NEW p, NEW r \in Triggered(req, p)
  PROVE  r.layer \in Layers /\ r.severity \in Severities /\ r.scope \in Scopes
<1>1. r \in LayerResults(req, p)
  BY DEF Triggered
<1>2. CASE r = detectGate(req.flags)
  BY <1>2 DEF detectGate, Layers, Severities, Scopes
<1>3. CASE r = detectPremise(req.claimed, req.unvalidated)
  BY <1>3 DEF detectPremise, PremiseSeverity, Layers, Severities, Scopes
<1>4. CASE r = detectAuthority(req.requested, req.granted, req.override)
  BY <1>4 DEF detectAuthority, Layers, Severities, Scopes
<1>5. CASE r = detectContinuity(req.update, p.stable)
  BY <1>5 DEF detectContinuity, ContinuitySeverity, Layers, Severities, Scopes
<1> QED  BY <1>1, <1>2, <1>3, <1>4, <1>5 DEF LayerResults

\* The reduce has a result: some result dominates all, the earliest of the worst.
LEMMA DominantExists ==
  ASSUME NEW S, S # {}, \A r \in S : r.layer \in Layers /\ r.severity \in Severities
  PROVE  Dominant(S) \in S /\ \A other \in S : Dominates(Dominant(S), other)
<1>1. PICK w \in Severities :
        /\ \E r \in S : r.severity = w
        /\ \A r \in S : SEVERITY_RANK[r.severity] <= SEVERITY_RANK[w]
  <2>1. CASE \E r \in S : r.severity = "high"
    BY <2>1 DEF Severities, SEVERITY_RANK
  <2>2. CASE (~\E r \in S : r.severity = "high") /\ \E r \in S : r.severity = "med"
    BY <2>2 DEF Severities, SEVERITY_RANK
  <2>3. CASE \A r \in S : r.severity = "low"
    BY <2>3 DEF Severities, SEVERITY_RANK
  <2> QED  BY <2>1, <2>2, <2>3 DEF Severities
<1> DEFINE Worst == {r \in S : r.severity = w}
<1>2. PICK r \in Worst : \A other \in Worst : Position[r.layer] <= Position[other.layer]
  <2>1. \A q \in Worst : q.layer \in Layers
    OBVIOUS
  <2>2. Worst # {}
    BY <1>1
  <2> HIDE DEF Worst
  <2>3. CASE \E q \in Worst : q.layer = "gate"
    BY <2>1, <2>3 DEF Layers, Position
  <2>4. CASE (~\E q \in Worst : q.layer = "gate") /\ \E q \in Worst : q.layer = "premise"
    BY <2>1, <2>4 DEF Layers, Position
  <2>5. CASE /\ \A q \in Worst : q.layer \in {"authority", "continuity"}
             /\ \E q \in Worst : q.layer = "authority"
    BY <2>1, <2>5 DEF Layers, Position
  <2>6. CASE \A q \in Worst : q.layer = "continuity"
    BY <2>2, <2>6 DEF Layers, Position
  <2> QED  BY <2>1, <2>3, <2>4, <2>5, <2>6 DEF Layers
<1>3. \A other \in S : Dominates(r, other)
  <2> SUFFICES ASSUME NEW other \in S PROVE Dominates(r, other)
    OBVIOUS
  <2>1. CASE other.severity = w
    BY <1>2, <2>1 DEF Dominates
  <2>2. CASE other.severity # w
    BY <1>1, <1>2, <2>2 DEF Dominates, Severities, SEVERITY_RANK
  <2> QED  BY <2>1, <2>2
<1> QED  BY <1>2, <1>3 DEF Dominant

\* What judge says of a request on which some layer triggered.
LEMMA JudgedByDominant ==
  ASSUME NEW req, NEW p, Triggered(req, p) # {}
  PROVE  \E r \in Triggered(req, p) :
           /\ judge(req, p).layer = r.layer
           /\ r.layer \in Layers
           /\ \A other \in Triggered(req, p) :
                /\ SEVERITY_RANK[other.severity] <= SEVERITY_RANK[r.severity]
                /\ other.severity = r.severity => Position[other.layer] >= Position[r.layer]
<1> DEFINE S == Triggered(req, p)
           r == Dominant(S)
<1>1. \A q \in S : q.layer \in Layers /\ q.severity \in Severities
  BY HitTypes
<1>2. r \in S /\ \A other \in S : Dominates(r, other)
  BY <1>1, DominantExists
<1>3. judge(req, p).layer = r.layer
  BY DEF judge
<1> HIDE DEF r
<1>4. ASSUME NEW other \in S
      PROVE  /\ SEVERITY_RANK[other.severity] <= SEVERITY_RANK[r.severity]
             /\ other.severity = r.severity => Position[other.layer] >= Position[r.layer]
  <2>1. other.severity \in Severities /\ r.severity \in Severities
    BY <1>1, <1>2
  <2>2. other.layer \in Layers /\ r.layer \in Layers
    BY <1>1, <1>2
  <2> QED  BY <1>2, <2>1, <2>2 DEF Dominates, Severities, SEVERITY_RANK, Layers, Position
<1> QED  BY <1>1, <1>2, <1>3, <1>4

\* An event names the layer that triggered with the worst severity, the first of several,
\* and the verdict is routed to the queue of that layer, for every policy and request.
THEOREM EventIsOfWorstLayer == Spec => []EventNamesWorstLayer
<1>1. CallInv => EventNamesWorstLayer
  <2> SUFFICES ASSUME CallInv, NEW i \in DOMAIN emitted,
                      emitted[i].event # NoEvent, Hits # {}
               PROVE  /\ emitted[i].verdict.routing = computeRouting(emitted[i].event.layer)
                      /\ \E r \in Hits :
                           /\ r.layer = emitted[i].event.layer
                           /\ \A other \in Hits :
                                /\ SEVERITY_RANK[other.severity] <= SEVERITY_RANK[r.severity]
                                /\ other.severity = r.severity =>
                                     Position[other.layer] >= Position[r.layer]
    BY DEF EventNamesWorstLayer
  <2> DEFINE j == judge(request, policy)
  <2>1. emitted[i] = Decide(request, policy)
    <3>1. emitted[i] \in {Decide(request, policy), FailSafe}
      BY DEF CallInv
    <3>2. FailSafe.event = NoEvent
      BY DEF FailSafe
    <3> QED  BY <3>1, <3>2
  <2>2. /\ enforce(j, policy).action # "PASS"
        /\ emitted[i].event = BuildGovEvent(j)
        /\ emitted[i].verdict = enforce(j, policy)
    BY <2>1 DEF Decide
  <2>3. emitted[i].verdict.routing = computeRouting(emitted[i].event.layer)
    BY <2>2 DEF enforce
  <2>4. PICK r \in Hits :
          /\ j.layer = r.layer
          /\ r.layer \in Layers
          /\ \A other \in Hits :
               /\ SEVERITY_RANK[other.severity] <= SEVERITY_RANK[r.severity]
               /\ other.severity = r.severity => Position[other.layer] >= Position[r.layer]
    BY JudgedByDominant DEF Hits
  <2>5. emitted[i].event.layer = r.layer
    BY <2>2, <2>4 DEF BuildGovEvent, Layers
  <2> QED  BY <2>3, <2>4, <2>5
<1> QED  BY <1>1, CallInvAlways, PTL

-----------------------------------------------------------------------------
(***************************************************************************)
(* The metrics                                                             *)
(***************************************************************************)

\* The metrics in the order of the scores: nominal, low, med, high.
LEMMA MetricsTable ==
  /\ computeContainmentMetrics(88) =
       [rawExposurePct |-> 22, governedOutputPct |-> 9, coreIsolationPct |-> 89,
        contextDriftPressurePct |-> 7, latencyOverheadMs |-> 162]
  /\ computeContainmentMetrics(74) =
       [rawExposurePct |-> 48, governedOutputPct |-> 20, coreIsolationPct |-> 76,
        contextDriftPressurePct |-> 16, latencyOverheadMs |-> 211]
  /\ computeContainmentMetrics(61) =
       [rawExposurePct |-> 71, governedOutputPct |-> 30, coreIsolationPct |-> 64,
        contextDriftPressurePct |-> 23, latencyOverheadMs |-> 257]
  /\ computeContainmentMetrics(29) =
       [rawExposurePct |-> 100, governedOutputPct |-> 54, coreIsolationPct |-> 35,
        contextDriftPressurePct |-> 43, latencyOverheadMs |-> 369]
BY DEF computeContainmentMetrics, clamp

\* The integrity score of a judgment that triggered or not, and what it decides.
Score(req, p) == IntegrityScore(Triggered(req, p) # {}, Sev(req, p))

LEMMA ScoreType ==
  ASSUME NEW req, NEW p
  PROVE  Score(req, p) \in {88, 74, 61, 29}
<1>1. Sev(req, p) \in Severities
  BY SeverityType DEF Sev
<1>2. (Triggered(req, p) # {}) \in BOOLEAN
  OBVIOUS
<1> QED  BY <1>1, <1>2 DEF Score, IntegrityScore, Severities

LEMMA DecidedMetrics ==
  ASSUME NEW req, NEW p
  PROVE  Decide(req, p).state.metrics = computeContainmentMetrics(Score(req, p))
BY DEF Decide, BuildGovState, judge, Score, Sev

\* A request that is at least as bad never has a higher score.
LEMMA ScoreShrinks ==
  ASSUME NEW a \in BOOLEAN, NEW b \in BOOLEAN, a => b,
         NEW s \in Severities, NEW t \in Severities,
         SEVERITY_RANK[s] <= SEVERITY_RANK[t]
  PROVE  IntegrityScore(b, t) <= IntegrityScore(a, s)
BY DEF IntegrityScore, Severities, SEVERITY_RANK

\* The metrics worsen with the score: more is exposed and not governed.
LEMMA MetricsMonotone ==
  ASSUME NEW x \in {88, 74, 61, 29}, NEW y \in {88, 74, 61, 29}, y <= x
  PROVE  LET before == computeContainmentMetrics(x)
             after == computeContainmentMetrics(y)
         IN  /\ after.rawExposurePct >= before.rawExposurePct
             /\ after.contextDriftPressurePct >= before.contextDriftPressurePct
             /\ after.latencyOverheadMs >= before.latencyOverheadMs
             /\ after.coreIsolationPct <= before.coreIsolationPct
             /\ after.rawExposurePct - after.governedOutputPct
                  >= before.rawExposurePct - before.governedOutputPct
             /\ after.governedOutputPct <= after.rawExposurePct
<1>1. CASE y = 88
  BY <1>1, MetricsTable
<1>2. CASE y = 74
  BY <1>2, MetricsTable
<1>3. CASE y = 61
  BY <1>3, MetricsTable
<1>4. CASE y = 29
  BY <1>4, MetricsTable
<1> QED  BY <1>1, <1>2, <1>3, <1>4

\* Worse grounds never look better, for every policy: the metrics depend on the integrity
\* score alone, which is one of four values and does not rise.
THEOREM WorseNeverLooksBetter == Spec => WorseLooksNoBetter
<1> DEFINE NoBetter ==
       LET before == emitted[1].state.metrics
           after == emitted'[1].state.metrics
       IN  /\ after.rawExposurePct >= before.rawExposurePct
           /\ after.contextDriftPressurePct >= before.contextDriftPressurePct
           /\ after.latencyOverheadMs >= before.latencyOverheadMs
           /\ after.coreIsolationPct <= before.coreIsolationPct
           /\ after.rawExposurePct - after.governedOutputPct
                >= before.rawExposurePct - before.governedOutputPct
           /\ after.governedOutputPct <= after.rawExposurePct
<1>1. CallInv /\ CallInv' /\ [Next]_vars =>
        ((Decided /\ Decided' /\ AtLeastAsBad(request', request)) => NoBetter)
  <2> SUFFICES ASSUME CallInv, CallInv', [Next]_vars, Decided, Decided',
                      AtLeastAsBad(request', request)
               PROVE  NoBetter
    OBVIOUS
  <2> DEFINE x == Score(request, policy)
             y == Score(request', policy)
  <2>1. /\ emitted[1] = Decide(request, policy) /\ emitted'[1] = Decide(request', policy)
        /\ SEVERITY_RANK[Sev(request, policy)] <= SEVERITY_RANK[Sev(request', policy)]
        /\ Triggered(request, policy) # {} => Triggered(request', policy) # {}
    BY Successive
  <2>2. Sev(request, policy) \in Severities /\ Sev(request', policy) \in Severities
    BY SeverityType DEF Sev
  <2>3. y <= x
    BY <2>1, <2>2, ScoreShrinks DEF Score
  <2>4. x \in {88, 74, 61, 29} /\ y \in {88, 74, 61, 29}
    BY ScoreType
  <2>5. /\ emitted[1].state.metrics = computeContainmentMetrics(x)
        /\ emitted'[1].state.metrics = computeContainmentMetrics(y)
    BY <2>1, DecidedMetrics
  <2> HIDE DEF x, y
  <2> QED  BY <2>3, <2>4, <2>5, MetricsMonotone
<1> QED  BY <1>1, CallInvAlways, PTL DEF Spec, WorseLooksNoBetter

-----------------------------------------------------------------------------
(***************************************************************************)
(* Types                                                                   *)
(***************************************************************************)

LEMMA MetricsType ==
  ASSUME NEW x \in {88, 74, 61, 29}
  PROVE  computeContainmentMetrics(x) \in
           [rawExposurePct : 0..100, governedOutputPct : 0..100, coreIsolationPct : 0..100,
            contextDriftPressurePct : 0..100, latencyOverheadMs : Nat]
BY MetricsTable

\* Whatever the request, what the Enforcer decides is an output.
LEMMA DecideType ==
  ASSUME NEW req, NEW p \in Policy
  PROVE  Decide(req, p) \in Outputs
<1> DEFINE j == judge(req, p)
           v == enforce(j, p)
<1>1. /\ j.severity = Sev(req, p) /\ j.severity \in Severities
      /\ j.scope \in Scopes /\ j.integrity \in IntegrityLevels
      /\ j.authority \in Authorities
      /\ j.score = Score(req, p)
  BY SeverityType DEF judge, Sev, Score, Scope, Scopes, scoreToIntegrityLevel,
       IntegrityLevels, scoreToOutputAuthority, Authorities
<1>2. j.layer \in Layers \cup {"none"}
  <2>1. CASE Triggered(req, p) = {}
    BY <2>1 DEF judge
  <2>2. CASE Triggered(req, p) # {}
    BY <2>2, JudgedByDominant
  <2> QED  BY <2>1, <2>2
<1>3. BuildGovEvent(j) \in [layer : Layers, severity : Severities, scope : Scopes]
  BY <1>1, <1>2 DEF BuildGovEvent, Layers
<1>4. v.action \in {"PASS", "DOWNGRADE", "BLOCK"}
  BY <1>1, ActionType DEF enforce
<1>5. v \in Verdicts
  <2>1. BuildGovEvent(j).layer \in Layers
    BY <1>3
  <2>2. computeRouting(BuildGovEvent(j).layer) \in RoutingHints
    BY <2>1 DEF computeRouting, Layers, RoutingHints
  <2>3. AuthorityForAction(v.action, j.authority) \in Authorities
    BY <1>1, <1>4 DEF AuthorityForAction, Authorities
  <2> QED  BY <1>1, <1>4, <2>2, <2>3 DEF enforce, Verdicts, Actions
<1>6. BuildGovState(j, v.action, p) \in States
  <2>1. computeContainmentMetrics(j.score) \in
           [rawExposurePct : 0..100, governedOutputPct : 0..100, coreIsolationPct : 0..100,
            contextDriftPressurePct : 0..100, latencyOverheadMs : Nat]
    BY <1>1, ScoreType, MetricsType
  <2>2. scoreToContinuityState(85, p) \in {"STABLE", "PROVISIONAL", "UNSTABLE"}
    BY DEF scoreToContinuityState
  <2> HIDE DEF j, v
  <2> QED  BY <1>1, <1>2, <1>4, <2>1, <2>2 DEF BuildGovState, States
<1>7. Decide(req, p) = [verdict |-> v,
                        event |-> IF v.action = "PASS" THEN NoEvent ELSE BuildGovEvent(j),
                        state |-> BuildGovState(j, v.action, p)]
  BY DEF Decide
<1> HIDE DEF j, v
<1> QED  BY <1>3, <1>5, <1>6, <1>7 DEF Outputs, Events

LEMMA FailSafeType == FailSafe \in Outputs
BY DEF FailSafe, failSafeVerdict, BuildFailSafeState, Outputs, Verdicts, Events, States,
       Actions, Authorities, IntegrityLevels

\* Type correctness: the loop's outputs, verdicts, events, states and metrics are
\* within their ranges, for every policy and request of the right type.
THEOREM ShellTypeCorrect == Spec => []TypeOK
<1>1. Init => TypeOK
  <2> SUFFICES ASSUME Init PROVE TypeOK
    OBVIOUS
  <2>1. policy \in Policies
    BY DEF Init
  <2>2. emitted \in Seq(Outputs) /\ returned \in Seq(Outputs)
    BY DEF Init
  <2>3. lastState \in States \cup {NoState} /\ request \in Requests \cup {NoRequest}
    BY DEF Init
  <2> QED  BY <2>1, <2>2, <2>3 DEF Init, TypeOK
<1>2. TypeOK /\ [Next]_vars => TypeOK'
  <2> SUFFICES ASSUME TypeOK, [Next]_vars PROVE TypeOK'
    OBVIOUS
  <2>1. CASE Start
    BY <2>1 DEF Start, TypeOK
  <2>2. CASE Stop
    BY <2>2 DEF Stop, TypeOK
  <2>3. ASSUME NEW req \in Requests, Process(req) PROVE TypeOK'
    <3>1. /\ request' \in Requests \cup {NoRequest}
          /\ policy' \in Policies /\ running' \in BOOLEAN
      BY <2>3 DEF Process, TypeOK
    <3>2. CASE Refuse(req)
      BY <3>1, <3>2, FailSafeType DEF Refuse, TypeOK
    <3>3. ASSUME NEW listener \in Listeners, Enforce(Decide(req, policy), listener)
          PROVE  TypeOK'
      <4> DEFINE D == Decide(req, policy)
      <4>1. D \in Outputs
        BY DecideType, ShellAssumption DEF TypeOK
      <4>2. D.state \in States
        BY <4>1 DEF Outputs
      <4> HIDE DEF D
      <4>3. lastState' = D.state
        BY <3>3 DEF Enforce, D
      <4>4. emitted' \in {<<D>>, <<D, FailSafe>>} /\ returned' \in {<<D>>, <<FailSafe>>, <<>>}
        BY <3>3 DEF Enforce, Caught, D
      <4>5. /\ <<D>> \in Seq(Outputs) /\ <<FailSafe>> \in Seq(Outputs)
            /\ <<D, FailSafe>> \in Seq(Outputs) /\ <<>> \in Seq(Outputs)
        BY <4>1, FailSafeType
      <4>6. emitted' \in Seq(Outputs) /\ returned' \in Seq(Outputs)
        BY <4>4, <4>5, Zenon
      <4> QED  BY <3>1, <4>2, <4>3, <4>6 DEF TypeOK
    <3> QED  BY <2>3, <3>2, <3>3 DEF Process
  <2>4. CASE UNCHANGED vars
    BY <2>4 DEF vars, TypeOK
  <2> QED  BY <2>1, <2>2, <2>3, <2>4 DEF Next
<1> QED  BY <1>1, <1>2, PTL DEF Spec

=============================================================================
