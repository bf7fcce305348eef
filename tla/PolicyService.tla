--------------------------- MODULE PolicyService ---------------------------
(***************************************************************************)
(* The policies of the tenants (api/src/store/policy-store.ts), their      *)
(* detector sets (api/src/detectors/tenant-registry.ts) with the latency   *)
(* statistics of each layer (detection/src/mttd/tracker.ts), and the       *)
(* handlers of the server that join them (api/src/server.ts).              *)
(*                                                                         *)
(* A detector set is kept as its DetectionRegistry alone: one tracker per  *)
(* layer.  Gate rules, premises, audit log and score history of a set are  *)
(* not used by the server.                                                 *)
(***************************************************************************)
EXTENDS Integers, Sequences, FiniteSets, Functions, TLC

CONSTANTS
  Tenants,
  Layers,
  RawPolicies,   \* what administrators post
  WellFormed,    \* those loadPolicy parses
  Consistent,    \* those validatePolicyConsistency accepts
  DefaultPolicy, \* ENTERPRISE_STRICT_PROFILE
  Sla,           \* mttdSlaMs of each policy
  Users,         \* who administrates
  MaxHistory,    \* MAX_HISTORY (10)
  BufferSize,    \* BUFFER_SIZE (1000)
  Latencies,     \* processing times in ms
  MaxChanges,    \* bound: accepted policies of a tenant
  MaxSamples     \* bound: samples of a tenant

Accepted == WellFormed \cap Consistent

ASSUME PolicyServiceAssumption ==
  /\ WellFormed \subseteq RawPolicies /\ Consistent \subseteq RawPolicies
  /\ DefaultPolicy \in Accepted
  /\ Sla \in [RawPolicies -> [Layers -> Nat]]
  /\ MaxHistory \in Nat
  /\ BufferSize \in Nat \ {0}
  /\ Latencies \subseteq Nat
  /\ MaxChanges \in Nat /\ MaxSamples \in Nat

VARIABLES
  active,    \* the policy of each tenant that has set one
  history,   \* the replaced policies of each tenant, newest first
  detectors, \* the trackers of each tenant that has a detector set
  judgedBy,  \* the policy the last request of each tenant was judged by
  changes,   \* the policies each tenant set, oldest first, and by whom
  samples    \* what was recorded for each tenant under its present policy

vars == <<active, history, detectors, judgedBy, changes, samples>>

Change == [policy : Accepted, activatedBy : Users]

Tracker ==
  [sla : Nat, buffer : Seq(Nat), breachCount : Nat, totalSamples : Nat]

Sample == [layer : Layers, ms : Nat]

Init ==
  /\ active = [t \in {} |-> DefaultPolicy]
  /\ history = [t \in Tenants |-> <<>>]
  /\ detectors = [t \in {} |-> <<>>]
  /\ judgedBy = [t \in Tenants |-> DefaultPolicy]
  /\ changes = [t \in Tenants |-> <<>>]
  /\ samples = [t \in Tenants |-> <<>>]

\* A map with the value of key x set.
Put(map, x, value) ==
  [y \in DOMAIN map \cup {x} |-> IF y = x THEN value ELSE map[y]]

-----------------------------------------------------------------------------
(***************************************************************************)
(* The registry of detector sets                                           *)
(***************************************************************************)

getActive(policies, t) ==
  IF t \in DOMAIN policies THEN policies[t] ELSE DefaultPolicy

NewTrackers(policy) ==
  [l \in Layers |-> [sla |-> Sla[policy][l], buffer |-> <<>>,
                     breachCount |-> 0, totalSamples |-> 0]]

\* The trackers of tenant t: those in the registry or, on first use, new ones.
TrackersOf(t) ==
  IF t \in DOMAIN detectors THEN detectors[t] ELSE NewTrackers(getActive(active, t))

Push(buffer, ms) ==
  Append(IF Len(buffer) >= BufferSize THEN Tail(buffer) ELSE buffer, ms)

SlaMet(tracker, ms) == ms <= tracker.sla

Recorded(tracker, ms) ==
  [sla          |-> tracker.sla,
   buffer       |-> Push(tracker.buffer, ms),
   breachCount  |-> IF SlaMet(tracker, ms) THEN tracker.breachCount
                    ELSE tracker.breachCount + 1,
   totalSamples |-> tracker.totalSamples + 1]

-----------------------------------------------------------------------------
(***************************************************************************)
(* Statistics                                                              *)
(***************************************************************************)

Percentages == {50, 95, 99}

\* Mutant: the rank is rounded down.
Rank_Floor(p, n) == (p * n) \div 100

\* Math.ceil((p / 100) * n), the place of the percentile counted from one.
Rank(p, n) == (p * n + 99) \div 100

\* sort() with a numeric comparison.
Sorted(buffer) ==
  LET place == DOMAIN buffer
      order == CHOOSE p \in Bijection(place, place) :
                 \A i, j \in place : i < j => buffer[p[i]] <= buffer[p[j]]
  IN  [i \in place |-> buffer[order[i]]]

\* The percentile of a buffer that is not empty.
Percentile(buffer, p) ==
  LET n == Len(buffer)
      place == IF Rank(p, n) < 1 THEN 1 ELSE IF Rank(p, n) > n THEN n ELSE Rank(p, n)
  IN  Sorted(buffer)[place]

\* Every layer breached its SLA in less than 5 percent of its samples; without samples
\* the rate is 0.
isSlaHealthy(t) ==
  \A l \in Layers :
    \/ TrackersOf(t)[l].totalSamples = 0
    \/ 20 * TrackersOf(t)[l].breachCount < TrackersOf(t)[l].totalSamples

\* The status GET /v1/mttd answers with.
MttdStatus(t) == IF isSlaHealthy(t) THEN 200 ELSE 207

-----------------------------------------------------------------------------
(***************************************************************************)
(* The handlers                                                            *)
(***************************************************************************)

\* Mutant: the entry goes to the end, and a full history keeps its oldest.
Remembered_AtEnd(entries, entry) ==
  SubSeq(Append(entries, entry), 1,
         IF Len(entries) < MaxHistory THEN Len(entries) + 1 ELSE MaxHistory)

\* unshift(), then pop() if there are too many.
Remembered(entries, entry) ==
  SubSeq(<<entry>> \o entries, 1,
         IF Len(entries) < MaxHistory THEN Len(entries) + 1 ELSE MaxHistory)

\* Mutant: policy:changed is emitted before the policy is activated.
PolicySeen_Early(t) == getActive(active, t)

\* What the policy provider answers when policy:changed makes the registry reset.
PolicySeen(t) == getActive(active', t)

\* Mutant: the set is kept if there is one.
ResetTrackers_Lazy(t) ==
  IF t \in DOMAIN detectors THEN detectors[t] ELSE NewTrackers(PolicySeen(t))

ResetTrackers(t) == NewTrackers(PolicySeen(t))

\* setActive, and POST /v1/policy: a policy that does not parse or that is not
\* consistent changes nothing.  The entry in the history names who replaced the
\* policy.  The listener of policy:changed recreates the tenant's detectors.
SetActive(t, policy, user) ==
  /\ policy \in Accepted
  /\ Len(changes[t]) < MaxChanges
  /\ history' = IF t \in DOMAIN active
                THEN [history EXCEPT ![t] =
                        Remembered(@, [policy |-> active[t], activatedBy |-> user])]
                ELSE history
  /\ active' = Put(active, t, policy)
  /\ detectors' = Put(detectors, t, ResetTrackers(t))
  /\ changes' = [changes EXCEPT ![t] = Append(@, [policy |-> policy, activatedBy |-> user])]
  /\ samples' = [samples EXCEPT ![t] = <<>>]
  /\ UNCHANGED judgedBy

Rejected(policy) ==
  /\ policy \notin Accepted
  /\ UNCHANGED vars

\* POST /v1/process when the shell answers: it judges by the policy it was made
\* with, and the time it took is recorded under the layer of the event, if any.
Process(t) ==
  /\ judgedBy' = [judgedBy EXCEPT ![t] = DefaultPolicy]
  /\ \/ /\ detectors' = Put(detectors, t, TrackersOf(t))
        /\ UNCHANGED samples
     \/ \E l \in Layers, ms \in Latencies :
          /\ Len(samples[t]) < MaxSamples
          /\ detectors' = Put(detectors, t, [TrackersOf(t) EXCEPT ![l] = Recorded(@, ms)])
          /\ samples' = [samples EXCEPT ![t] = Append(@, [layer |-> l, ms |-> ms])]
  /\ UNCHANGED <<active, history, changes>>

\* GET /v1/mttd, /v1/detectors and /v1/health make the set on first use.
ReadStats(t) ==
  /\ t \notin DOMAIN detectors
  /\ detectors' = Put(detectors, t, TrackersOf(t))
  /\ UNCHANGED <<active, history, judgedBy, changes, samples>>

Next ==
  \E t \in Tenants :
    \/ \E policy \in RawPolicies, user \in Users : SetActive(t, policy, user)
    \/ \E policy \in RawPolicies : Rejected(policy)
    \/ Process(t)
    \/ ReadStats(t)

Spec == Init /\ [][Next]_vars

-----------------------------------------------------------------------------
(***************************************************************************)
(* Properties                                                              *)
(***************************************************************************)

\* The types of the variables; a buffer never outgrows its size.
TypeOK ==
  /\ DOMAIN active \subseteq Tenants /\ active \in [DOMAIN active -> Accepted]
  /\ history \in [Tenants -> Seq(Change)]
  /\ DOMAIN detectors \subseteq Tenants
  /\ detectors \in [DOMAIN detectors -> [Layers -> Tracker]]
  /\ \A t \in DOMAIN detectors, l \in Layers : Len(detectors[t][l].buffer) <= BufferSize
  /\ judgedBy \in [Tenants -> RawPolicies]
  /\ changes \in [Tenants -> Seq(Change)]
  /\ samples \in [Tenants -> Seq(Sample)]

\* The SLA a tenant's trackers were made with is that of the policy getActive
\* returns, whether they were made by a first request or by a policy change, in
\* any order and among any tenants: the cached SLA is never stale.
SlaFollowsPolicy ==
  \A t \in DOMAIN detectors, l \in Layers :
    detectors[t][l].sla = Sla[getActive(active, t)][l]

SamplesOf(t, l) == {i \in DOMAIN samples[t] : samples[t][i].layer = l}

BreachesOf(t, l) ==
  {i \in SamplesOf(t, l) : samples[t][i].ms > Sla[getActive(active, t)][l]}

\* The counts of a tracker are those of the samples of its tenant and layer since
\* the tenant's policy was last set, a breach being what the active policy takes
\* for one: no count of an earlier policy or of another tenant is left in, and none
\* makes a tenant's detection look degraded, or sound, before or after a change.
CountsFollowPolicy ==
  /\ \A t \in DOMAIN detectors, l \in Layers :
       /\ detectors[t][l].totalSamples = Cardinality(SamplesOf(t, l))
       /\ detectors[t][l].breachCount = Cardinality(BreachesOf(t, l))
  /\ \A t \in Tenants :
       MttdStatus(t) = 207 <=>
         \E l \in Layers : /\ SamplesOf(t, l) # {}
                           /\ 20 * Cardinality(BreachesOf(t, l)) >= Cardinality(SamplesOf(t, l))

Least(n, m) == IF n < m THEN n ELSE m

\* "Policy history (last 10 versions per tenant for audit)" (policy-store.ts:13): the
\* history holds the policies the tenant set before the active one, newest first,
\* without gap or repetition, up to the limit.
HistoryIsExact ==
  \A t \in Tenants :
    LET n == Len(changes[t])
    IN  /\ Len(history[t]) = IF n = 0 THEN 0 ELSE Least(n - 1, MaxHistory)
        /\ \A i \in 1 .. Len(history[t]) : history[t][i].policy = changes[t][n - i].policy

\* A percentile is the least of the samples in the buffer that at least p percent of them do
\* not exceed, whatever the number of samples and however many are equal.
PercentilesAreRanks ==
  \A t \in DOMAIN detectors, l \in Layers, p \in Percentages :
    LET buffer == detectors[t][l].buffer
        n == Len(buffer)
        value == Percentile(buffer, p)
    IN  n > 0 =>
          /\ 100 * Cardinality({i \in 1 .. n : buffer[i] <= value}) >= p * n
          /\ 100 * Cardinality({i \in 1 .. n : buffer[i] < value}) < p * n

-----------------------------------------------------------------------------
(***************************************************************************)
(* What the documentation says and the code does not keep to               *)
(***************************************************************************)

\* chaos-harness.ts:110 (CHAOS-005) "New requests use new policy": a tenant's request is
\* judged by the policy that is active when it is made.
NewRequestsUseNewPolicy ==
  [][\A t \in Tenants : Process(t) => judgedBy'[t] = getActive(active, t)]_vars

=============================================================================
