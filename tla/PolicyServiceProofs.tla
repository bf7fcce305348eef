------------------------ MODULE PolicyServiceProofs ------------------------
(***************************************************************************)
(* What holds of the tenants' policies for all policies, tenants, history  *)
(* limits and buffer sizes.                                                *)
(***************************************************************************)
EXTENDS PolicyService, FiniteSetTheorems, NaturalsInduction, WellFoundedInduction, TLAPS

LEMMA NewTrackersType ==
  ASSUME NEW policy \in RawPolicies
  PROVE  /\ NewTrackers(policy) \in [Layers -> Tracker]
         /\ \A l \in Layers : NewTrackers(policy)[l].sla = Sla[policy][l]
         /\ \A l \in Layers : Len(NewTrackers(policy)[l].buffer) = 0
<1>1. \A l \in Layers : Sla[policy][l] \in Nat
  BY PolicyServiceAssumption
<1>2. <<>> \in Seq(Nat) /\ Len(<<>>) = 0
  OBVIOUS
<1> QED
  BY <1>1, <1>2 DEF NewTrackers, Tracker

LEMMA ActiveType ==
  ASSUME TypeOK, NEW t \in Tenants
  PROVE  getActive(active, t) \in RawPolicies
BY PolicyServiceAssumption DEF TypeOK, getActive, Accepted

LEMMA TrackersOfType ==
  ASSUME TypeOK, NEW t \in Tenants
  PROVE  /\ TrackersOf(t) \in [Layers -> Tracker]
         /\ \A l \in Layers : Len(TrackersOf(t)[l].buffer) <= BufferSize
BY ActiveType, NewTrackersType, PolicyServiceAssumption DEF TrackersOf, TypeOK

\* Pushing keeps a buffer within its size.
LEMMA PushType ==
  ASSUME NEW buffer \in Seq(Nat), Len(buffer) <= BufferSize, NEW ms \in Nat
  PROVE  Push(buffer, ms) \in Seq(Nat) /\ Len(Push(buffer, ms)) <= BufferSize
<1>1. CASE Len(buffer) >= BufferSize
  <2>1. buffer # <<>>
    BY <1>1, PolicyServiceAssumption
  <2>2. Tail(buffer) \in Seq(Nat) /\ Len(Tail(buffer)) = Len(buffer) - 1
    BY <2>1
  <2> QED
    BY <1>1, <2>2, PolicyServiceAssumption DEF Push
<1>2. CASE ~(Len(buffer) >= BufferSize)
  BY <1>2, PolicyServiceAssumption DEF Push
<1> QED
  BY <1>1, <1>2

LEMMA RecordedType ==
  ASSUME NEW tracker \in Tracker, Len(tracker.buffer) <= BufferSize, NEW ms \in Nat
  PROVE  /\ Recorded(tracker, ms) \in Tracker
         /\ Recorded(tracker, ms).sla = tracker.sla
         /\ Len(Recorded(tracker, ms).buffer) <= BufferSize
<1>1. /\ tracker.buffer \in Seq(Nat) /\ tracker.sla \in Nat
      /\ tracker.breachCount \in Nat /\ tracker.totalSamples \in Nat
  BY DEF Tracker
<1>2. /\ Push(tracker.buffer, ms) \in Seq(Nat)
      /\ Len(Push(tracker.buffer, ms)) <= BufferSize
  BY <1>1, PushType
<1>3. tracker.breachCount + 1 \in Nat /\ tracker.totalSamples + 1 \in Nat
  BY <1>1
<1>4. (IF SlaMet(tracker, ms) THEN tracker.breachCount ELSE tracker.breachCount + 1) \in Nat
  BY <1>1, <1>3
<1> QED
  BY <1>1, <1>2, <1>3, <1>4 DEF Recorded, Tracker

\* unshift() and pop(): the newest entry first, then the earlier ones in order, cut
\* off at the limit.
LEMMA RememberedEntries ==
  ASSUME NEW S, NEW entries \in Seq(S), NEW entry \in S, Len(entries) <= MaxHistory
  PROVE  /\ Remembered(entries, entry) \in Seq(S)
         /\ Len(Remembered(entries, entry)) = Least(Len(entries) + 1, MaxHistory)
         /\ \A i \in 1 .. Len(Remembered(entries, entry)) :
              Remembered(entries, entry)[i] = IF i = 1 THEN entry ELSE entries[i - 1]
<1> DEFINE all == <<entry>> \o entries
           n == IF Len(entries) < MaxHistory THEN Len(entries) + 1 ELSE MaxHistory
<1>1. /\ all \in Seq(S) /\ Len(all) = Len(entries) + 1
      /\ \A i \in 1 .. Len(all) : all[i] = IF i = 1 THEN entry ELSE entries[i - 1]
  OBVIOUS
<1>2. n \in 0 .. Len(all) /\ n = Least(Len(entries) + 1, MaxHistory)
  BY <1>1, PolicyServiceAssumption DEF Least
<1> HIDE DEF all, n
<1>3. /\ SubSeq(all, 1, n) \in Seq(S) /\ Len(SubSeq(all, 1, n)) = n
      /\ \A i \in 1 .. n : SubSeq(all, 1, n)[i] = all[i]
  BY <1>1, <1>2
<1>4. Remembered(entries, entry) = SubSeq(all, 1, n)
  BY DEF Remembered, all, n
<1> QED
  BY <1>1, <1>2, <1>3, <1>4

\* What SetActive leaves in the maps of its tenant.
LEMMA SetActiveSteps ==
  ASSUME TypeOK, NEW t \in Tenants, NEW policy, NEW user, SetActive(t, policy, user)
  PROVE  /\ policy \in RawPolicies /\ policy \in Accepted
         /\ active' = Put(active, t, policy)
         /\ detectors' = Put(detectors, t, NewTrackers(policy))
         /\ \A s \in Tenants :
              getActive(active', s) = IF s = t THEN policy ELSE getActive(active, s)
<1>1. policy \in RawPolicies /\ policy \in Accepted
  BY PolicyServiceAssumption DEF SetActive, Accepted
<1>2. active' = Put(active, t, policy)
  BY DEF SetActive
<1>3. \A s \in Tenants :
        getActive(active', s) = IF s = t THEN policy ELSE getActive(active, s)
  BY <1>2 DEF getActive, Put
<1>4. detectors' = Put(detectors, t, NewTrackers(policy))
  BY <1>3 DEF SetActive, ResetTrackers, PolicySeen
<1> QED
  BY <1>1, <1>2, <1>3, <1>4

\* Putting trackers of the right type keeps the registry's type.
LEMMA PutTrackersType ==
  ASSUME TypeOK, NEW t \in Tenants, NEW trackers \in [Layers -> Tracker],
         \A l \in Layers : Len(trackers[l].buffer) <= BufferSize,
         detectors' = Put(detectors, t, trackers)
  PROVE  /\ DOMAIN detectors' \subseteq Tenants
         /\ detectors' \in [DOMAIN detectors' -> [Layers -> Tracker]]
         /\ \A s \in DOMAIN detectors', l \in Layers :
              Len(detectors'[s][l].buffer) <= BufferSize
<1>1. DOMAIN detectors' = DOMAIN detectors \cup {t}
  BY DEF Put
<1>2. \A s \in DOMAIN detectors' :
        detectors'[s] = IF s = t THEN trackers ELSE detectors[s]
  BY <1>1 DEF Put
<1>3. \A s \in DOMAIN detectors' : detectors'[s] \in [Layers -> Tracker]
  BY <1>1, <1>2 DEF TypeOK
<1>4. detectors' = [s \in DOMAIN detectors' |-> detectors'[s]]
  BY <1>1 DEF Put
<1> QED
  BY <1>1, <1>2, <1>3, <1>4 DEF TypeOK

\* Type correctness: only accepted policies are ever active, remembered or logged,
\* and no latency buffer outgrows its size.
THEOREM TypeCorrect == Spec => []TypeOK
<1>1. Init => TypeOK
  BY PolicyServiceAssumption DEF Init, TypeOK, Accepted
<1>2. TypeOK /\ [Next]_vars => TypeOK'
  <2> SUFFICES ASSUME TypeOK, [Next]_vars PROVE TypeOK'
    OBVIOUS
  <2>1. ASSUME NEW t \in Tenants, NEW policy \in RawPolicies, NEW user \in Users,
               SetActive(t, policy, user)
        PROVE  TypeOK'
    <3>1. /\ policy \in Accepted /\ active' = Put(active, t, policy)
          /\ detectors' = Put(detectors, t, NewTrackers(policy))
      BY <2>1, SetActiveSteps
    <3>2. DOMAIN active' \subseteq Tenants /\ active' \in [DOMAIN active' -> Accepted]
      BY <3>1 DEF TypeOK, Put
    <3>3. history' \in [Tenants -> Seq(Change)]
      <4>1. CASE t \in DOMAIN active
        <5> DEFINE entry == [policy |-> active[t], activatedBy |-> user]
        <5>1. entry \in Change
          BY <4>1 DEF TypeOK, Change
        <5>2. <<entry>> \o history[t] \in Seq(Change)
          BY <5>1 DEF TypeOK
        <5>3. Len(history[t]) \in Nat /\ Len(<<entry>> \o history[t]) = Len(history[t]) + 1
          BY <5>1 DEF TypeOK
        <5> HIDE DEF entry
        <5>4. Remembered(history[t], entry) \in Seq(Change)
          BY <5>2, <5>3, PolicyServiceAssumption DEF Remembered
        <5> QED
          BY <2>1, <4>1, <5>4 DEF SetActive, TypeOK, entry
      <4>2. CASE t \notin DOMAIN active
        BY <2>1, <4>2 DEF SetActive, TypeOK
      <4> QED
        BY <4>1, <4>2
    <3>4. /\ DOMAIN detectors' \subseteq Tenants
          /\ detectors' \in [DOMAIN detectors' -> [Layers -> Tracker]]
          /\ \A s \in DOMAIN detectors', l \in Layers :
               Len(detectors'[s][l].buffer) <= BufferSize
      <4>1. /\ NewTrackers(policy) \in [Layers -> Tracker]
            /\ \A l \in Layers : Len(NewTrackers(policy)[l].buffer) <= BufferSize
        BY NewTrackersType, PolicyServiceAssumption
      <4> QED
        BY <3>1, <4>1, PutTrackersType
    <3>5. changes' \in [Tenants -> Seq(Change)]
      <4>1. [policy |-> policy, activatedBy |-> user] \in Change
        BY <3>1 DEF Change
      <4>2. changes[t] \in Seq(Change)
        BY DEF TypeOK
      <4>3. Append(changes[t], [policy |-> policy, activatedBy |-> user]) \in Seq(Change)
        BY <4>1, <4>2
      <4> QED
        BY <2>1, <4>3 DEF SetActive, TypeOK
    <3>6. samples' \in [Tenants -> Seq(Sample)]
      <4>1. <<>> \in Seq(Sample)
        OBVIOUS
      <4> QED
        BY <2>1, <4>1 DEF SetActive, TypeOK
    <3> QED
      BY <2>1, <3>2, <3>3, <3>4, <3>5, <3>6 DEF SetActive, TypeOK
  <2>2. ASSUME NEW policy \in RawPolicies, Rejected(policy)
        PROVE  TypeOK'
    BY <2>2 DEF Rejected, vars, TypeOK
  <2>3. ASSUME NEW t \in Tenants, Process(t)
        PROVE  TypeOK'
    <3>1. judgedBy' \in [Tenants -> RawPolicies]
      BY <2>3, PolicyServiceAssumption DEF Process, TypeOK, Accepted
    <3>2. CASE detectors' = Put(detectors, t, TrackersOf(t)) /\ UNCHANGED samples
      BY <2>3, <3>1, <3>2, TrackersOfType, PutTrackersType DEF Process, TypeOK
    <3>3. ASSUME NEW l \in Layers, NEW ms \in Latencies,
                 detectors' = Put(detectors, t, [TrackersOf(t) EXCEPT ![l] = Recorded(@, ms)]),
                 samples' = [samples EXCEPT ![t] = Append(@, [layer |-> l, ms |-> ms])]
          PROVE  TypeOK'
      <4>1. ms \in Nat
        BY PolicyServiceAssumption
      <4>2. /\ [TrackersOf(t) EXCEPT ![l] = Recorded(@, ms)] \in [Layers -> Tracker]
            /\ \A k \in Layers :
                 Len([TrackersOf(t) EXCEPT ![l] = Recorded(@, ms)][k].buffer) <= BufferSize
        BY <4>1, TrackersOfType, RecordedType
      <4>3. samples' \in [Tenants -> Seq(Sample)]
        <5>1. [layer |-> l, ms |-> ms] \in Sample /\ samples[t] \in Seq(Sample)
          BY <4>1 DEF TypeOK, Sample
        <5>2. Append(samples[t], [layer |-> l, ms |-> ms]) \in Seq(Sample)
          BY <5>1
        <5> QED
          BY <3>3, <5>2 DEF TypeOK
      <4> HIDE DEF TypeOK
      <4>4. /\ DOMAIN detectors' \subseteq Tenants
            /\ detectors' \in [DOMAIN detectors' -> [Layers -> Tracker]]
            /\ \A s \in DOMAIN detectors', k \in Layers :
                 Len(detectors'[s][k].buffer) <= BufferSize
        BY <3>3, <4>2, PutTrackersType
      <4> QED
        BY <2>3, <3>1, <4>3, <4>4 DEF Process, TypeOK
    <3> QED
      BY <2>3, <3>2, <3>3 DEF Process
  <2>4. ASSUME NEW t \in Tenants, ReadStats(t)
        PROVE  TypeOK'
    BY <2>4, TrackersOfType, PutTrackersType DEF ReadStats, TypeOK
  <2>5. CASE UNCHANGED vars
    BY <2>5 DEF vars, TypeOK
  <2> QED
    BY <2>1, <2>2, <2>3, <2>4, <2>5 DEF Next
<1> QED
  BY <1>1, <1>2, PTL DEF Spec

-----------------------------------------------------------------------------

\* Whoever makes a tenant's trackers first, a request or a policy change, their
\* SLA is that of the active policy: setActive activates before it notifies, and
\* nothing else changes the active policy.
THEOREM SlaIsNeverStale == Spec => []SlaFollowsPolicy
<1>1. Init => SlaFollowsPolicy
  BY DEF Init, SlaFollowsPolicy
<1>2. TypeOK /\ SlaFollowsPolicy /\ [Next]_vars => SlaFollowsPolicy'
  <2> SUFFICES ASSUME TypeOK, SlaFollowsPolicy, [Next]_vars PROVE SlaFollowsPolicy'
    OBVIOUS
  <2>1. ASSUME NEW t \in Tenants, NEW policy \in RawPolicies, NEW user \in Users,
               SetActive(t, policy, user)
        PROVE  SlaFollowsPolicy'
    <3>1. /\ detectors' = Put(detectors, t, NewTrackers(policy))
          /\ \A s \in Tenants :
               getActive(active', s) = IF s = t THEN policy ELSE getActive(active, s)
      BY <2>1, SetActiveSteps
    <3>2. DOMAIN detectors' \subseteq Tenants
      BY <3>1 DEF Put, TypeOK
    <3> QED
      BY <3>1, <3>2, NewTrackersType DEF SlaFollowsPolicy, Put
  <2>2. ASSUME NEW t \in Tenants, Process(t)
        PROVE  SlaFollowsPolicy'
    <3>1. \A l \in Layers : TrackersOf(t)[l].sla = Sla[getActive(active, t)][l]
      BY ActiveType, NewTrackersType DEF TrackersOf, SlaFollowsPolicy
    <3>2. active' = active
      BY <2>2 DEF Process
    <3>3. CASE detectors' = Put(detectors, t, TrackersOf(t))
      BY <3>1, <3>2, <3>3 DEF SlaFollowsPolicy, Put
    <3>4. ASSUME NEW k \in Layers, NEW ms \in Latencies,
                 detectors' = Put(detectors, t, [TrackersOf(t) EXCEPT ![k] = Recorded(@, ms)])
          PROVE  SlaFollowsPolicy'
      <4>1. \A l \in Layers :
              [TrackersOf(t) EXCEPT ![k] = Recorded(@, ms)][l].sla = TrackersOf(t)[l].sla
        BY TrackersOfType DEF Recorded
      <4> QED
        BY <3>1, <3>2, <3>4, <4>1 DEF SlaFollowsPolicy, Put
    <3> QED
      BY <2>2, <3>3, <3>4 DEF Process
  <2>3. ASSUME NEW t \in Tenants, ReadStats(t)
        PROVE  SlaFollowsPolicy'
    <3>1. \A l \in Layers : TrackersOf(t)[l].sla = Sla[getActive(active, t)][l]
      BY ActiveType, NewTrackersType DEF TrackersOf, SlaFollowsPolicy
    <3> QED
      BY <2>3, <3>1 DEF ReadStats, SlaFollowsPolicy, Put
  <2>4. CASE UNCHANGED vars
    BY <2>4 DEF vars, SlaFollowsPolicy
  <2> QED
    BY <2>1, <2>2, <2>3, <2>4 DEF Next, Rejected
<1> QED
  BY <1>1, <1>2, TypeCorrect, PTL DEF Spec

-----------------------------------------------------------------------------

\* The places of a sequence of samples that are of layer l, and those among them
\* that an SLA of the given time takes for breaches.
OfLayer(seq, l) == {i \in DOMAIN seq : seq[i].layer = l}

Breaching(seq, l, sla) == {i \in OfLayer(seq, l) : seq[i].ms > sla}

\* Trackers whose counts are those of the samples of tenant t.
Counted(trackers, t) ==
  \A l \in Layers :
    /\ trackers[l].totalSamples = Cardinality(SamplesOf(t, l))
    /\ trackers[l].breachCount = Cardinality(BreachesOf(t, l))

\* Nothing was recorded for a tenant without trackers, and the trackers there are
\* are counted: what makes the counts of CountsFollowPolicy inductive.
CountsInv ==
  /\ \A t \in Tenants \ DOMAIN detectors : samples[t] = <<>>
  /\ \A t \in DOMAIN detectors : Counted(detectors[t], t)

LEMMA CountsAreNumbers ==
  ASSUME NEW seq \in Seq(Sample), NEW l, NEW sla
  PROVE  /\ IsFiniteSet(OfLayer(seq, l)) /\ IsFiniteSet(Breaching(seq, l, sla))
         /\ Cardinality(OfLayer(seq, l)) \in Nat
         /\ Cardinality(Breaching(seq, l, sla)) \in Nat
<1>1. IsFiniteSet(1 .. Len(seq))
  BY FS_Interval
<1>2. OfLayer(seq, l) \subseteq 1 .. Len(seq)
  BY DEF OfLayer
<1>3. Breaching(seq, l, sla) \subseteq 1 .. Len(seq)
  BY <1>2 DEF Breaching
<1>4. IsFiniteSet(OfLayer(seq, l)) /\ IsFiniteSet(Breaching(seq, l, sla))
  BY <1>1, <1>2, <1>3, FS_Subset
<1> QED
  BY <1>4, FS_CardinalityType

\* One more sample counts once, for its own layer alone, and as a breach when it
\* exceeds the SLA.
LEMMA AppendCounts ==
  ASSUME NEW seq \in Seq(Sample), NEW sample \in Sample, NEW l, NEW sla \in Nat
  PROVE  /\ Cardinality(OfLayer(Append(seq, sample), l)) =
              IF sample.layer = l THEN Cardinality(OfLayer(seq, l)) + 1
              ELSE Cardinality(OfLayer(seq, l))
         /\ Cardinality(Breaching(Append(seq, sample), l, sla)) =
              IF sample.layer = l /\ sample.ms > sla
              THEN Cardinality(Breaching(seq, l, sla)) + 1
              ELSE Cardinality(Breaching(seq, l, sla))
<1> DEFINE n == Len(seq)
           longer == Append(seq, sample)
<1>1. /\ n \in Nat /\ DOMAIN seq = 1 .. n /\ DOMAIN longer = 1 .. n + 1
      /\ \A i \in 1 .. n : longer[i] = seq[i]
      /\ longer[n + 1] = sample
      /\ n + 1 \notin 1 .. n /\ 1 .. n + 1 = (1 .. n) \cup {n + 1}
  OBVIOUS
<1> HIDE DEF n, longer
<1>2. OfLayer(longer, l) =
        IF sample.layer = l THEN OfLayer(seq, l) \cup {n + 1} ELSE OfLayer(seq, l)
  BY <1>1 DEF OfLayer
<1>3. Breaching(longer, l, sla) =
        IF sample.layer = l /\ sample.ms > sla
        THEN Breaching(seq, l, sla) \cup {n + 1} ELSE Breaching(seq, l, sla)
  BY <1>1 DEF Breaching, OfLayer
<1>4. n + 1 \notin OfLayer(seq, l) /\ n + 1 \notin Breaching(seq, l, sla)
  BY <1>1 DEF Breaching, OfLayer
<1>5. /\ Cardinality(OfLayer(seq, l) \cup {n + 1}) = Cardinality(OfLayer(seq, l)) + 1
      /\ Cardinality(Breaching(seq, l, sla) \cup {n + 1}) =
           Cardinality(Breaching(seq, l, sla)) + 1
  BY <1>4, CountsAreNumbers, FS_AddElement
<1> QED
  BY <1>2, <1>3, <1>5 DEF longer

\* The trackers a request uses, new ones or those in the registry, are counted.
LEMMA TrackersAreCounted ==
  ASSUME TypeOK, CountsInv, NEW t \in Tenants
  PROVE  Counted(TrackersOf(t), t)
<1>1. CASE t \in DOMAIN detectors
  BY <1>1 DEF TrackersOf, CountsInv
<1>2. CASE t \notin DOMAIN detectors
  <2>1. \A l \in Layers : SamplesOf(t, l) = {} /\ BreachesOf(t, l) = {}
    BY <1>2 DEF CountsInv, SamplesOf, BreachesOf
  <2> QED
    BY <1>2, <2>1, FS_EmptySet DEF TrackersOf, NewTrackers, Counted
<1> QED
  BY <1>1, <1>2

\* What is counted for a tenant stays counted in a step that leaves its samples and
\* its policy alone.
LEMMA CountedStays ==
  ASSUME NEW t \in Tenants, NEW trackers, Counted(trackers, t),
         samples'[t] = samples[t], getActive(active', t) = getActive(active, t)
  PROVE  \A l \in Layers :
           /\ trackers[l].totalSamples = Cardinality(SamplesOf(t, l)')
           /\ trackers[l].breachCount = Cardinality(BreachesOf(t, l)')
<1>1. \A l \in Layers :
        SamplesOf(t, l)' = SamplesOf(t, l) /\ BreachesOf(t, l)' = BreachesOf(t, l)
  BY DEF SamplesOf, BreachesOf
<1> QED
  BY <1>1 DEF Counted

\* When tenant t's trackers are put, and nothing is recorded for another or its
\* policy changed, the others' counts stay right.
LEMMA PutCounted ==
  ASSUME TypeOK, CountsInv, NEW t \in Tenants, NEW trackers,
         detectors' = Put(detectors, t, trackers),
         \A s \in Tenants \ {t} :
           samples'[s] = samples[s] /\ getActive(active', s) = getActive(active, s),
         \A l \in Layers :
           /\ trackers[l].totalSamples = Cardinality(SamplesOf(t, l)')
           /\ trackers[l].breachCount = Cardinality(BreachesOf(t, l)')
  PROVE  CountsInv'
<1>1. DOMAIN detectors' = DOMAIN detectors \cup {t} /\ DOMAIN detectors \subseteq Tenants
  BY DEF Put, TypeOK
<1>2. /\ detectors'[t] = trackers
      /\ \A s \in DOMAIN detectors \ {t} : detectors'[s] = detectors[s]
  BY DEF Put
<1>3. \A s \in Tenants \ DOMAIN detectors' : samples'[s] = <<>>
  BY <1>1 DEF CountsInv
<1>4. ASSUME NEW s \in DOMAIN detectors'
      PROVE  \A l \in Layers :
               /\ detectors'[s][l].totalSamples = Cardinality(SamplesOf(s, l)')
               /\ detectors'[s][l].breachCount = Cardinality(BreachesOf(s, l)')
  <2>1. CASE s = t
    BY <1>2, <2>1
  <2>2. CASE s # t
    <3>1. s \in Tenants \ {t} /\ s \in DOMAIN detectors /\ detectors'[s] = detectors[s]
      BY <1>1, <1>2, <1>4, <2>2
    <3>2. Counted(detectors[s], s)
      BY <3>1 DEF CountsInv
    <3> QED
      BY <3>1, <3>2, CountedStays
  <2> QED
    BY <2>1, <2>2
<1>5. \A s \in DOMAIN detectors' : Counted(detectors[s], s)'
  BY <1>4 DEF Counted
<1> QED
  BY <1>3, <1>5 DEF CountsInv

\* A recorded sample leaves the tenant's trackers counted.
LEMMA RecordedIsCounted ==
  ASSUME TypeOK, SlaFollowsPolicy, CountsInv, NEW t \in Tenants,
         NEW k \in Layers, NEW ms \in Nat,
         samples' = [samples EXCEPT ![t] = Append(@, [layer |-> k, ms |-> ms])],
         active' = active,
         NEW l \in Layers
  PROVE  LET tracker == [TrackersOf(t) EXCEPT ![k] = Recorded(@, ms)][l]
         IN  /\ tracker.totalSamples = Cardinality(SamplesOf(t, l)')
             /\ tracker.breachCount = Cardinality(BreachesOf(t, l)')
<1> DEFINE sample == [layer |-> k, ms |-> ms]
           sla == Sla[getActive(active, t)][l]
           seq == samples[t]
<1>1. sample \in Sample /\ sample.layer = k /\ sample.ms = ms
  BY DEF Sample
<1>2. seq \in Seq(Sample) /\ samples'[t] = Append(seq, sample)
  BY DEF TypeOK
<1>3. sla \in Nat
  BY ActiveType, PolicyServiceAssumption
<1>4. /\ TrackersOf(t) \in [Layers -> Tracker]
      /\ TrackersOf(t)[l].sla = sla
  BY TrackersOfType, ActiveType, NewTrackersType DEF TrackersOf, SlaFollowsPolicy
<1>5. /\ TrackersOf(t)[l].totalSamples = Cardinality(OfLayer(seq, l))
      /\ TrackersOf(t)[l].breachCount = Cardinality(Breaching(seq, l, sla))
  BY TrackersAreCounted DEF Counted, SamplesOf, BreachesOf, OfLayer, Breaching
<1>6. /\ SamplesOf(t, l)' = OfLayer(samples'[t], l)
      /\ BreachesOf(t, l)' = Breaching(samples'[t], l, sla)
  BY DEF SamplesOf, BreachesOf, OfLayer, Breaching
<1> HIDE DEF sample, sla, seq
<1>7. /\ Cardinality(SamplesOf(t, l)') =
           IF k = l THEN Cardinality(OfLayer(seq, l)) + 1 ELSE Cardinality(OfLayer(seq, l))
      /\ Cardinality(BreachesOf(t, l)') =
           IF k = l /\ ms > sla THEN Cardinality(Breaching(seq, l, sla)) + 1
           ELSE Cardinality(Breaching(seq, l, sla))
  BY <1>1, <1>2, <1>3, <1>6, AppendCounts
<1>8. CASE k = l
  <2>1. [TrackersOf(t) EXCEPT ![k] = Recorded(@, ms)][l] = Recorded(TrackersOf(t)[l], ms)
    BY <1>4, <1>8
  <2>2. SlaMet(TrackersOf(t)[l], ms) <=> ~(ms > sla)
    BY <1>3, <1>4 DEF SlaMet
  <2> QED
    BY <1>5, <1>7, <1>8, <2>1, <2>2 DEF Recorded
<1>9. CASE k # l
  <2>1. [TrackersOf(t) EXCEPT ![k] = Recorded(@, ms)][l] = TrackersOf(t)[l]
    BY <1>4, <1>9
  <2> QED
    BY <1>5, <1>7, <1>9, <2>1
<1> QED
  BY <1>8, <1>9

LEMMA CountsKept ==
  ASSUME TypeOK, SlaFollowsPolicy, CountsInv, [Next]_vars
  PROVE  CountsInv'
<1>1. ASSUME NEW t \in Tenants, NEW policy \in RawPolicies, NEW user \in Users,
             SetActive(t, policy, user)
      PROVE  CountsInv'
  <2>1. /\ detectors' = Put(detectors, t, NewTrackers(policy))
        /\ \A s \in Tenants \ {t} : getActive(active', s) = getActive(active, s)
    BY <1>1, SetActiveSteps
  <2>2. samples'[t] = <<>> /\ \A s \in Tenants \ {t} : samples'[s] = samples[s]
    BY <1>1 DEF SetActive, TypeOK
  <2>3. \A l \in Layers : SamplesOf(t, l)' = {} /\ BreachesOf(t, l)' = {}
    BY <2>2 DEF SamplesOf, BreachesOf
  <2>4. \A l \in Layers :
          /\ NewTrackers(policy)[l].totalSamples = Cardinality(SamplesOf(t, l)')
          /\ NewTrackers(policy)[l].breachCount = Cardinality(BreachesOf(t, l)')
    BY <2>3, FS_EmptySet DEF NewTrackers
  <2> QED
    BY <2>1, <2>2, <2>4, PutCounted
<1>2. ASSUME NEW t \in Tenants, Process(t)
      PROVE  CountsInv'
  <2>1. active' = active
    BY <1>2 DEF Process
  <2>2. ASSUME detectors' = Put(detectors, t, TrackersOf(t)), samples' = samples
        PROVE  CountsInv'
    BY <2>1, <2>2, TrackersAreCounted, CountedStays, PutCounted
  <2>3. ASSUME NEW k \in Layers, NEW ms \in Latencies,
               detectors' = Put(detectors, t, [TrackersOf(t) EXCEPT ![k] = Recorded(@, ms)]),
               samples' = [samples EXCEPT ![t] = Append(@, [layer |-> k, ms |-> ms])]
        PROVE  CountsInv'
    <3> DEFINE trackers == [TrackersOf(t) EXCEPT ![k] = Recorded(@, ms)]
    <3>1. ms \in Nat
      BY PolicyServiceAssumption
    <3>2. \A l \in Layers :
            /\ trackers[l].totalSamples = Cardinality(SamplesOf(t, l)')
            /\ trackers[l].breachCount = Cardinality(BreachesOf(t, l)')
      BY <2>1, <2>3, <3>1, RecordedIsCounted
    <3>3. \A s \in Tenants \ {t} : samples'[s] = samples[s]
      BY <2>3 DEF TypeOK
    <3>4. detectors' = Put(detectors, t, trackers)
      BY <2>3
    <3> HIDE DEF trackers
    <3> QED
      BY <2>1, <3>2, <3>3, <3>4, PutCounted
  <2> QED
    BY <1>2, <2>2, <2>3 DEF Process
<1>3. ASSUME NEW t \in Tenants, ReadStats(t)
      PROVE  CountsInv'
  <2>1. /\ detectors' = Put(detectors, t, TrackersOf(t))
        /\ active' = active /\ samples' = samples
    BY <1>3 DEF ReadStats
  <2> QED
    BY <2>1, TrackersAreCounted, CountedStays, PutCounted
<1>4. CASE UNCHANGED vars
  <2>1. detectors' = detectors /\ samples' = samples /\ active' = active
    BY <1>4 DEF vars
  <2>2. ASSUME NEW t \in DOMAIN detectors PROVE Counted(detectors[t], t)'
    <3>1. t \in Tenants /\ Counted(detectors[t], t)
      BY DEF TypeOK, CountsInv
    <3>2. \A l \in Layers :
            /\ detectors[t][l].totalSamples = Cardinality(SamplesOf(t, l)')
            /\ detectors[t][l].breachCount = Cardinality(BreachesOf(t, l)')
      BY <2>1, <3>1, CountedStays
    <3> QED
      BY <2>1, <3>2 DEF Counted
  <2> QED
    BY <2>1, <2>2 DEF CountsInv
<1> QED
  BY <1>1, <1>2, <1>3, <1>4 DEF Next, Rejected

LEMMA CountsSuffice ==
  ASSUME TypeOK, CountsInv
  PROVE  CountsFollowPolicy
<1>1. ASSUME NEW t \in Tenants
      PROVE  MttdStatus(t) = 207 <=>
               \E l \in Layers :
                 /\ SamplesOf(t, l) # {}
                 /\ 20 * Cardinality(BreachesOf(t, l)) >= Cardinality(SamplesOf(t, l))
  <2>1. Counted(TrackersOf(t), t)
    BY TrackersAreCounted
  <2>2. ASSUME NEW l \in Layers
        PROVE  /\ Cardinality(SamplesOf(t, l)) \in Nat /\ Cardinality(BreachesOf(t, l)) \in Nat
               /\ Cardinality(SamplesOf(t, l)) = 0 <=> SamplesOf(t, l) = {}
    <3> DEFINE sla == Sla[getActive(active, t)][l]
    <3>1. /\ SamplesOf(t, l) = OfLayer(samples[t], l)
          /\ BreachesOf(t, l) = Breaching(samples[t], l, sla)
      BY DEF SamplesOf, BreachesOf, OfLayer, Breaching
    <3>2. samples[t] \in Seq(Sample)
      BY DEF TypeOK
    <3> HIDE DEF sla
    <3> QED
      BY <3>1, <3>2, CountsAreNumbers, FS_EmptySet
  <2>3. ~ isSlaHealthy(t) <=>
          \E l \in Layers :
            /\ Cardinality(SamplesOf(t, l)) # 0
            /\ ~(20 * Cardinality(BreachesOf(t, l)) < Cardinality(SamplesOf(t, l)))
    BY <2>1 DEF isSlaHealthy, Counted
  <2>4. MttdStatus(t) = 207 <=> ~ isSlaHealthy(t)
    BY DEF MttdStatus
  <2> QED
    BY <2>2, <2>3, <2>4
<1> QED
  BY <1>1 DEF CountsFollowPolicy, CountsInv, Counted

\* What GET /v1/mttd reports of a tenant is what was recorded for that tenant since
\* its policy was last set, measured by that policy's SLA: no count survives a
\* policy change and none leaks between tenants or layers.
THEOREM CountsAreCurrent == Spec => []CountsFollowPolicy
<1>1. Init => CountsInv
  BY DEF Init, CountsInv
<1>2. TypeOK /\ SlaFollowsPolicy /\ CountsInv /\ [Next]_vars => CountsInv'
  BY CountsKept
<1>3. TypeOK /\ CountsInv => CountsFollowPolicy
  BY CountsSuffice
<1> QED
  BY <1>1, <1>2, <1>3, TypeCorrect, SlaIsNeverStale, PTL DEF Spec

-----------------------------------------------------------------------------

\* The active policy is the last one set, and there is one once one was set.
ActiveIsLast ==
  \A t \in Tenants :
    /\ t \in DOMAIN active <=> Len(changes[t]) > 0
    /\ t \in DOMAIN active => active[t] = changes[t][Len(changes[t])].policy

HistoryInv == ActiveIsLast /\ HistoryIsExact

LEMMA SetActiveKeepsHistory ==
  ASSUME TypeOK, HistoryInv, NEW t \in Tenants, NEW policy \in RawPolicies,
         NEW user \in Users, SetActive(t, policy, user)
  PROVE  HistoryInv'
<1> DEFINE change == [policy |-> policy, activatedBy |-> user]
           n == Len(changes[t])
<1>1. policy \in Accepted /\ active' = Put(active, t, policy)
  BY SetActiveSteps
<1>2. change \in Change
  BY <1>1 DEF Change
<1>3. /\ changes[t] \in Seq(Change) /\ n \in Nat
      /\ changes' = [changes EXCEPT ![t] = Append(@, change)]
  BY DEF TypeOK, SetActive
<1>4. /\ Len(changes'[t]) = n + 1
      /\ changes'[t][n + 1] = change
      /\ \A i \in 1 .. n : changes'[t][i] = changes[t][i]
      /\ \A s \in Tenants \ {t} : changes'[s] = changes[s]
  <2>1. changes'[t] = Append(changes[t], change)
    BY <1>3 DEF TypeOK
  <2> HIDE DEF change
  <2> QED
    BY <1>2, <1>3, <2>1 DEF TypeOK
<1>5. ActiveIsLast'
  BY <1>1, <1>3, <1>4 DEF ActiveIsLast, HistoryInv, Put
<1>6. HistoryIsExact'
  <2>1. ASSUME NEW s \in Tenants \ {t}
        PROVE  history'[s] = history[s]
    BY <2>1 DEF SetActive, TypeOK
  <2>2. /\ history[t] \in Seq(Change)
        /\ Len(history[t]) = IF n = 0 THEN 0 ELSE Least(n - 1, MaxHistory)
        /\ \A i \in 1 .. Len(history[t]) : history[t][i].policy = changes[t][n - i].policy
    BY DEF HistoryInv, HistoryIsExact, TypeOK
  <2>3. /\ Len(history'[t]) = Least(n, MaxHistory)
        /\ \A i \in 1 .. Len(history'[t]) :
             history'[t][i].policy = changes'[t][n + 1 - i].policy
    <3>1. CASE n = 0
      <4>1. history'[t] = history[t]
        BY <1>3, <3>1 DEF SetActive, HistoryInv, ActiveIsLast
      <4> QED
        BY <2>2, <3>1, <4>1, PolicyServiceAssumption DEF Least
    <3>2. CASE n > 0
      <4> DEFINE entry == [policy |-> active[t], activatedBy |-> user]
      <4>1. /\ t \in DOMAIN active /\ active[t] \in Accepted
            /\ active[t] = changes[t][n].policy
        BY <3>2 DEF HistoryInv, ActiveIsLast, TypeOK
      <4>2. entry \in Change /\ entry.policy = changes[t][n].policy
        BY <4>1 DEF Change
      <4>3. history'[t] = Remembered(history[t], entry)
        BY <4>1 DEF SetActive, TypeOK
      <4> HIDE DEF entry
      <4>4. Len(history[t]) = Least(n - 1, MaxHistory) /\ Len(history[t]) <= MaxHistory
        BY <1>3, <2>2, <3>2, PolicyServiceAssumption DEF Least
      <4>5. /\ Len(history'[t]) = Least(Len(history[t]) + 1, MaxHistory)
            /\ \A i \in 1 .. Len(history'[t]) :
                 history'[t][i] = IF i = 1 THEN entry ELSE history[t][i - 1]
        BY <2>2, <4>2, <4>3, <4>4, RememberedEntries
      <4>6. Len(history'[t]) = Least(n, MaxHistory)
        BY <1>3, <3>2, <4>4, <4>5, PolicyServiceAssumption DEF Least
      <4>7. ASSUME NEW i \in 1 .. Len(history'[t])
            PROVE  history'[t][i].policy = changes'[t][n + 1 - i].policy
        <5>1. i \in 1 .. n /\ n + 1 - i \in 1 .. n
          BY <1>3, <4>6, <4>7, PolicyServiceAssumption DEF Least
        <5>2. changes'[t][n + 1 - i] = changes[t][n + 1 - i]
          BY <1>4, <5>1
        <5>3. CASE i = 1
          <6>1. history'[t][i] = entry /\ n + 1 - i = n
            BY <1>3, <4>5, <4>7, <5>3
          <6> QED
            BY <4>2, <5>2, <6>1
        <5>4. CASE i # 1
          <6>1. i - 1 \in 1 .. Len(history[t])
            BY <1>3, <2>2, <4>4, <4>5, <4>7, <5>4, PolicyServiceAssumption DEF Least
          <6>2. history'[t][i] = history[t][i - 1] /\ n - (i - 1) = n + 1 - i
            BY <1>3, <4>5, <4>7, <5>1, <5>4
          <6> QED
            BY <2>2, <5>2, <6>1, <6>2
        <5> QED
          BY <5>3, <5>4
      <4> QED
        BY <4>6, <4>7
    <3>3. n = 0 \/ n > 0
      BY <1>3
    <3> HIDE DEF n, change
    <3> QED
      BY <3>1, <3>2, <3>3
  <2> DEFINE Exact(s) ==
        LET m == Len(changes[s])
        IN  /\ Len(history[s]) = IF m = 0 THEN 0 ELSE Least(m - 1, MaxHistory)
            /\ \A i \in 1 .. Len(history[s]) : history[s][i].policy = changes[s][m - i].policy
  <2>4. \A s \in Tenants : Exact(s)
    BY DEF HistoryInv, HistoryIsExact
  <2>5. ASSUME NEW s \in Tenants \ {t}
        PROVE  Exact(s)'
    <3>1. history'[s] = history[s] /\ changes'[s] = changes[s]
      BY <1>4, <2>1
    <3>2. Exact(s)
      BY <2>4
    <3> QED
      BY <3>1, <3>2
  <2>6. Exact(t)'
    <3>1. n + 1 # 0 /\ n + 1 - 1 = n
      BY <1>3
    <3> QED
      BY <1>4, <2>3, <3>1
  <2>7. ((\A s \in Tenants : Exact(s)) <=> HistoryIsExact)'
    BY DEF HistoryIsExact
  <2> HIDE DEF Exact
  <2> QED
    BY <2>5, <2>6, <2>7
<1> QED
  BY <1>5, <1>6 DEF HistoryInv

\* The history of a tenant is the policies it set before the active one, newest
\* first, without gap or repetition, up to any limit.
THEOREM HistoryIsTheLog == Spec => []HistoryIsExact
<1>1. Init => HistoryInv
  BY DEF Init, HistoryInv, ActiveIsLast, HistoryIsExact
<1>2. TypeOK /\ HistoryInv /\ [Next]_vars => HistoryInv'
  <2> SUFFICES ASSUME TypeOK, HistoryInv, [Next]_vars PROVE HistoryInv'
    OBVIOUS
  <2>1. CASE UNCHANGED <<active, history, changes>>
    BY <2>1 DEF HistoryInv, ActiveIsLast, HistoryIsExact
  <2> QED
    BY <2>1, SetActiveKeepsHistory DEF Next, Rejected, Process, ReadStats, vars
<1> QED
  BY <1>1, <1>2, TypeCorrect, PTL DEF Spec, HistoryInv

\* Math.ceil((p / 100) * n) is the least rank that p percent of n samples reach, and
\* it needs no clamping: the bounds in stats() never cut it off.
THEOREM RankIsLeast ==
  ASSUME NEW p \in 1 .. 100, NEW n \in Nat \ {0}
  PROVE  /\ 100 * Rank(p, n) >= p * n
         /\ 100 * (Rank(p, n) - 1) < p * n
         /\ Rank(p, n) \in 1 .. n
<1> DEFINE m == p * n
<1>1. m \in Nat /\ m >= 1 /\ m <= 100 * n
  BY SMT
<1>2. Rank(p, n) = (m + 99) \div 100
  BY DEF Rank
<1> HIDE DEF m
<1>3. /\ 100 * ((m + 99) \div 100) >= m
      /\ 100 * (((m + 99) \div 100) - 1) < m
      /\ (m + 99) \div 100 \in 1 .. n
  BY <1>1, SMT
<1> QED
  BY <1>2, <1>3 DEF m

-----------------------------------------------------------------------------
(***************************************************************************)
(* Percentiles                                                             *)
(***************************************************************************)

\* A set of numbers that is not empty has a least one.
LEMMA LeastNumber ==
  ASSUME NEW T, T \subseteq Nat, T # {}
  PROVE  \E x \in T : \A y \in T : x <= y
<1>1. PICK x \in T : \A y \in T : ~(<<y, x>> \in OpToRel(<, Nat))
  BY WFMin, NatLessThanWellFounded
<1>2. \A y \in T : ~(y < x)
  BY <1>1 DEF OpToRel
<1> QED  BY <1>2

\* p puts the first n numbers in order.
Orders(numbers, n, p) ==
  /\ p \in Bijection(1 .. n, 1 .. n)
  /\ \A i, j \in 1 .. n : i < j => numbers[p[i]] <= numbers[p[j]]

\* Numbers with a least one at x, the others of which are in order by p, are in order when
\* it comes first.
LEMMA LeastFirst ==
  ASSUME NEW n \in Nat, NEW numbers \in [1 .. n + 1 -> Nat], NEW x \in 1 .. n + 1,
         \A i \in 1 .. n + 1 : numbers[x] <= numbers[i],
         NEW others, others = [i \in 1 .. n |-> numbers[IF i < x THEN i ELSE i + 1]],
         NEW p, Orders(others, n, p)
  PROVE  \E q : Orders(numbers, n + 1, q)
<1> DEFINE skip(i) == IF i < x THEN i ELSE i + 1
           q == [i \in 1 .. n + 1 |-> IF i = 1 THEN x ELSE skip(p[i - 1])]
<1>1. /\ p \in [1 .. n -> 1 .. n]
      /\ \A i, j \in 1 .. n : p[i] = p[j] => i = j
      /\ \A t \in 1 .. n : \E i \in 1 .. n : p[i] = t
      /\ \A i, j \in 1 .. n : i < j => others[p[i]] <= others[p[j]]
  BY DEF Orders, Bijection, Injection, Surjection, IsInjective
<1>2. ASSUME NEW i \in 1 .. n
      PROVE  /\ skip(i) \in 1 .. n + 1 /\ skip(i) # x
             /\ others[i] = numbers[skip(i)]
  <2>1. skip(i) \in 1 .. n + 1 /\ skip(i) # x
    OBVIOUS
  <2>2. others[i] = numbers[skip(i)]
    OBVIOUS
  <2> QED  BY <2>1, <2>2
<1>0. \A i, j \in 1 .. n : skip(i) = skip(j) => i = j
  OBVIOUS
<1>3. ASSUME NEW t \in 1 .. n + 1, t # x PROVE \E i \in 1 .. n : skip(i) = t
  <2>1. CASE t < x
    <3>1. t \in 1 .. n /\ skip(t) = t
      BY <2>1
    <3> QED  BY <3>1
  <2>2. CASE ~(t < x)
    <3>1. t - 1 \in 1 .. n /\ skip(t - 1) = t
      BY <1>3, <2>2
    <3> QED  BY <3>1
  <2> QED  BY <2>1, <2>2
<1>4. ASSUME NEW i \in 1 .. n + 1, i # 1 PROVE i - 1 \in 1 .. n
  BY <1>4
<1> HIDE DEF skip
<1>5. /\ q[1] = x
      /\ \A i \in 1 .. n + 1 : i # 1 => q[i] = skip(p[i - 1])
  OBVIOUS
<1>6. q \in [1 .. n + 1 -> 1 .. n + 1]
  <2> SUFFICES ASSUME NEW i \in 1 .. n + 1
               PROVE  (IF i = 1 THEN x ELSE skip(p[i - 1])) \in 1 .. n + 1
    OBVIOUS
  <2>1. i # 1 => p[i - 1] \in 1 .. n
    BY <1>1, <1>4
  <2> QED  BY <1>2, <2>1
<1> HIDE DEF q
<1>7. ASSUME NEW i \in 1 .. n + 1, NEW j \in 1 .. n + 1, q[i] = q[j] PROVE i = j
  <2>1. CASE i = 1 \/ j = 1
    <3> SUFFICES ASSUME i # j PROVE FALSE
      OBVIOUS
    <3>1. PICK k \in 1 .. n + 1 : k # 1 /\ q[k] = x
      BY <1>5, <1>7, <2>1
    <3>2. p[k - 1] \in 1 .. n
      BY <1>1, <1>4, <3>1
    <3> QED  BY <1>2, <1>5, <3>1, <3>2
  <2>2. CASE i # 1 /\ j # 1
    <3>1. i - 1 \in 1 .. n /\ j - 1 \in 1 .. n
      BY <1>4, <2>2
    <3>2. skip(p[i - 1]) = skip(p[j - 1])
      BY <1>5, <1>7, <2>2
    <3>3. p[i - 1] = p[j - 1]
      <4>1. p[i - 1] \in 1 .. n /\ p[j - 1] \in 1 .. n
        BY <1>1, <3>1
      <4> QED  BY <1>0, <3>2, <4>1
    <3>4. i - 1 = j - 1
      BY <1>1, <3>1, <3>3
    <3> QED  BY <3>4
  <2> QED  BY <2>1, <2>2
<1>8. ASSUME NEW t \in 1 .. n + 1 PROVE \E i \in 1 .. n + 1 : q[i] = t
  <2>1. CASE t = x
    <3>1. 1 \in 1 .. n + 1
      OBVIOUS
    <3> QED  BY <1>5, <2>1, <3>1
  <2>2. CASE t # x
    <3>1. PICK i \in 1 .. n : skip(i) = t
      BY <1>3, <2>2
    <3>2. PICK j \in 1 .. n : p[j] = i
      BY <1>1
    <3>3. j + 1 \in 1 .. n + 1 /\ j + 1 # 1 /\ (j + 1) - 1 = j
      OBVIOUS
    <3>4. q[j + 1] = skip(p[(j + 1) - 1])
      BY <1>5, <3>3
    <3> QED  BY <3>1, <3>2, <3>3, <3>4
  <2> QED  BY <2>1, <2>2
<1>9. ASSUME NEW i \in 1 .. n + 1, NEW j \in 1 .. n + 1, i < j
      PROVE  numbers[q[i]] <= numbers[q[j]]
  <2>1. CASE i = 1
    BY <1>5, <1>6, <2>1
  <2>2. CASE i # 1
    <3>1. /\ i - 1 \in 1 .. n /\ j - 1 \in 1 .. n /\ i - 1 < j - 1 /\ j # 1
      BY <1>4, <1>9, <2>2
    <3>2. others[p[i - 1]] <= others[p[j - 1]]
      BY <1>1, <3>1
    <3>3. p[i - 1] \in 1 .. n /\ p[j - 1] \in 1 .. n
      BY <1>1, <3>1
    <3>4. /\ others[p[i - 1]] = numbers[skip(p[i - 1])]
          /\ others[p[j - 1]] = numbers[skip(p[j - 1])]
      BY <1>2, <3>3
    <3>5. q[i] = skip(p[i - 1]) /\ q[j] = skip(p[j - 1])
      BY <1>5, <2>2, <3>1
    <3> QED  BY <3>2, <3>4, <3>5
  <2> QED  BY <2>1, <2>2
<1>10. Orders(numbers, n + 1, q)
  BY <1>6, <1>7, <1>8, <1>9 DEF Orders, Bijection, Injection, Surjection, IsInjective
<1> QED  BY <1>10

\* Any numbers can be put in order.
LEMMA OrderExists ==
  ASSUME NEW n \in Nat, NEW numbers \in [1 .. n -> Nat]
  PROVE  \E p : Orders(numbers, n, p)
<1> DEFINE Bad == {k \in Nat : \E s \in [1 .. k -> Nat] : ~ \E p : Orders(s, k, p)}
<1>1. Bad = {}
  <2> SUFFICES ASSUME Bad # {} PROVE FALSE
    OBVIOUS
  <2>1. PICK k \in Bad : \A l \in Bad : k <= l
    <3>1. Bad \subseteq Nat
      OBVIOUS
    <3> HIDE DEF Bad
    <3> QED  BY <3>1, LeastNumber
  <2>2. k \in Nat
    OBVIOUS
  <2>3. PICK s \in [1 .. k -> Nat] : ~ \E p : Orders(s, k, p)
    OBVIOUS
  <2>4. \A m \in Nat : m < k => \A others \in [1 .. m -> Nat] : \E p : Orders(others, m, p)
    <3> SUFFICES ASSUME NEW m \in Nat, m < k PROVE m \notin Bad
      OBVIOUS
    <3> HIDE DEF Bad
    <3> QED  BY <2>1, <2>2
  <2> HIDE DEF Bad
  <2>5. CASE k = 0
    <3> DEFINE p == [i \in 1 .. 0 |-> i]
    <3>1. 1 .. 0 = {}
      OBVIOUS
    <3>2. Orders(s, 0, p)
      BY <3>1 DEF Orders, Bijection, Injection, Surjection, IsInjective
    <3> QED  BY <2>3, <2>5, <3>2
  <2>6. CASE k # 0
    <3> DEFINE m == k - 1
    <3>1. m \in Nat /\ m + 1 = k /\ m < k
      BY <2>2, <2>6
    <3> DEFINE Values == {s[i] : i \in 1 .. k}
    <3>2. \E y \in Values : \A z \in Values : y <= z
      <4>1. Values \subseteq Nat /\ s[1] \in Values
        BY <2>2, <2>6
      <4> HIDE DEF Values
      <4> QED  BY <4>1, LeastNumber
    <3>3. PICK x \in 1 .. k : \A i \in 1 .. k : s[x] <= s[i]
      BY <3>2
    <3> DEFINE others == [i \in 1 .. m |-> s[IF i < x THEN i ELSE i + 1]]
    <3> HIDE DEF m
    <3>4. others \in [1 .. m -> Nat]
      BY <3>1
    <3>5. PICK p : Orders(others, m, p)
      BY <2>4, <3>1, <3>4
    <3>6. /\ s \in [1 .. m + 1 -> Nat] /\ x \in 1 .. m + 1
          /\ \A i \in 1 .. m + 1 : s[x] <= s[i]
      BY <3>1, <3>3
    <3>7. others = [i \in 1 .. m |-> s[IF i < x THEN i ELSE i + 1]]
      OBVIOUS
    <3> HIDE DEF others
    <3>8. \E q : Orders(s, m + 1, q)
      BY <3>1, <3>5, <3>6, <3>7, LeastFirst
    <3> QED  BY <2>3, <3>1, <3>8
  <2> QED  BY <2>5, <2>6
<1> QED  BY <1>1

\* What stands at a place of the sorted numbers is not less than as many of them as there
\* are places up to it, and greater than none but those before it.
LEMMA SortedRanks ==
  ASSUME NEW n \in Nat, NEW numbers \in [1 .. n -> Nat], NEW k \in 1 .. n
  PROVE  LET value == Sorted(numbers)[k]
         IN  /\ Cardinality({i \in 1 .. n : numbers[i] <= value}) \in Nat
             /\ Cardinality({i \in 1 .. n : numbers[i] < value}) \in Nat
             /\ Cardinality({i \in 1 .. n : numbers[i] <= value}) >= k
             /\ Cardinality({i \in 1 .. n : numbers[i] < value}) <= k - 1
<1> DEFINE places == 1 .. n
           ordering(p) == /\ p \in Bijection(places, places)
                          /\ \A i, j \in places : i < j => numbers[p[i]] <= numbers[p[j]]
           p == CHOOSE p \in Bijection(places, places) :
                  \A i, j \in places : i < j => numbers[p[i]] <= numbers[p[j]]
           value == Sorted(numbers)[k]
           AtMost == {i \in places : numbers[i] <= value}
           Below == {i \in places : numbers[i] < value}
<1>1. ordering(p)
  <2>1. PICK q : Orders(numbers, n, q)
    BY OrderExists
  <2>2. \E r \in Bijection(places, places) :
          \A i, j \in places : i < j => numbers[r[i]] <= numbers[r[j]]
    BY <2>1 DEF Orders
  <2> QED  BY <2>2
<1>2. value = numbers[p[k]]
  <2>1. DOMAIN numbers = places /\ k \in places
    OBVIOUS
  <2>2. Sorted(numbers) = [i \in places |-> numbers[p[i]]]
    BY <2>1 DEF Sorted
  <2> HIDE DEF p, places
  <2> QED  BY <2>1, <2>2
<1> HIDE DEF p, value
<1>3. /\ p \in [1 .. n -> 1 .. n]
      /\ \A i, j \in 1 .. n : p[i] = p[j] => i = j
      /\ \A t \in 1 .. n : \E i \in 1 .. n : p[i] = t
      /\ \A i, j \in 1 .. n : i < j => numbers[p[i]] <= numbers[p[j]]
  BY <1>1 DEF Bijection, Injection, Surjection, IsInjective
<1>4. /\ IsFiniteSet(1 .. n) /\ IsFiniteSet(1 .. k) /\ IsFiniteSet(1 .. k - 1)
      /\ Cardinality(1 .. k) = k /\ Cardinality(1 .. k - 1) = k - 1
  BY FS_Interval
<1>5. IsFiniteSet(AtMost) /\ IsFiniteSet(Below)
  BY <1>4, FS_Subset
<1>6. Cardinality(AtMost) \in Nat /\ Cardinality(Below) \in Nat
  BY <1>5, FS_CardinalityType
<1>7. Cardinality(AtMost) >= k
  <2> DEFINE f == [i \in 1 .. k |-> p[i]]
  <2>1. ASSUME NEW i \in 1 .. k PROVE p[i] \in AtMost
    <3>1. i \in 1 .. n /\ p[i] \in 1 .. n
      BY <1>3
    <3>2. CASE i = k
      <4>1. numbers[p[i]] \in Nat
        BY <3>1
      <4> QED  BY <1>2, <3>1, <3>2, <4>1
    <3>3. CASE i # k
      <4>1. i < k
        BY <3>3
      <4> QED  BY <1>2, <1>3, <3>1, <4>1
    <3> QED  BY <3>2, <3>3
  <2> HIDE DEF AtMost
  <2>2. f \in Injection(1 .. k, AtMost)
    <3>1. f \in [1 .. k -> AtMost]
      BY <2>1
    <3>2. ASSUME NEW i \in 1 .. k, NEW j \in 1 .. k, f[i] = f[j] PROVE i = j
      <4>1. i \in 1 .. n /\ j \in 1 .. n
        OBVIOUS
      <4>2. p[i] = p[j]
        BY <3>2
      <4> QED  BY <1>3, <4>1, <4>2
    <3> HIDE DEF f
    <3> QED  BY <3>1, <3>2 DEF Injection, IsInjective
  <2> HIDE DEF f
  <2>3. Cardinality(1 .. k) <= Cardinality(AtMost)
    BY <1>5, <2>2, FS_Injection
  <2> QED  BY <1>4, <1>6, <2>3
<1>8. Cardinality(Below) <= k - 1
  <2> DEFINE f == [t \in Below |-> CHOOSE i \in 1 .. n : p[i] = t]
  <2>1. ASSUME NEW t \in Below
        PROVE  f[t] \in 1 .. k - 1 /\ p[f[t]] = t
    <3>1. t \in 1 .. n /\ numbers[t] < value
      OBVIOUS
    <3>2. f[t] \in 1 .. n /\ p[f[t]] = t
      BY <1>3, <3>1
    <3> HIDE DEF f
    <3>3. f[t] < k
      <4> SUFFICES ASSUME ~(f[t] < k) PROVE FALSE
        OBVIOUS
      <4>1. f[t] = k \/ k < f[t]
        BY <3>2
      <4>3. value \in Nat /\ numbers[t] \in Nat
        BY <1>2, <1>3, <3>1
      <4> DEFINE i == f[t]
      <4> HIDE DEF i
      <4>2. value <= numbers[t]
        <5>1. i \in 1 .. n /\ p[i] = t /\ (i = k \/ k < i)
          BY <3>2, <4>1 DEF i
        <5>2. CASE i = k
          BY <1>2, <4>3, <5>1, <5>2
        <5>3. CASE k < i
          <6>1. numbers[p[k]] <= numbers[p[i]]
            BY <1>3, <5>1, <5>3
          <6> QED  BY <1>2, <5>1, <6>1
        <5> QED  BY <5>1, <5>2, <5>3
      <4> QED  BY <3>1, <4>2, <4>3
    <3> QED  BY <3>2, <3>3
  <2>2. f \in Injection(Below, 1 .. k - 1)
    <3>1. f \in [Below -> 1 .. k - 1]
      <4> DEFINE g(t) == CHOOSE i \in 1 .. n : p[i] = t
      <4>1. f = [t \in Below |-> g(t)]
        OBVIOUS
      <4>2. \A t \in Below : g(t) \in 1 .. k - 1
        BY <2>1
      <4> HIDE DEF g, f, Below
      <4> QED  BY <4>1, <4>2
    <3> HIDE DEF f
    <3>2. \A t, u \in Below : f[t] = f[u] => t = u
      BY <2>1
    <3> QED  BY <3>1, <3>2 DEF Injection, IsInjective
  <2> HIDE DEF f, Below
  <2>3. Cardinality(Below) <= Cardinality(1 .. k - 1)
    BY <1>4, <2>2, FS_Injection
  <2> QED  BY <1>4, <2>3
<1> QED  BY <1>6, <1>7, <1>8 DEF value

\* A percentile is the least of the samples in the buffer that at least p percent of them do
\* not exceed (tracker.ts:144), whatever the samples, their number and the size of the buffer.
THEOREM PercentilesAreExact == Spec => []PercentilesAreRanks
<1>1. TypeOK => PercentilesAreRanks
  <2> SUFFICES ASSUME TypeOK, NEW t \in DOMAIN detectors, NEW l \in Layers,
                      NEW p \in Percentages, Len(detectors[t][l].buffer) > 0
               PROVE  LET buffer == detectors[t][l].buffer
                          n == Len(buffer)
                          value == Percentile(buffer, p)
                      IN  /\ 100 * Cardinality({i \in 1 .. n : buffer[i] <= value}) >= p * n
                          /\ 100 * Cardinality({i \in 1 .. n : buffer[i] < value}) < p * n
    BY DEF PercentilesAreRanks
  <2> DEFINE buffer == detectors[t][l].buffer
             n == Len(buffer)
             k == Rank(p, n)
             AtMost(v) == Cardinality({i \in 1 .. n : buffer[i] <= v})
             Below(v) == Cardinality({i \in 1 .. n : buffer[i] < v})
  <2>1. buffer \in Seq(Nat)
    BY DEF TypeOK, Tracker
  <2> HIDE DEF buffer
  <2>2. n \in Nat \ {0} /\ buffer \in [1 .. n -> Nat]
    BY <2>1 DEF buffer
  <2>3. p \in 1 .. 100
    BY DEF Percentages
  <2> HIDE DEF n
  <2>4. 100 * k >= p * n /\ 100 * (k - 1) < p * n /\ k \in 1 .. n
    BY <2>2, <2>3, RankIsLeast
  <2>5. Percentile(buffer, p) = Sorted(buffer)[k]
    <3>1. ~(k < 1) /\ ~(k > n)
      BY <2>2, <2>4
    <3> HIDE DEF k
    <3> QED  BY <3>1 DEF Percentile, k, n
  <2> HIDE DEF k
  <2> DEFINE value == Percentile(buffer, p)
  <2>6. /\ AtMost(value) \in Nat /\ Below(value) \in Nat
        /\ AtMost(value) >= k /\ Below(value) <= k - 1
    BY <2>2, <2>4, <2>5, SortedRanks
  <2> HIDE DEF AtMost, Below, value
  <2>7. 100 * AtMost(value) >= p * n /\ 100 * Below(value) < p * n
    <3> DEFINE m == p * n
    <3>1. m \in Nat
      BY <2>2, <2>3
    <3>2. 100 * k >= m /\ 100 * (k - 1) < m
      BY <2>4
    <3> HIDE DEF m
    <3>3. 100 * AtMost(value) >= m /\ 100 * Below(value) < m
      BY <2>4, <2>6, <3>1, <3>2
    <3> QED  BY <3>3 DEF m
  <2> QED  BY <2>7 DEF AtMost, Below, value, n, buffer
<1> QED  BY <1>1, TypeCorrect, PTL

=============================================================================
