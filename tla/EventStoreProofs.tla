-------------------------- MODULE EventStoreProofs --------------------------
(***************************************************************************)
(* What the event store promises, for every number of tenants, outputs and *)
(* workflows, every capacity and every page size.  The maps implement the  *)
(* log of EventLog.tla: step by step, an output is an Add or an AddTwice,  *)
(* a clear() a Clear, and whatever a client reads changes nothing.  The    *)
(* index by workflow and the statistics agree with the log, and the pages  *)
(* a client is given miss nothing.  An output may be stored for several    *)
(* tenants, and but for the pages even twice for one.                      *)
(***************************************************************************)
EXTENDS EventStore, SequenceTheorems, FiniteSetTheorems, NaturalsInduction,
        WellFoundedInduction, TLAPS

\* A record of the maps.
Maps(s) ==
  s = [logs |-> s.logs, index |-> s.index, sequences |-> s.sequences,
       byFlow |-> s.byFlow, made |-> s.made]

\* The types of the maps that matter here.
Typed(s) ==
  /\ Maps(s)
  /\ s.logs \in [Tenants -> Seq(EventRecord)]
  /\ s.index = [h \in DOMAIN s.index |-> s.index[h]]
  /\ s.sequences \in [Tenants -> Nat]
  /\ s.made \in Nat

-----------------------------------------------------------------------------
(***************************************************************************)
(* Eviction, append and clear()                                            *)
(***************************************************************************)

\* Replacing one map after the other keeps the others.
LEMMA TwoReplaced ==
  ASSUME NEW s, Maps(s), NEW a, NEW b
  PROVE  [[s EXCEPT !.logs = a] EXCEPT !.index = b]
           = [logs |-> a, index |-> b, sequences |-> s.sequences, byFlow |-> s.byFlow,
              made |-> s.made]
<1> DEFINE x == [s EXCEPT !.logs = a]
<1>1. x = [logs |-> a, index |-> s.index, sequences |-> s.sequences, byFlow |-> s.byFlow,
           made |-> s.made]
  BY DEF Maps
<1> HIDE DEF x
<1>2. [x EXCEPT !.index = b]
        = [logs |-> a, index |-> b, sequences |-> s.sequences, byFlow |-> s.byFlow,
           made |-> s.made]
  BY <1>1
<1> QED  BY <1>2 DEF x

\* The same for three maps.
LEMMA FlowReplaced ==
  ASSUME NEW s, Maps(s), NEW a, NEW b, NEW c
  PROVE  [[[s EXCEPT !.logs = a] EXCEPT !.index = b] EXCEPT !.byFlow = c]
           = [logs |-> a, index |-> b, sequences |-> s.sequences, byFlow |-> c, made |-> s.made]
<1> DEFINE y == [[s EXCEPT !.logs = a] EXCEPT !.index = b]
<1>1. y = [logs |-> a, index |-> b, sequences |-> s.sequences, byFlow |-> s.byFlow,
           made |-> s.made]
  BY TwoReplaced
<1> HIDE DEF y
<1>2. [y EXCEPT !.byFlow = c]
        = [logs |-> a, index |-> b, sequences |-> s.sequences, byFlow |-> c, made |-> s.made]
  BY <1>1
<1> QED  BY <1>2 DEF y

\* What stays in the index by workflow when the oldest record of a log is evicted.
Others(log) == {r \in EventRecord : r.id # Head(log).id}

FlowWithout(flow, log) == [w \in Workflows |-> Filter(flow[w], Others(log))]

\* What eviction does to the maps.
LEMMA EvictSteps ==
  ASSUME NEW s, Typed(s), NEW t \in Tenants
  PROVE  LET e == Evict(s, t)
         IN  /\ Maps(e)
             /\ e.logs = [s.logs EXCEPT ![t] = Tail(s.logs[t])]
             /\ e.index = [h \in DOMAIN s.index \ {Head(s.logs[t]).handle} |-> s.index[h]]
             /\ e.sequences = s.sequences /\ e.made = s.made
             /\ e.byFlow = FlowWithout(s.byFlow, s.logs[t])
<1> DEFINE log == [s.logs EXCEPT ![t] = Tail(s.logs[t])]
           index == [h \in DOMAIN s.index \ {Head(s.logs[t]).handle} |-> s.index[h]]
           flow == FlowWithout(s.byFlow, s.logs[t])
<1>1. Evict(s, t) = [[[s EXCEPT !.logs = log] EXCEPT !.index = index] EXCEPT !.byFlow = flow]
  BY DEF Evict, Unindexed, Typed, Maps, Others, FlowWithout
<1> HIDE DEF log, index, flow
<1>2. Evict(s, t) = [logs |-> log, index |-> index, sequences |-> s.sequences,
                     byFlow |-> flow, made |-> s.made]
  BY <1>1, FlowReplaced DEF Typed
<1> QED  BY <1>2 DEF Maps, log, index, flow

\* The record an append makes.
RecordOf(s, t, event) ==
  [id |-> s.made + 1, partner |-> t, number |-> s.sequences[t] + 1,
   handle |-> event.handle, workflow |-> event.workflow, kind |-> event.kind]

\* The maps a are s with a record in the log of t, its index entry and its number.
Added(a, s, t, record) ==
  /\ Maps(a)
  /\ a.logs = [s.logs EXCEPT ![t] = Append(s.logs[t], record)]
  /\ a.index = [h \in DOMAIN s.index \cup {record.handle} |->
                  IF h = record.handle THEN record ELSE s.index[h]]
  /\ a.sequences = [s.sequences EXCEPT ![t] = s.sequences[t] + 1]
  /\ a.made = s.made + 1

\* What an append does, given the maps it finds or eviction leaves.
LEMMA AppendSteps ==
  ASSUME NEW s, NEW t \in Tenants, NEW event, NEW room,
         room = IF Full(s, t) THEN Evict(s, t) ELSE s,
         Typed(room), room.made = s.made, room.sequences = s.sequences
  PROVE  Added(Appended(s, t, event), room, t, RecordOf(s, t, event))
BY DEF Appended, NextNumber, Maps, Added, RecordOf

\* What clear() does to the maps.
LEMMA ClearSteps ==
  ASSUME NEW s, Maps(s), NEW t \in Tenants
  PROVE  LET c == Clear(s, t)
             l == s.logs[t]
         IN  /\ Maps(c)
             /\ c.logs = [s.logs EXCEPT ![t] = <<>>]
             /\ c.index = [h \in DOMAIN s.index \ {r.handle : r \in ToSet(l)} |-> s.index[h]]
             /\ c.sequences = [s.sequences EXCEPT ![t] = 0]
             /\ c.byFlow = [w \in Workflows |-> IF w \in {r.workflow : r \in ToSet(l)}
                                                THEN <<>> ELSE s.byFlow[w]]
             /\ c.made = s.made
<1> DEFINE c == Clear(s, t)
           l == s.logs[t]
           log == [s.logs EXCEPT ![t] = <<>>]
           index == [h \in DOMAIN s.index \ {r.handle : r \in ToSet(l)} |-> s.index[h]]
           numbers == [s.sequences EXCEPT ![t] = 0]
           flow == [w \in Workflows |-> IF w \in {r.workflow : r \in ToSet(l)}
                                        THEN <<>> ELSE s.byFlow[w]]
           x1 == [s EXCEPT !.logs = log]
           x2 == [x1 EXCEPT !.index = index]
           x3 == [x2 EXCEPT !.sequences = numbers]
<1>1. c = [x3 EXCEPT !.byFlow = flow]
  BY DEF Clear, Unindexed, Maps
<1> HIDE DEF log, index, flow, numbers, c
<1>2. x1 = [logs |-> log, index |-> s.index, sequences |-> s.sequences,
            byFlow |-> s.byFlow, made |-> s.made]
  BY DEF Maps
<1> HIDE DEF x1
<1>3. x2 = [logs |-> log, index |-> index, sequences |-> s.sequences,
            byFlow |-> s.byFlow, made |-> s.made]
  BY <1>2
<1> HIDE DEF x2
<1>4. x3 = [logs |-> log, index |-> index, sequences |-> numbers,
            byFlow |-> s.byFlow, made |-> s.made]
  BY <1>3
<1> HIDE DEF x3
<1>5. c = [logs |-> log, index |-> index, sequences |-> numbers, byFlow |-> flow,
           made |-> s.made]
  BY <1>1, <1>4
<1>6. /\ Maps(c) /\ c.logs = log /\ c.index = index /\ c.sequences = numbers
      /\ c.byFlow = flow /\ c.made = s.made
  BY <1>5 DEF Maps
<1> QED  BY <1>6 DEF c, log, index, numbers, flow

-----------------------------------------------------------------------------
(***************************************************************************)
(* What Filter returns.  It is defined by recursion on the length of the   *)
(* sequence; the inductions are about the least length at which a claim    *)
(* fails.                                                                  *)
(***************************************************************************)

\* A set of natural numbers has a least one.
LEMMA LeastNumber ==
  ASSUME NEW T, T \subseteq Nat, T # {}
  PROVE  \E x \in T : \A y \in T : x <= y
<1>1. PICK x \in T : \A y \in T : ~(<<y, x>> \in OpToRel(<, Nat))
  BY WFMin, NatLessThanWellFounded
<1>2. \A y \in T : ~(y < x)
  BY <1>1 DEF OpToRel
<1> QED  BY <1>2

KeptStep(seq, S, f, n) ==
  IF n = 0 THEN <<>> ELSE IF seq[n] \in S THEN Append(f[n - 1], seq[n]) ELSE f[n - 1]

\* f is what Filter keeps of each of the first m prefixes.
KeptUpTo(seq, S, m, f) == f = [n \in 0 .. m |-> KeptStep(seq, S, f, n)]

\* The recursion has a solution: a function on the lengths, built up from the least one.
LEMMA KeptExists ==
  ASSUME NEW seq, NEW S, NEW m \in Nat
  PROVE  \E f : KeptUpTo(seq, S, m, f)
<1> DEFINE Bad == {n \in Nat : ~ \E f : KeptUpTo(seq, S, n, f)}
<1> SUFFICES ASSUME Bad # {} PROVE FALSE
  OBVIOUS
<1>1. PICK x \in Bad : \A y \in Bad : x <= y
  <2>1. Bad \subseteq Nat
    OBVIOUS
  <2> HIDE DEF Bad
  <2> QED  BY <2>1, LeastNumber
<1>2. CASE x = 0
  <2>1. KeptUpTo(seq, S, 0, [n \in 0 .. 0 |-> <<>>])
    BY DEF KeptUpTo, KeptStep
  <2> QED  BY <1>1, <1>2, <2>1
<1>3. CASE x > 0
  <2>1. PICK g : KeptUpTo(seq, S, x - 1, g)
    BY <1>1, <1>3
  <2> DEFINE f == [n \in 0 .. x |-> IF n = x THEN KeptStep(seq, S, g, x) ELSE g[n]]
  <2>2. \A n \in 0 .. x - 1 : g[n] = KeptStep(seq, S, g, n)
    BY <2>1 DEF KeptUpTo
  <2>3. ASSUME NEW n \in 0 .. x PROVE f[n] = KeptStep(seq, S, f, n)
    <3>1. n # 0 => f[n - 1] = g[n - 1]
      BY <1>1, <1>3
    <3>2. CASE n = x
      BY <1>1, <1>3, <3>1, <3>2 DEF KeptStep
    <3>3. CASE n # x
      <4>1. n \in 0 .. x - 1 /\ f[n] = g[n]
        BY <1>1, <1>3, <3>3
      <4>2. f[n] = KeptStep(seq, S, g, n)
        BY <2>2, <4>1
      <4> HIDE DEF f
      <4> QED  BY <3>1, <4>2 DEF KeptStep
    <3> QED  BY <3>2, <3>3
  <2>4. KeptUpTo(seq, S, x, f)
    BY <2>3 DEF KeptUpTo
  <2> QED  BY <1>1, <2>4
<1> QED  BY <1>1, <1>2, <1>3

\* So the one that Filter chooses solves it.
LEMMA FilterKeeps ==
  ASSUME NEW T, NEW seq \in Seq(T), NEW S
  PROVE  \E f : KeptUpTo(seq, S, Len(seq), f) /\ Filter(seq, S) = f[Len(seq)]
<1> DEFINE f == CHOOSE f : KeptUpTo(seq, S, Len(seq), f)
<1>1. KeptUpTo(seq, S, Len(seq), f)
  BY KeptExists
<1>2. Filter(seq, S) = f[Len(seq)]
  BY DEF Filter, KeptUpTo, KeptStep
<1> QED  BY <1>1, <1>2

\* The places up to n of the elements of seq in S.
Places(seq, S, n) == {i \in 1 .. n : seq[i] \in S}

\* What out has of the first n elements of seq: those in S, all of them, in order, and no
\* more than there are.
FilteredTo(seq, S, n, out) ==
  /\ \A i \in 1 .. Len(out) : \E k \in 1 .. n : out[i] = seq[k] /\ seq[k] \in S
  /\ \A k \in 1 .. n : seq[k] \in S => \E i \in 1 .. Len(out) : out[i] = seq[k]
  /\ \A i, j \in 1 .. Len(out) :
       i < j => \E k, l \in 1 .. n : k < l /\ out[i] = seq[k] /\ out[j] = seq[l]
  /\ Len(out) = Cardinality(Places(seq, S, n))

\* One more element.
LEMMA FilteredStep ==
  ASSUME NEW T, NEW seq \in Seq(T), NEW S, NEW n \in 1 .. Len(seq), NEW out \in Seq(T),
         FilteredTo(seq, S, n - 1, out)
  PROVE  /\ seq[n] \in S => FilteredTo(seq, S, n, Append(out, seq[n]))
         /\ seq[n] \notin S => FilteredTo(seq, S, n, out)
<1>1. n \in Nat /\ n - 1 \in Nat /\ 1 .. n = (1 .. n - 1) \cup {n} /\ n \notin 1 .. n - 1
  OBVIOUS
<1>2. /\ IsFiniteSet(Places(seq, S, n - 1))
      /\ Cardinality(Places(seq, S, n - 1) \cup {n}) = Cardinality(Places(seq, S, n - 1)) + 1
  <2>1. IsFiniteSet(1 .. n - 1) /\ Places(seq, S, n - 1) \subseteq 1 .. n - 1
    BY <1>1, FS_Interval DEF Places
  <2>2. IsFiniteSet(Places(seq, S, n - 1)) /\ n \notin Places(seq, S, n - 1)
    BY <1>1, <2>1, FS_Subset
  <2> QED  BY <2>2, FS_AddElement
<1>3. Places(seq, S, n) = IF seq[n] \in S THEN Places(seq, S, n - 1) \cup {n}
                          ELSE Places(seq, S, n - 1)
  BY <1>1 DEF Places
<1>4. ASSUME seq[n] \in S PROVE FilteredTo(seq, S, n, Append(out, seq[n]))
  <2> DEFINE m == Len(out)
             new == Append(out, seq[n])
  <2>1. /\ m \in Nat /\ Len(new) = m + 1 /\ new[m + 1] = seq[n]
        /\ \A i \in 1 .. m : new[i] = out[i]
        /\ 1 .. m + 1 = (1 .. m) \cup {m + 1}
    OBVIOUS
  <2> HIDE DEF new
  <2>2. \A i \in 1 .. m : \E k \in 1 .. n - 1 : new[i] = seq[k] /\ seq[k] \in S
    <3> SUFFICES ASSUME NEW i \in 1 .. m
                 PROVE  \E k \in 1 .. n - 1 : out[i] = seq[k] /\ seq[k] \in S
      BY <2>1
    <3> QED  BY DEF FilteredTo
  <2>3. \A i \in 1 .. Len(new) : \E k \in 1 .. n : new[i] = seq[k] /\ seq[k] \in S
    BY <1>1, <1>4, <2>1, <2>2
  <2>4. \A k \in 1 .. n : seq[k] \in S => \E i \in 1 .. Len(new) : new[i] = seq[k]
    <3>1. \A k \in 1 .. n - 1 : seq[k] \in S => \E i \in 1 .. m : new[i] = seq[k]
      BY <2>1 DEF FilteredTo
    <3> QED  BY <1>1, <2>1, <3>1
  <2>5. ASSUME NEW i \in 1 .. Len(new), NEW j \in 1 .. Len(new), i < j
        PROVE  \E k, l \in 1 .. n : k < l /\ new[i] = seq[k] /\ new[j] = seq[l]
    <3>1. i \in 1 .. m
      BY <2>1, <2>5
    <3>2. CASE j = m + 1
      <4>1. PICK k \in 1 .. n - 1 : new[i] = seq[k]
        BY <2>2, <3>1
      <4>2. k \in 1 .. n /\ n \in 1 .. n /\ k < n
        BY <1>1
      <4> QED  BY <2>1, <3>2, <4>1, <4>2
    <3>3. CASE j \in 1 .. m
      <4>1. \E k, l \in 1 .. n - 1 : k < l /\ out[i] = seq[k] /\ out[j] = seq[l]
        BY <2>5, <3>1, <3>3 DEF FilteredTo
      <4> QED  BY <1>1, <2>1, <3>1, <3>3, <4>1
    <3> QED  BY <2>1, <3>2, <3>3
  <2>6. Len(new) = Cardinality(Places(seq, S, n))
    BY <1>2, <1>3, <1>4, <2>1 DEF FilteredTo
  <2>7. FilteredTo(seq, S, n, new)
    BY <2>3, <2>4, <2>5, <2>6 DEF FilteredTo
  <2> QED  BY <2>7 DEF new
<1>5. ASSUME seq[n] \notin S PROVE FilteredTo(seq, S, n, out)
  <2>1. \A i \in 1 .. Len(out) : \E k \in 1 .. n : out[i] = seq[k] /\ seq[k] \in S
    BY <1>1 DEF FilteredTo
  <2>2. \A k \in 1 .. n : seq[k] \in S => \E i \in 1 .. Len(out) : out[i] = seq[k]
    BY <1>1, <1>5 DEF FilteredTo
  <2>3. \A i, j \in 1 .. Len(out) :
          i < j => \E k, l \in 1 .. n : k < l /\ out[i] = seq[k] /\ out[j] = seq[l]
    BY <1>1 DEF FilteredTo
  <2>4. Len(out) = Cardinality(Places(seq, S, n))
    BY <1>3, <1>5 DEF FilteredTo
  <2> QED  BY <2>1, <2>2, <2>3, <2>4 DEF FilteredTo
<1> QED  BY <1>4, <1>5

\* What Filter returns.
LEMMA FilterResult ==
  ASSUME NEW T, NEW seq \in Seq(T), NEW S
  PROVE  Filter(seq, S) \in Seq(T) /\ FilteredTo(seq, S, Len(seq), Filter(seq, S))
<1>1. PICK f : KeptUpTo(seq, S, Len(seq), f) /\ Filter(seq, S) = f[Len(seq)]
  BY FilterKeeps
<1>2. \A n \in 0 .. Len(seq) : f[n] = KeptStep(seq, S, f, n)
  BY <1>1 DEF KeptUpTo
<1> DEFINE Good(n) == f[n] \in Seq(T) /\ FilteredTo(seq, S, n, f[n])
           Bad == {n \in 0 .. Len(seq) : ~Good(n)}
<1>3. Bad = {}
  <2> SUFFICES ASSUME Bad # {} PROVE FALSE
    OBVIOUS
  <2>1. PICK x \in Bad : \A y \in Bad : x <= y
    <3>1. Bad \subseteq Nat
      OBVIOUS
    <3> HIDE DEF Bad
    <3> QED  BY <3>1, LeastNumber
  <2>2. x \in 0 .. Len(seq) /\ ~Good(x)
    OBVIOUS
  <2>3. CASE x = 0
    <3>1. f[0] = <<>>
      BY <1>2, <2>2, <2>3 DEF KeptStep
    <3>2. f[0] \in Seq(T) /\ Len(f[0]) = 0 /\ Places(seq, S, 0) = {}
      BY <3>1 DEF Places
    <3>3. Len(f[0]) = Cardinality(Places(seq, S, 0))
      BY <3>2, FS_EmptySet
    <3>4. 1 .. 0 = {} /\ 1 .. Len(f[0]) = {}
      BY <3>2
    <3>5. FilteredTo(seq, S, 0, f[0])
      BY <3>3, <3>4 DEF FilteredTo
    <3> QED  BY <2>2, <2>3, <3>2, <3>5
  <2>4. CASE x # 0
    <3>1. x \in 1 .. Len(seq) /\ x - 1 \in 0 .. Len(seq) /\ x - 1 < x
      BY <2>2, <2>4
    <3>2. Good(x - 1)
      BY <2>1, <3>1
    <3>3. f[x] = IF seq[x] \in S THEN Append(f[x - 1], seq[x]) ELSE f[x - 1]
      BY <1>2, <2>4, <3>1 DEF KeptStep
    <3>4. FilteredTo(seq, S, x, f[x])
      BY <3>1, <3>2, <3>3, FilteredStep
    <3>5. f[x] \in Seq(T)
      BY <3>1, <3>2, <3>3
    <3> QED  BY <2>2, <3>4, <3>5
  <2> QED  BY <2>3, <2>4
<1>4. Good(Len(seq))
  <2>1. Len(seq) \in 0 .. Len(seq)
    OBVIOUS
  <2> QED  BY <1>3, <2>1
<1> QED  BY <1>1, <1>4

-----------------------------------------------------------------------------
(***************************************************************************)
(* The index by workflow                                                   *)
(***************************************************************************)

Has(seq, r) == \E i \in 1 .. Len(seq) : seq[i] = r

Ascending(seq) == \A i, j \in 1 .. Len(seq) : i < j => seq[i].id < seq[j].id

\* What Filter returns has what the sequence has of S.
LEMMA FilterHas ==
  ASSUME NEW T, NEW seq \in Seq(T), NEW S, NEW r
  PROVE  Has(Filter(seq, S), r) <=> Has(seq, r) /\ r \in S
<1>1. FilteredTo(seq, S, Len(seq), Filter(seq, S))
  BY FilterResult
<1> DEFINE out == Filter(seq, S)
<1> HIDE DEF out
<1>2. ASSUME Has(out, r) PROVE Has(seq, r) /\ r \in S
  BY <1>1, <1>2 DEF FilteredTo, Has, out
<1>3. ASSUME Has(seq, r), r \in S PROVE Has(out, r)
  BY <1>1, <1>3 DEF FilteredTo, Has, out
<1> QED  BY <1>2, <1>3 DEF out

\* It keeps the order of the numbers.
LEMMA FilterAscends ==
  ASSUME NEW T, NEW seq \in Seq(T), NEW S, Ascending(seq)
  PROVE  Ascending(Filter(seq, S))
<1>1. FilteredTo(seq, S, Len(seq), Filter(seq, S))
  BY FilterResult
<1> SUFFICES ASSUME NEW i \in 1 .. Len(Filter(seq, S)), NEW j \in 1 .. Len(Filter(seq, S)), i < j
             PROVE  Filter(seq, S)[i].id < Filter(seq, S)[j].id
  BY DEF Ascending
<1>2. \E k, l \in 1 .. Len(seq) :
        k < l /\ Filter(seq, S)[i] = seq[k] /\ Filter(seq, S)[j] = seq[l]
  BY <1>1 DEF FilteredTo
<1> QED  BY <1>2 DEF Ascending

\* An appended sequence has one element more.
LEMMA AppendHas ==
  ASSUME NEW T, NEW seq \in Seq(T), NEW x \in T, NEW r
  PROVE  Has(Append(seq, x), r) <=> Has(seq, r) \/ r = x
<1>1. /\ Len(Append(seq, x)) = Len(seq) + 1 /\ Append(seq, x)[Len(seq) + 1] = x
      /\ \A i \in 1 .. Len(seq) : Append(seq, x)[i] = seq[i]
      /\ 1 .. Len(seq) + 1 = (1 .. Len(seq)) \cup {Len(seq) + 1}
  BY AppendProperties
<1> QED  BY <1>1 DEF Has

\* And ascends, if that element is newer than the others.
LEMMA AppendAscends ==
  ASSUME NEW seq \in Seq(EventRecord), NEW x \in EventRecord, Ascending(seq),
         \A r \in EventRecord : Has(seq, r) => r.id < x.id
  PROVE  Ascending(Append(seq, x))
<1> DEFINE n == Len(seq)
           new == Append(seq, x)
<1>1. /\ n \in Nat /\ Len(new) = n + 1 /\ new[n + 1] = x
      /\ \A i \in 1 .. n : new[i] = seq[i] /\ seq[i] \in EventRecord
      /\ 1 .. n + 1 = (1 .. n) \cup {n + 1}
  BY AppendProperties
<1> HIDE DEF new
<1>2. \A i \in 1 .. n : seq[i].id < x.id
  BY <1>1 DEF Has
<1> SUFFICES ASSUME NEW i \in 1 .. Len(new), NEW j \in 1 .. Len(new), i < j
             PROVE  new[i].id < new[j].id
  BY DEF Ascending, new
<1>3. i \in 1 .. n
  BY <1>1
<1>4. CASE j = n + 1
  BY <1>1, <1>2, <1>3, <1>4
<1>5. CASE j \in 1 .. n
  BY <1>1, <1>3, <1>5 DEF Ascending
<1> QED  BY <1>1, <1>4, <1>5

InLog(s, t, r) == Has(s.logs[t], r)

InFlow(s, w, r) == Has(s.byFlow[w], r)

\* Each log is in the order of its records; they are its tenant's, one for an identity, and
\* were made so far.  This does not take the handles to be different: it is so however often
\* an output is stored.
LogsOK(s) ==
  /\ Typed(s)
  /\ \A t \in Tenants : Ascending(s.logs[t])
  /\ \A t \in Tenants, r \in EventRecord :
       InLog(s, t, r) => r.partner = t /\ r.id \in 1 .. s.made
  /\ \A t, u \in Tenants, r, q \in EventRecord :
       InLog(s, t, r) /\ InLog(s, u, q) /\ r.id = q.id => r = q

\* The index by workflow holds each list in the order of its records, only records that are
\* logged, of a tenant's records all that are newer than one it holds, and without clear()
\* all.
FlowOK(s) ==
  /\ s.byFlow \in [Workflows -> Seq(EventRecord)]
  /\ \A w \in Workflows : Ascending(s.byFlow[w])
  /\ \A w \in Workflows, r \in EventRecord :
       InFlow(s, w, r) => r.workflow = w /\ InLog(s, r.partner, r)
  /\ \A w \in Workflows, r, q \in EventRecord :
       InFlow(s, w, r) /\ InLog(s, r.partner, q) /\ q.workflow = w /\ r.id < q.id
         => InFlow(s, w, q)
  /\ ~Clears => \A w \in Workflows, t \in Tenants, r \in EventRecord :
                  InLog(s, t, r) /\ r.workflow = w => InFlow(s, w, r)

\* What is known of a logged record.
LEMMA LoggedRecord ==
  ASSUME NEW s, LogsOK(s), FlowOK(s),
         NEW t \in Tenants, NEW r \in EventRecord, InLog(s, t, r)
  PROVE  r.partner = t /\ r.id \in 1 .. s.made
BY DEF LogsOK

\* Records in the logs are known by their identity.
LEMMA SameId ==
  ASSUME NEW s, LogsOK(s), FlowOK(s),
         NEW t \in Tenants, NEW u \in Tenants, NEW r \in EventRecord, NEW q \in EventRecord,
         InLog(s, t, r), InLog(s, u, q), r.id = q.id
  PROVE  r = q /\ t = u
<1>1. r.partner = t /\ q.partner = u
  BY LoggedRecord
<1>2. r = q
  BY DEF LogsOK
<1> QED  BY <1>1, <1>2

\* An eviction takes the record from its list as from its log.
LEMMA EvictTakes ==
  ASSUME NEW s, LogsOK(s), FlowOK(s), NEW t \in Tenants, Full(s, t)
  PROVE  /\ \A u \in Tenants, r \in EventRecord :
              InLog(Evict(s, t), u, r) <=> InLog(s, u, r) /\ r.id # Head(s.logs[t]).id
         /\ \A w \in Workflows, r \in EventRecord :
              InFlow(Evict(s, t), w, r) <=> InFlow(s, w, r) /\ r.id # Head(s.logs[t]).id
<1> DEFINE e == Evict(s, t)
           l == s.logs[t]
           gone == Head(l)
           others == Others(l)
<1>1. /\ e.logs = [s.logs EXCEPT ![t] = Tail(l)] /\ e.made = s.made
      /\ e.byFlow = FlowWithout(s.byFlow, l)
  <2>1. Typed(s)
    BY DEF LogsOK
  <2> QED  BY <2>1, EvictSteps
<1> HIDE DEF e
<1>2. l \in Seq(EventRecord) /\ l # <<>>
  BY EventStoreAssumption DEF LogsOK, Typed, Full
<1>3. /\ Tail(l) \in Seq(EventRecord) /\ Len(Tail(l)) = Len(l) - 1 /\ gone = l[1]
      /\ \A i \in 1 .. Len(Tail(l)) : Tail(l)[i] = l[i + 1] /\ i + 1 \in 1 .. Len(l)
      /\ 1 \in 1 .. Len(l) /\ gone \in EventRecord
  BY <1>2, HeadTailProperties
<1>4. InLog(s, t, gone)
  BY <1>3 DEF InLog, Has
<1>5. e.logs[t] = Tail(l) /\ \A u \in Tenants \ {t} : e.logs[u] = s.logs[u]
  BY <1>1 DEF LogsOK, Typed
<1>6. \A u \in Tenants, r \in EventRecord :
        InLog(e, u, r) <=> InLog(s, u, r) /\ r.id # gone.id
  <2> SUFFICES ASSUME NEW u \in Tenants, NEW r \in EventRecord
               PROVE  InLog(e, u, r) <=> InLog(s, u, r) /\ r.id # gone.id
    OBVIOUS
  <2>1. CASE u # t
    <3>1. InLog(e, u, r) <=> InLog(s, u, r)
      BY <1>5, <2>1 DEF InLog
    <3>2. InLog(s, u, r) => r.id # gone.id
      BY <1>3, <1>4, <2>1, SameId
    <3> QED  BY <3>1, <3>2
  <2>2. CASE u = t
    <3>1. ASSUME InLog(e, t, r) PROVE InLog(s, t, r) /\ r.id # gone.id
      <4>1. PICK i \in 1 .. Len(Tail(l)) : Tail(l)[i] = r
        BY <1>5, <3>1 DEF InLog, Has
      <4>2. l[i + 1] = r /\ i + 1 \in 1 .. Len(l) /\ 1 < i + 1
        BY <1>3, <4>1
      <4>3. InLog(s, t, r)
        BY <4>2 DEF InLog, Has
      <4>4. gone.id < r.id
        BY <1>3, <4>2 DEF LogsOK, Ascending
      <4>5. gone.id \in 1 .. s.made /\ r.id \in 1 .. s.made
        BY <1>3, <1>4, <4>3, LoggedRecord
      <4> QED  BY <4>3, <4>4, <4>5
    <3>2. ASSUME InLog(s, t, r), r.id # gone.id PROVE InLog(e, t, r)
      <4>1. PICK i \in 1 .. Len(l) : l[i] = r
        BY <3>2 DEF InLog, Has
      <4>2. i # 1
        BY <1>3, <3>2, <4>1
      <4>3. i - 1 \in 1 .. Len(Tail(l)) /\ (i - 1) + 1 = i
        BY <1>2, <1>3, <4>1, <4>2
      <4>4. Tail(l)[i - 1] = r
        BY <1>3, <4>1, <4>3
      <4> QED  BY <1>5, <4>3, <4>4 DEF InLog, Has
    <3> QED  BY <2>2, <3>1, <3>2
  <2> QED  BY <2>1, <2>2
<1>7. \A w \in Workflows : s.byFlow[w] \in Seq(EventRecord) /\ Ascending(s.byFlow[w])
  BY DEF FlowOK
<1>8. \A w \in Workflows : e.byFlow[w] = Filter(s.byFlow[w], others)
  BY <1>1 DEF FlowWithout
<1>9. \A w \in Workflows, r \in EventRecord :
        InFlow(e, w, r) <=> InFlow(s, w, r) /\ r.id # gone.id
  <2> SUFFICES ASSUME NEW w \in Workflows, NEW r \in EventRecord
               PROVE  InFlow(e, w, r) <=> InFlow(s, w, r) /\ r.id # gone.id
    OBVIOUS
  <2>1. r \in others <=> r.id # gone.id
    BY DEF Others
  <2> HIDE DEF others
  <2>2. Has(e.byFlow[w], r) <=> Has(s.byFlow[w], r) /\ r \in others
    BY <1>7, <1>8, FilterHas
  <2> QED  BY <2>1, <2>2 DEF InFlow
<1> QED  BY <1>6, <1>9 DEF e

\* So the index by workflow stays in step.
LEMMA EvictKeepsFlow ==
  ASSUME NEW s, LogsOK(s), FlowOK(s), NEW t \in Tenants, Full(s, t)
  PROVE  FlowOK(Evict(s, t))
<1> DEFINE e == Evict(s, t)
           l == s.logs[t]
           gone == Head(l)
           others == Others(l)
<1>1. e.made = s.made /\ e.byFlow = FlowWithout(s.byFlow, l)
  <2>1. Typed(s)
    BY DEF LogsOK
  <2> QED  BY <2>1, EvictSteps
<1>6. \A u \in Tenants, r \in EventRecord : InLog(e, u, r) <=> InLog(s, u, r) /\ r.id # gone.id
  BY EvictTakes
<1>9. \A w \in Workflows, r \in EventRecord :
        InFlow(e, w, r) <=> InFlow(s, w, r) /\ r.id # gone.id
  BY EvictTakes
<1> HIDE DEF e
<1>7. \A w \in Workflows : s.byFlow[w] \in Seq(EventRecord) /\ Ascending(s.byFlow[w])
  BY DEF FlowOK
<1>8. \A w \in Workflows : e.byFlow[w] = Filter(s.byFlow[w], others)
  BY <1>1 DEF FlowWithout
<1>10. e.byFlow \in [Workflows -> Seq(EventRecord)]
  BY <1>1, <1>7, FilterResult DEF FlowWithout
<1>11. \A w \in Workflows : Ascending(e.byFlow[w])
  BY <1>7, <1>8, FilterAscends
<1> HIDE DEF others, gone, l
<1>13. \A r \in EventRecord : r.partner \in Tenants
  BY DEF EventRecord
<1>14. \A w \in Workflows, r \in EventRecord :
         InFlow(e, w, r) => r.workflow = w /\ InLog(e, r.partner, r)
  BY <1>6, <1>9, <1>13 DEF FlowOK
<1>15. \A w \in Workflows, r, q \in EventRecord :
         InFlow(e, w, r) /\ InLog(e, r.partner, q) /\ q.workflow = w /\ r.id < q.id
           => InFlow(e, w, q)
  BY <1>6, <1>9, <1>13 DEF FlowOK
<1>16. ~Clears => \A w \in Workflows, u \in Tenants, r \in EventRecord :
                    InLog(e, u, r) /\ r.workflow = w => InFlow(e, w, r)
  BY <1>6, <1>9 DEF FlowOK
<1>17. FlowOK(e)
  BY <1>10, <1>11, <1>14, <1>15, <1>16 DEF FlowOK
<1> QED  BY <1>17 DEF e

\* And the logs stay as they are but for the oldest record of one.
LEMMA EvictKeepsLogs ==
  ASSUME NEW s, LogsOK(s), FlowOK(s), NEW t \in Tenants, Full(s, t)
  PROVE  LogsOK(Evict(s, t))
<1> DEFINE e == Evict(s, t)
           l == s.logs[t]
<1>1. /\ Maps(e)
      /\ e.logs = [s.logs EXCEPT ![t] = Tail(l)]
      /\ e.index = [h \in DOMAIN s.index \ {Head(l).handle} |-> s.index[h]]
      /\ e.sequences = s.sequences /\ e.made = s.made
  BY EvictSteps DEF LogsOK
<1>2. \A u \in Tenants, r \in EventRecord : InLog(e, u, r) => InLog(s, u, r)
  BY EvictTakes
<1> HIDE DEF e
<1>3. l \in Seq(EventRecord) /\ l # <<>>
  BY EventStoreAssumption DEF LogsOK, Typed, Full
<1>4. /\ Tail(l) \in Seq(EventRecord) /\ Len(Tail(l)) = Len(l) - 1
      /\ \A i \in 1 .. Len(Tail(l)) : Tail(l)[i] = l[i + 1] /\ i + 1 \in 1 .. Len(l)
  BY <1>3, HeadTailProperties
<1>5. e.logs[t] = Tail(l) /\ \A u \in Tenants \ {t} : e.logs[u] = s.logs[u]
  BY <1>1 DEF LogsOK, Typed
<1>6. Typed(e)
  <2>1. e.logs \in [Tenants -> Seq(EventRecord)]
    BY <1>1, <1>4 DEF LogsOK, Typed
  <2>2. e.index = [h \in DOMAIN e.index |-> e.index[h]]
    BY <1>1
  <2> QED  BY <1>1, <2>1, <2>2 DEF LogsOK, Typed
<1>7. Ascending(Tail(l))
  <2> SUFFICES ASSUME NEW i \in 1 .. Len(Tail(l)), NEW j \in 1 .. Len(Tail(l)), i < j
               PROVE  Tail(l)[i].id < Tail(l)[j].id
    BY DEF Ascending
  <2>1. i + 1 \in 1 .. Len(l) /\ j + 1 \in 1 .. Len(l) /\ i + 1 < j + 1
    BY <1>4
  <2>2. l[i + 1].id < l[j + 1].id
    BY <2>1 DEF LogsOK, Ascending
  <2> QED  BY <1>4, <2>2
<1>8. \A u \in Tenants : Ascending(e.logs[u])
  BY <1>5, <1>7 DEF LogsOK
<1>9. LogsOK(e)
  BY <1>1, <1>2, <1>6, <1>8 DEF LogsOK
<1> QED  BY <1>9 DEF e

\* What an append finds: the maps with room for a record.
Room(s, t) == IF Full(s, t) THEN Evict(s, t) ELSE s

LEMMA RoomIsMade ==
  ASSUME NEW s, LogsOK(s), FlowOK(s), NEW t \in Tenants
  PROVE  LET room == Room(s, t)
         IN  /\ LogsOK(room) /\ FlowOK(room)
             /\ room.made = s.made /\ room.sequences = s.sequences
             /\ \A u \in Tenants, r \in EventRecord : InLog(room, u, r) => InLog(s, u, r)
             /\ \A w \in Workflows, r \in EventRecord : InFlow(room, w, r) => InFlow(s, w, r)
<1>1. CASE Full(s, t)
  <2>1. LogsOK(Evict(s, t)) /\ FlowOK(Evict(s, t))
    BY <1>1, EvictKeepsLogs, EvictKeepsFlow
  <2>2. Evict(s, t).made = s.made /\ Evict(s, t).sequences = s.sequences
    BY EvictSteps DEF LogsOK
  <2>3. /\ \A u \in Tenants, r \in EventRecord : InLog(Evict(s, t), u, r) => InLog(s, u, r)
        /\ \A w \in Workflows, r \in EventRecord : InFlow(Evict(s, t), w, r) => InFlow(s, w, r)
    BY <1>1, EvictTakes
  <2> QED  BY <1>1, <2>1, <2>2, <2>3 DEF Room
<1>2. CASE ~Full(s, t)
  BY <1>2 DEF Room
<1> QED  BY <1>1, <1>2

\* The record is in its list too.
FlowAdded(a, s, record) ==
  a.byFlow = [w \in Workflows |-> IF w = record.workflow
                                  THEN Append(s.byFlow[w], record) ELSE s.byFlow[w]]

\* What is in a is what is in s, and the record.
HasOneMore(a, s, t, record) ==
  /\ \A u \in Tenants, r \in EventRecord :
       InLog(a, u, r) <=> InLog(s, u, r) \/ (u = t /\ r = record)
  /\ \A w \in Workflows, r \in EventRecord :
       InFlow(a, w, r) <=> InFlow(s, w, r) \/ (w = record.workflow /\ r = record)

\* A new record is in its log and its list.
LEMMA AddGives ==
  ASSUME NEW s, LogsOK(s), FlowOK(s), NEW t \in Tenants,
         NEW record \in EventRecord, record.partner = t, record.id = s.made + 1,
         NEW a, Added(a, s, t, record), FlowAdded(a, s, record)
  PROVE  HasOneMore(a, s, t, record)
<1>1. a.logs[t] = Append(s.logs[t], record) /\ \A u \in Tenants \ {t} : a.logs[u] = s.logs[u]
  BY DEF Added, LogsOK, Typed
<1>2. \A u \in Tenants, r \in EventRecord :
        InLog(a, u, r) <=> InLog(s, u, r) \/ (u = t /\ r = record)
  <2>1. s.logs[t] \in Seq(EventRecord)
    BY DEF LogsOK, Typed
  <2>2. \A r \in EventRecord : Has(a.logs[t], r) <=> Has(s.logs[t], r) \/ r = record
    BY <1>1, <2>1, AppendHas
  <2> QED  BY <1>1, <2>2 DEF InLog
<1>3. \A w \in Workflows : s.byFlow[w] \in Seq(EventRecord)
  BY DEF FlowOK
<1>4. \A w \in Workflows, r \in EventRecord :
        InFlow(a, w, r) <=> InFlow(s, w, r) \/ (w = record.workflow /\ r = record)
  <2> SUFFICES ASSUME NEW w \in Workflows, NEW r \in EventRecord
               PROVE  Has(a.byFlow[w], r) <=>
                        Has(s.byFlow[w], r) \/ (w = record.workflow /\ r = record)
    BY DEF InFlow
  <2>1. Has(Append(s.byFlow[w], record), r) <=> Has(s.byFlow[w], r) \/ r = record
    BY <1>3, AppendHas
  <2> QED  BY <2>1 DEF FlowAdded
<1> QED  BY <1>2, <1>4 DEF HasOneMore

\* It is the newest of both.
LEMMA AddKeepsFlow ==
  ASSUME NEW s, LogsOK(s), FlowOK(s), NEW t \in Tenants,
         NEW record \in EventRecord, record.partner = t, record.id = s.made + 1,
         NEW a, Added(a, s, t, record), FlowAdded(a, s, record)
  PROVE  FlowOK(a)
<1>2. \A u \in Tenants, r \in EventRecord :
        InLog(a, u, r) <=> InLog(s, u, r) \/ (u = t /\ r = record)
  BY AddGives DEF HasOneMore
<1>4. \A w \in Workflows, r \in EventRecord :
        InFlow(a, w, r) <=> InFlow(s, w, r) \/ (w = record.workflow /\ r = record)
  BY AddGives DEF HasOneMore
<1>5. \A r \in EventRecord : r.partner \in Tenants /\ r.id \in Nat
  BY DEF EventRecord
<1>6. \A u \in Tenants, r \in EventRecord : InLog(s, u, r) => r.id < s.made + 1
  <2>1. s.made \in Nat /\ \A u \in Tenants, r \in EventRecord : InLog(s, u, r) => r.id \in 1 .. s.made
    BY LoggedRecord DEF LogsOK, Typed
  <2>2. \A i \in 1 .. s.made : i < s.made + 1
    BY <2>1
  <2> QED  BY <2>1, <2>2
<1>7. \A w \in Workflows, r \in EventRecord : InFlow(s, w, r) => r.id < s.made + 1
  BY <1>5, <1>6 DEF FlowOK
<1>8. \A w \in Workflows : a.byFlow[w] \in Seq(EventRecord) /\ Ascending(a.byFlow[w])
  <2> SUFFICES ASSUME NEW w \in Workflows
               PROVE  a.byFlow[w] \in Seq(EventRecord) /\ Ascending(a.byFlow[w])
    OBVIOUS
  <2>1. s.byFlow[w] \in Seq(EventRecord) /\ Ascending(s.byFlow[w])
    BY DEF FlowOK
  <2>2. \A r \in EventRecord : Has(s.byFlow[w], r) => r.id < record.id
    BY <1>7 DEF InFlow
  <2>3. /\ Append(s.byFlow[w], record) \in Seq(EventRecord)
        /\ Ascending(Append(s.byFlow[w], record))
    BY <2>1, <2>2, AppendAscends, AppendProperties
  <2> QED  BY <2>1, <2>3 DEF FlowAdded
<1>9. a.byFlow \in [Workflows -> Seq(EventRecord)]
  BY <1>8 DEF FlowAdded
<1>12. \A w \in Workflows, r \in EventRecord :
         InFlow(a, w, r) => r.workflow = w /\ InLog(a, r.partner, r)
  BY <1>2, <1>4, <1>5 DEF FlowOK
<1>13. ASSUME NEW w \in Workflows, NEW r \in EventRecord, NEW q \in EventRecord,
              InFlow(a, w, r), InLog(a, r.partner, q), q.workflow = w, r.id < q.id
       PROVE  InFlow(a, w, q)
  <2>1. CASE q = record
    BY <1>4, <1>13, <2>1
  <2>2. CASE q # record
    <3>1. InLog(s, r.partner, q) /\ q.id < s.made + 1
      BY <1>2, <1>5, <1>6, <1>13, <2>2
    <3>2. r # record
      BY <1>5, <1>13, <3>1
    <3>3. InFlow(s, w, r)
      BY <1>4, <1>13, <3>2
    <3>4. InFlow(s, w, q)
      BY <1>13, <3>1, <3>3 DEF FlowOK
    <3> QED  BY <1>4, <3>4
  <2> QED  BY <2>1, <2>2
<1>14. ~Clears => \A w \in Workflows, u \in Tenants, r \in EventRecord :
                    InLog(a, u, r) /\ r.workflow = w => InFlow(a, w, r)
  BY <1>2, <1>4 DEF FlowOK
<1> QED  BY <1>8, <1>9, <1>12, <1>13, <1>14 DEF FlowOK

\* So are the logs.
LEMMA AddKeepsLogs ==
  ASSUME NEW s, LogsOK(s), FlowOK(s), NEW t \in Tenants,
         NEW record \in EventRecord, record.partner = t, record.id = s.made + 1,
         NEW a, Added(a, s, t, record), FlowAdded(a, s, record)
  PROVE  LogsOK(a)
<1>1. /\ Maps(a) /\ a.made = s.made + 1
      /\ a.logs[t] = Append(s.logs[t], record) /\ \A u \in Tenants \ {t} : a.logs[u] = s.logs[u]
  BY DEF Added, LogsOK, Typed
<1>2. /\ s.logs[t] \in Seq(EventRecord) /\ Ascending(s.logs[t]) /\ s.made \in Nat
  BY DEF LogsOK, Typed
<1>3. \A u \in Tenants, r \in EventRecord :
        InLog(a, u, r) <=> InLog(s, u, r) \/ (u = t /\ r = record)
  BY AddGives DEF HasOneMore
<1>4. \A u \in Tenants, r \in EventRecord :
        InLog(s, u, r) => r.partner = u /\ r.id \in 1 .. s.made
  BY DEF LogsOK
<1>5. Typed(a)
  <2>1. Append(s.logs[t], record) \in Seq(EventRecord)
    BY <1>2
  <2>2. a.logs \in [Tenants -> Seq(EventRecord)]
    BY <2>1 DEF Added, LogsOK, Typed
  <2>3. a.sequences \in [Tenants -> Nat]
    BY DEF Added, LogsOK, Typed
  <2>4. a.index = [h \in DOMAIN a.index |-> a.index[h]]
    BY DEF Added
  <2> QED  BY <1>1, <1>2, <2>2, <2>3, <2>4 DEF Typed
<1>6. Ascending(Append(s.logs[t], record))
  <2>1. \A r \in EventRecord : Has(s.logs[t], r) => r.id < record.id
    BY <1>2, <1>4 DEF InLog
  <2> QED  BY <1>2, <2>1, AppendAscends
<1>7. \A u \in Tenants : Ascending(a.logs[u])
  BY <1>1, <1>6 DEF LogsOK
<1>8. \A u \in Tenants, r \in EventRecord :
        InLog(a, u, r) => r.partner = u /\ r.id \in 1 .. a.made
  BY <1>1, <1>2, <1>3, <1>4
<1>9. ASSUME NEW u \in Tenants, NEW v \in Tenants, NEW r \in EventRecord, NEW q \in EventRecord,
             InLog(a, u, r), InLog(a, v, q), r.id = q.id
      PROVE  r = q
  <2>1. CASE InLog(s, u, r) /\ InLog(s, v, q)
    BY <1>9, <2>1 DEF LogsOK
  <2>2. CASE InLog(s, u, r) /\ q = record
    BY <1>2, <1>4, <1>9, <2>2
  <2>3. CASE r = record /\ InLog(s, v, q)
    BY <1>2, <1>4, <1>9, <2>3
  <2> QED  BY <1>3, <1>9, <2>1, <2>2, <2>3
<1> QED  BY <1>5, <1>7, <1>8, <1>9 DEF LogsOK

\* What listeners and routes append.
IsEvent(event, handle) ==
  /\ event.handle = handle /\ handle \in Nat
  /\ event.workflow \in Workflows \cup {NoWorkflow}
  /\ event.kind \in Kinds

\* append() evicts from a full log, and adds a record with the next identity.
LEMMA AppendGives ==
  ASSUME NEW s, LogsOK(s), FlowOK(s), NEW t \in Tenants, NEW handle, NEW event,
         IsEvent(event, handle)
  PROVE  LET a == Appended(s, t, event)
             record == RecordOf(s, t, event)
             room == Room(s, t)
         IN  /\ record \in EventRecord /\ record.partner = t /\ record.handle = handle
             /\ record.id = s.made + 1 /\ record.workflow = event.workflow
             /\ Added(a, room, t, record) /\ FlowAdded(a, room, record)
             /\ HasOneMore(a, room, t, record)
<1> DEFINE a == Appended(s, t, event)
           record == RecordOf(s, t, event)
           room == Room(s, t)
<1>1. LogsOK(room) /\ FlowOK(room) /\ room.made = s.made /\ room.sequences = s.sequences
  BY RoomIsMade
<1>2. /\ record \in EventRecord /\ record.partner = t /\ record.handle = handle
      /\ record.id = s.made + 1 /\ record.workflow = event.workflow
  <2>1. s.made + 1 \in Nat /\ s.sequences[t] + 1 \in Nat
    BY DEF LogsOK, Typed
  <2> QED  BY <2>1 DEF EventRecord, RecordOf, IsEvent
<1>3. a.byFlow = [w \in Workflows |-> IF w = event.workflow
                                      THEN Append(room.byFlow[w], record) ELSE room.byFlow[w]]
  BY DEF Appended, RecordOf, NextNumber, Room
<1>4. room = IF Full(s, t) THEN Evict(s, t) ELSE s
  BY DEF Room
<1> HIDE DEF room
<1>5. Added(a, room, t, record)
  <2>1. Typed(room)
    BY <1>1 DEF LogsOK
  <2> QED  BY <1>1, <1>4, <2>1, AppendSteps
<1> HIDE DEF a, record
<1>6. FlowAdded(a, room, record)
  BY <1>2, <1>3 DEF FlowAdded
<1>7. HasOneMore(a, room, t, record)
  BY <1>1, <1>2, <1>5, <1>6, AddGives
<1> QED  BY <1>2, <1>5, <1>6, <1>7 DEF a, record, room

\* append() keeps the logs and the index by workflow in step.
LEMMA AppendKeepsFlow ==
  ASSUME NEW s, LogsOK(s), FlowOK(s), NEW t \in Tenants, NEW handle, NEW event,
         IsEvent(event, handle)
  PROVE  LogsOK(Appended(s, t, event)) /\ FlowOK(Appended(s, t, event))
<1> DEFINE a == Appended(s, t, event)
           record == RecordOf(s, t, event)
           room == Room(s, t)
<1>1. LogsOK(room) /\ FlowOK(room) /\ room.made = s.made
  BY RoomIsMade
<1>2. /\ record \in EventRecord /\ record.partner = t /\ record.id = s.made + 1
      /\ Added(a, room, t, record) /\ FlowAdded(a, room, record)
  BY AppendGives
<1> HIDE DEF a, record, room
<1>3. LogsOK(a) /\ FlowOK(a)
  BY <1>1, <1>2, AddKeepsLogs, AddKeepsFlow
<1> QED  BY <1>3 DEF a

\* It adds nothing to what is logged and listed but the one record.
LEMMA AppendAdds ==
  ASSUME NEW s, LogsOK(s), FlowOK(s), NEW t \in Tenants, NEW handle, NEW event,
         IsEvent(event, handle), NEW r \in EventRecord
  PROVE  LET a == Appended(s, t, event)
             record == RecordOf(s, t, event)
         IN  /\ \A u \in Tenants : InLog(a, u, r) => InLog(s, u, r) \/ (u = t /\ r = record)
             /\ \A w \in Workflows : InFlow(a, w, r) => InFlow(s, w, r) \/ r = record
<1>1. HasOneMore(Appended(s, t, event), Room(s, t), t, RecordOf(s, t, event))
  BY AppendGives
<1>2. /\ \A u \in Tenants : InLog(Room(s, t), u, r) => InLog(s, u, r)
      /\ \A w \in Workflows : InFlow(Room(s, t), w, r) => InFlow(s, w, r)
  BY RoomIsMade
<1> QED  BY <1>1, <1>2 DEF HasOneMore

\* clear() takes a whole list, whoever's records it holds, so what is left of a list still
\* holds all that is newer.
LEMMA ClearKeepsFlow ==
  ASSUME NEW s, LogsOK(s), FlowOK(s), NEW t \in Tenants, Clears
  PROVE  FlowOK(Clear(s, t))
<1> DEFINE c == Clear(s, t)
           l == s.logs[t]
           flows == {r.workflow : r \in ToSet(l)}
<1>1. /\ c.logs = [s.logs EXCEPT ![t] = <<>>]
      /\ c.byFlow = [w \in Workflows |-> IF w \in flows THEN <<>> ELSE s.byFlow[w]]
      /\ c.made = s.made
  BY ClearSteps DEF LogsOK, Typed
<1> HIDE DEF c
<1>2. c.logs[t] = <<>> /\ \A u \in Tenants \ {t} : c.logs[u] = s.logs[u]
  BY <1>1 DEF LogsOK, Typed
<1>3. \A r : ~Has(<<>>, r)
  BY DEF Has
<1>4. \A u \in Tenants, r \in EventRecord : InLog(c, u, r) <=> u # t /\ InLog(s, u, r)
  BY <1>2, <1>3 DEF InLog
<1>5. \A r \in EventRecord : InLog(s, t, r) => r.workflow \in flows
  <2>1. l \in Seq(EventRecord)
    BY DEF LogsOK, Typed
  <2>2. \A i \in 1 .. Len(l) : l[i] \in ToSet(l)
    BY <2>1 DEF ToSet
  <2> QED  BY <2>2 DEF InLog, Has
<1> HIDE DEF flows
<1>6. \A w \in Workflows, r \in EventRecord : InFlow(c, w, r) <=> w \notin flows /\ InFlow(s, w, r)
  BY <1>1, <1>3 DEF InFlow
<1>7. \A w \in Workflows : c.byFlow[w] \in Seq(EventRecord) /\ Ascending(c.byFlow[w])
  <2>1. <<>> \in Seq(EventRecord) /\ Ascending(<<>>)
    BY DEF Ascending
  <2> QED  BY <1>1, <2>1 DEF FlowOK
<1>8. c.byFlow \in [Workflows -> Seq(EventRecord)]
  BY <1>1, <1>7
<1>9. \A r \in EventRecord : r.partner \in Tenants
  BY DEF EventRecord
<1>11. \A w \in Workflows, r \in EventRecord :
         InFlow(c, w, r) => r.workflow = w /\ InLog(c, r.partner, r)
  BY <1>4, <1>5, <1>6, <1>9 DEF FlowOK
<1>12. \A w \in Workflows, r, q \in EventRecord :
         InFlow(c, w, r) /\ InLog(c, r.partner, q) /\ q.workflow = w /\ r.id < q.id
           => InFlow(c, w, q)
  BY <1>4, <1>6, <1>9 DEF FlowOK
<1>13. FlowOK(c)
  BY <1>7, <1>8, <1>11, <1>12 DEF FlowOK
<1> QED  BY <1>13 DEF c

\* It adds nothing to what is logged and listed.
LEMMA ClearAdds ==
  ASSUME NEW s, LogsOK(s), FlowOK(s), NEW t \in Tenants, NEW r
  PROVE  /\ \A u \in Tenants : InLog(Clear(s, t), u, r) => InLog(s, u, r)
         /\ \A w \in Workflows : InFlow(Clear(s, t), w, r) => InFlow(s, w, r)
<1> DEFINE c == Clear(s, t)
           flows == {q.workflow : q \in ToSet(s.logs[t])}
<1>1. /\ c.logs = [s.logs EXCEPT ![t] = <<>>]
      /\ c.byFlow = [w \in Workflows |-> IF w \in flows THEN <<>> ELSE s.byFlow[w]]
  BY ClearSteps DEF LogsOK, Typed
<1> HIDE DEF c, flows
<1>2. c.logs[t] = <<>> /\ \A u \in Tenants \ {t} : c.logs[u] = s.logs[u]
  BY <1>1 DEF LogsOK, Typed
<1>3. ~Has(<<>>, r)
  BY DEF Has
<1>4. \A u \in Tenants : InLog(c, u, r) => InLog(s, u, r)
  BY <1>2, <1>3 DEF InLog
<1>5. \A w \in Workflows : InFlow(c, w, r) => InFlow(s, w, r)
  BY <1>1, <1>3 DEF InFlow
<1> QED  BY <1>4, <1>5 DEF c

\* clear() empties a log.
LEMMA ClearKeepsLogs ==
  ASSUME NEW s, LogsOK(s), FlowOK(s), NEW t \in Tenants
  PROVE  LogsOK(Clear(s, t))
<1> DEFINE c == Clear(s, t)
<1>1. /\ Maps(c)
      /\ c.logs = [s.logs EXCEPT ![t] = <<>>]
      /\ c.index = [h \in DOMAIN s.index \ {r.handle : r \in ToSet(s.logs[t])} |-> s.index[h]]
      /\ c.sequences = [s.sequences EXCEPT ![t] = 0]
      /\ c.made = s.made
  BY ClearSteps DEF LogsOK, Typed
<1>2. \A u \in Tenants, r \in EventRecord : InLog(c, u, r) => InLog(s, u, r)
  BY ClearAdds
<1> HIDE DEF c
<1>3. Typed(c)
  <2>1. c.logs \in [Tenants -> Seq(EventRecord)] /\ c.sequences \in [Tenants -> Nat]
    BY <1>1 DEF LogsOK, Typed
  <2>2. c.index = [h \in DOMAIN c.index |-> c.index[h]]
    BY <1>1
  <2> QED  BY <1>1, <2>1, <2>2 DEF LogsOK, Typed
<1>4. \A u \in Tenants : Ascending(c.logs[u])
  <2>1. Ascending(<<>>)
    BY DEF Ascending
  <2>2. c.logs[t] = <<>> /\ \A u \in Tenants \ {t} : c.logs[u] = s.logs[u]
    BY <1>1 DEF LogsOK, Typed
  <2> QED  BY <2>1, <2>2 DEF LogsOK
<1>5. LogsOK(c)
  BY <1>1, <1>2, <1>3, <1>4 DEF LogsOK
<1> QED  BY <1>5 DEF c

-----------------------------------------------------------------------------
(***************************************************************************)
(* Sequences agree with the log                                            *)
(***************************************************************************)

\* In a sequence that ascends, places are in the order of the numbers.
LEMMA AscendingPlaces ==
  ASSUME NEW seq \in Seq(EventRecord), Ascending(seq),
         NEW i \in 1 .. Len(seq), NEW j \in 1 .. Len(seq)
  PROVE  seq[i].id < seq[j].id <=> i < j
<1>1. seq[i].id \in Nat /\ seq[j].id \in Nat
  <2>1. seq[i] \in EventRecord /\ seq[j] \in EventRecord
    OBVIOUS
  <2> QED  BY <2>1 DEF EventRecord
<1>2. i < j => seq[i].id < seq[j].id
  BY DEF Ascending
<1>3. j < i => seq[j].id < seq[i].id
  BY DEF Ascending
<1> QED  BY <1>1, <1>2, <1>3

\* Read from their ends, a is what b is.
SameEnd(a, b) ==
  \A k \in 0 .. Len(a) - 1 : k < Len(b) /\ a[Len(a) - k] = b[Len(b) - k]

\* Of two sequences in the order of their records, the one that holds of the other all that
\* is newer than one it holds is its end.
LEMMA UpwardClosedIsEnd ==
  ASSUME NEW a \in Seq(EventRecord), NEW b \in Seq(EventRecord), Ascending(a), Ascending(b),
         \A r \in EventRecord : Has(a, r) => Has(b, r),
         \A r, q \in EventRecord : Has(a, r) /\ Has(b, q) /\ r.id < q.id => Has(a, q)
  PROVE  SameEnd(a, b)
<1> DEFINE m == Len(a)
           n == Len(b)
           Bad == {k \in 0 .. m - 1 : ~(k < n /\ a[m - k] = b[n - k])}
<1>1. m \in Nat /\ n \in Nat
  OBVIOUS
<1> SUFFICES ASSUME Bad # {} PROVE FALSE
  BY DEF SameEnd
<1>2. PICK k \in Bad : \A l \in Bad : k <= l
  <2>1. Bad \subseteq Nat
    BY <1>1
  <2> HIDE DEF Bad
  <2> QED  BY <2>1, LeastNumber
<1>3. k \in 0 .. m - 1 /\ ~(k < n /\ a[m - k] = b[n - k])
  OBVIOUS
<1>4. \A l \in 0 .. m - 1 : l < k => l < n /\ a[m - l] = b[n - l]
  BY <1>1, <1>2, <1>3
<1> HIDE DEF m, n, Bad
<1> DEFINE p == m - k
<1>5. p \in 1 .. m
  BY <1>1, <1>3
<1>6. a[p] \in EventRecord /\ Has(a, a[p])
  BY <1>1, <1>5 DEF Has, m
<1>7. PICK j \in 1 .. n : b[j] = a[p]
  BY <1>6 DEF Has, n
<1>8. j <= n - k
  <2>1. CASE k = 0
    BY <1>1, <1>7, <2>1
  <2>2. CASE k > 0
    <3>1. k - 1 \in 0 .. m - 1 /\ k - 1 < k /\ m - (k - 1) = p + 1 /\ p + 1 \in 1 .. m
      BY <1>1, <1>3, <2>2
    <3>2. k - 1 < n /\ a[m - (k - 1)] = b[n - (k - 1)]
      BY <1>4, <3>1
    <3>3. k - 1 < n /\ a[p + 1] = b[n - (k - 1)]
      BY <3>1, <3>2
    <3>4. n - (k - 1) \in 1 .. n
      BY <1>1, <1>3, <2>2, <3>3
    <3>5. a[p].id < a[p + 1].id
      BY <1>5, <3>1 DEF Ascending, m
    <3>6. b[j].id < b[n - (k - 1)].id
      BY <1>7, <3>3, <3>5
    <3>7. j < n - (k - 1)
      BY <1>7, <3>4, <3>6, AscendingPlaces DEF n
    <3> QED  BY <1>1, <1>3, <1>7, <2>2, <3>7
  <2> QED  BY <1>3, <2>1, <2>2
<1>9. k < n /\ n - k \in 1 .. n
  BY <1>1, <1>3, <1>7, <1>8
<1>10. j < n - k
  BY <1>1, <1>3, <1>7, <1>8, <1>9
<1> DEFINE q == b[n - k]
<1>11. q \in EventRecord /\ Has(b, q)
  BY <1>9 DEF Has, n
<1>12. a[p].id < q.id
  BY <1>7, <1>9, <1>10 DEF Ascending, n
<1>13. PICK i \in 1 .. m : a[i] = q
  BY <1>6, <1>11, <1>12 DEF Has, m
<1> HIDE DEF p, q
<1>14. p < i
  BY <1>5, <1>12, <1>13, AscendingPlaces DEF m
<1>15. CASE k = 0
  BY <1>1, <1>13, <1>14, <1>15 DEF p
<1>16. CASE k > 0
  <2>1. k - 1 \in 0 .. m - 1 /\ k - 1 < k /\ m - (k - 1) = p + 1 /\ p + 1 \in 1 .. m
    BY <1>1, <1>3, <1>16 DEF p
  <2>2. k - 1 < n /\ a[m - (k - 1)] = b[n - (k - 1)]
    BY <1>4, <2>1
  <2>3. a[p + 1] = b[n - (k - 1)]
    BY <2>1, <2>2
  <2>4. n - (k - 1) \in 1 .. n /\ n - k < n - (k - 1)
    BY <1>1, <1>3, <1>16, <2>2
  <2>5. q.id < b[n - (k - 1)].id
    BY <1>9, <2>4 DEF Ascending, n, q
  <2>6. a[i].id < a[p + 1].id
    BY <1>13, <2>3, <2>5
  <2>7. i < p + 1
    BY <1>13, <2>1, <2>6, AscendingPlaces DEF m
  <2> QED  BY <1>5, <1>13, <1>14, <2>7
<1> QED  BY <1>3, <1>15, <1>16

\* That is what a suffix is.
LEMMA EndIsSuffix ==
  ASSUME NEW T, NEW a \in Seq(T), NEW b \in Seq(T), SameEnd(a, b)
  PROVE  IsSuffix(a, b)
<1> DEFINE m == Len(a)
           n == Len(b)
<1>1. m \in Nat /\ n \in Nat
  OBVIOUS
<1>2. m <= n
  <2>1. m > 0 => m - 1 < n
    BY <1>1 DEF SameEnd
  <2> QED  BY <1>1, <2>1
<1>3. /\ Reverse(a) \in Seq(T) /\ Len(Reverse(a)) = m
      /\ \A i \in 1 .. m : Reverse(a)[i] = a[(m - i) + 1]
  BY <1>1 DEF Reverse
<1>4. /\ Reverse(b) \in Seq(T) /\ Len(Reverse(b)) = n
      /\ \A i \in 1 .. n : Reverse(b)[i] = b[(n - i) + 1]
  BY <1>1 DEF Reverse
<1>5. ASSUME NEW i \in 1 .. m PROVE Reverse(a)[i] = Reverse(b)[i]
  <2>1. /\ i - 1 \in 0 .. m - 1 /\ (m - i) + 1 = m - (i - 1) /\ (n - i) + 1 = n - (i - 1)
        /\ i \in 1 .. n
    BY <1>1, <1>2
  <2>2. a[m - (i - 1)] = b[n - (i - 1)]
    BY <2>1 DEF SameEnd
  <2> HIDE DEF m, n
  <2> QED  BY <1>3, <1>4, <2>1, <2>2
<1> HIDE DEF m, n
<1>6. SubSeq(Reverse(a), 1, m) = SubSeq(Reverse(b), 1, m)
  BY <1>1, <1>2, <1>3, <1>4, <1>5
<1> QED  BY <1>2, <1>3, <1>4, <1>6 DEF IsSuffix, IsPrefix

\* If it holds all, it is the same.
LEMMA CompleteIsSame ==
  ASSUME NEW a \in Seq(EventRecord), NEW b \in Seq(EventRecord), Ascending(a), Ascending(b),
         SameEnd(a, b), \A r \in EventRecord : Has(b, r) => Has(a, r)
  PROVE  a = b
<1> DEFINE m == Len(a)
           n == Len(b)
<1>1. m \in Nat /\ n \in Nat
  OBVIOUS
<1>2. m <= n
  <2>1. m > 0 => m - 1 < n
    BY <1>1 DEF SameEnd
  <2> QED  BY <1>1, <2>1
<1>3. m = n
  <2> SUFFICES ASSUME m < n PROVE FALSE
    BY <1>1, <1>2
  <2>1. 1 \in 1 .. n /\ b[1] \in EventRecord
    BY <1>1
  <2>2. Has(b, b[1])
    BY <2>1 DEF Has
  <2>3. PICK i \in 1 .. m : a[i] = b[1]
    BY <2>1, <2>2 DEF Has
  <2>4. m - i \in 0 .. m - 1 /\ m - (m - i) = i /\ n - (m - i) \in 1 .. n /\ 1 < n - (m - i)
    BY <1>1
  <2>5. a[m - (m - i)] = b[n - (m - i)]
    BY <2>4 DEF SameEnd
  <2>6. a[i] = b[n - (m - i)]
    BY <2>4, <2>5
  <2>7. b[1].id < b[n - (m - i)].id
    BY <2>1, <2>4 DEF Ascending
  <2>8. b[1].id < b[1].id
    BY <2>3, <2>6, <2>7
  <2>9. b[1].id \in Nat
    BY <2>1 DEF EventRecord
  <2> QED  BY <2>8, <2>9
<1>4. ASSUME NEW i \in 1 .. m PROVE a[i] = b[i]
  <2>1. m - i \in 0 .. m - 1 /\ m - (m - i) = i /\ n - (m - i) = i
    BY <1>1, <1>3
  <2>2. a[m - (m - i)] = b[n - (m - i)]
    BY <2>1 DEF SameEnd
  <2> QED  BY <2>1, <2>2
<1> QED  BY <1>3, <1>4

\* The records of workflow w, and of tenant t.
OfFlow(w) == {r \in EventRecord : r.workflow = w}
OfTenant(t) == {r \in EventRecord : r.partner = t}

\* A log is in the order of its records.
LEMMA LogAscends ==
  ASSUME NEW s, LogsOK(s), NEW t \in Tenants
  PROVE  s.logs[t] \in Seq(EventRecord) /\ Ascending(s.logs[t])
BY DEF LogsOK, Typed

\* What a tenant reads of a workflow is the end of what its log has of it.
LEMMA SequenceIsEnd ==
  ASSUME NEW s, LogsOK(s), FlowOK(s), NEW t \in Tenants, NEW w \in Workflows
  PROVE  LET a == getSequence(s, t, w)
             b == Filter(s.logs[t], OfFlow(w))
         IN  /\ a \in Seq(EventRecord) /\ b \in Seq(EventRecord) /\ Ascending(a) /\ Ascending(b)
             /\ SameEnd(a, b)
             /\ \A r \in EventRecord : Has(a, r) <=> InFlow(s, w, r) /\ r.partner = t
             /\ \A r \in EventRecord : Has(b, r) <=> InLog(s, t, r) /\ r.workflow = w
             /\ ~Clears => a = b
<1> DEFINE a == getSequence(s, t, w)
           b == Filter(s.logs[t], OfFlow(w))
<1>1. /\ s.logs[t] \in Seq(EventRecord) /\ s.byFlow[w] \in Seq(EventRecord)
      /\ Ascending(s.byFlow[w])
  BY DEF LogsOK, Typed, FlowOK
<1>2. Ascending(s.logs[t])
  BY LogAscends
<1>3. a = Filter(s.byFlow[w], OfTenant(t))
  BY DEF getSequence, OfTenant
<1> HIDE DEF a
<1>4. a \in Seq(EventRecord) /\ b \in Seq(EventRecord)
  BY <1>1, <1>3, FilterResult
<1>5. Ascending(a) /\ Ascending(b)
  BY <1>1, <1>2, <1>3, FilterAscends
<1>6. \A r \in EventRecord : Has(a, r) <=> InFlow(s, w, r) /\ r.partner = t
  <2> SUFFICES ASSUME NEW r \in EventRecord
               PROVE  Has(a, r) <=> InFlow(s, w, r) /\ r.partner = t
    OBVIOUS
  <2>1. Has(a, r) <=> Has(s.byFlow[w], r) /\ r \in OfTenant(t)
    BY <1>1, <1>3, FilterHas
  <2> QED  BY <2>1 DEF InFlow, OfTenant
<1>7. \A r \in EventRecord : Has(b, r) <=> InLog(s, t, r) /\ r.workflow = w
  <2> SUFFICES ASSUME NEW r \in EventRecord
               PROVE  Has(b, r) <=> InLog(s, t, r) /\ r.workflow = w
    OBVIOUS
  <2>1. Has(b, r) <=> Has(s.logs[t], r) /\ r \in OfFlow(w)
    BY <1>1, FilterHas
  <2> QED  BY <2>1 DEF InLog, OfFlow
<1> HIDE DEF b
<1>8. \A r \in EventRecord : Has(a, r) => Has(b, r)
  BY <1>6, <1>7 DEF FlowOK
<1>9. ASSUME NEW r \in EventRecord, NEW q \in EventRecord, Has(a, r), Has(b, q), r.id < q.id
      PROVE  Has(a, q)
  <2>1. InFlow(s, w, r) /\ r.partner = t /\ InLog(s, t, q) /\ q.workflow = w
    BY <1>6, <1>7, <1>9
  <2>2. InFlow(s, w, q) /\ q.partner = t
    BY <1>9, <2>1, LoggedRecord DEF FlowOK
  <2> QED  BY <1>6, <2>2
<1>10. SameEnd(a, b)
  BY <1>4, <1>5, <1>8, <1>9, UpwardClosedIsEnd
<1>11. ASSUME ~Clears PROVE a = b
  <2>1. \A r \in EventRecord : Has(b, r) => Has(a, r)
    <3> SUFFICES ASSUME NEW r \in EventRecord, Has(b, r) PROVE Has(a, r)
      OBVIOUS
    <3>1. InLog(s, t, r) /\ r.workflow = w
      BY <1>7
    <3>2. InFlow(s, w, r) /\ r.partner = t
      BY <1>11, <3>1, LoggedRecord DEF FlowOK
    <3> QED  BY <1>6, <3>2
  <2> QED  BY <1>4, <1>5, <1>10, <2>1, CompleteIsSame
<1> QED  BY <1>4, <1>5, <1>6, <1>7, <1>10, <1>11 DEF a, b

-----------------------------------------------------------------------------
(***************************************************************************)
(* The tallies                                                             *)
(***************************************************************************)

\* The sum of the tallies of a set of kinds, as the library folds it.
TallyStep(tally, f, kinds) ==
  IF kinds = {} THEN 0
  ELSE LET k == CHOOSE k \in kinds : TRUE IN tally[k] + f[kinds \ {k}]

SumOver(tally, S) == MapThenSumSet(LAMBDA k : tally[k], S)

IsSum(tally, S, f) == f = [kinds \in SUBSET S |-> TallyStep(tally, f, kinds)]

Small(S, m) == {kinds \in SUBSET S : Cardinality(kinds) <= m}

IsSumUpTo(tally, S, m, f) == f = [kinds \in Small(S, m) |-> TallyStep(tally, f, kinds)]

\* The fold of the library is a recursion on sets: it has a solution, built up from the
\* empty set.
LEMMA SumUpToExists ==
  ASSUME NEW tally, NEW S, IsFiniteSet(S), NEW m \in Nat
  PROVE  \E f : IsSumUpTo(tally, S, m, f)
<1> DEFINE Bad == {n \in Nat : ~ \E f : IsSumUpTo(tally, S, n, f)}
<1> SUFFICES ASSUME Bad # {} PROVE FALSE
  OBVIOUS
<1>1. PICK x \in Bad : \A y \in Bad : x <= y
  <2>1. Bad \subseteq Nat
    OBVIOUS
  <2> HIDE DEF Bad
  <2> QED  BY <2>1, LeastNumber
<1>2. x \in Nat /\ ~ \E f : IsSumUpTo(tally, S, x, f)
  OBVIOUS
<1>3. \A kinds \in SUBSET S : /\ IsFiniteSet(kinds) /\ Cardinality(kinds) \in Nat
                              /\ Cardinality(kinds) = 0 <=> kinds = {}
  BY FS_Subset, FS_CardinalityType, FS_EmptySet
<1>4. CASE x = 0
  <2>1. Small(S, 0) = {{}}
    BY <1>3 DEF Small
  <2>2. IsSumUpTo(tally, S, 0, [kinds \in Small(S, 0) |-> 0])
    BY <2>1 DEF IsSumUpTo, TallyStep
  <2> QED  BY <1>2, <1>4, <2>2
<1>5. CASE x > 0
  <2>0. x - 1 \in Nat /\ x - 1 < x
    BY <1>2, <1>5
  <2>1. PICK g : IsSumUpTo(tally, S, x - 1, g)
    BY <1>1, <1>2, <2>0
  <2> DEFINE f == [kinds \in Small(S, x) |-> TallyStep(tally, g, kinds)]
  <2>2. \A kinds \in Small(S, x - 1) : g[kinds] = TallyStep(tally, g, kinds)
    BY <2>1 DEF IsSumUpTo
  <2>3. Small(S, x - 1) \subseteq Small(S, x)
    BY <1>2, <1>3, <2>0 DEF Small
  <2>4. \A kinds \in Small(S, x - 1) : f[kinds] = g[kinds]
    BY <2>2, <2>3
  <2>5. ASSUME NEW kinds \in Small(S, x)
        PROVE  TallyStep(tally, g, kinds) = TallyStep(tally, f, kinds)
    <3>1. CASE kinds = {}
      BY <3>1 DEF TallyStep
    <3>2. CASE kinds # {}
      <4> DEFINE k == CHOOSE k \in kinds : TRUE
      <4>1. k \in kinds /\ kinds \in SUBSET S /\ Cardinality(kinds) <= x
        BY <3>2 DEF Small
      <4> HIDE DEF k
      <4>2. Cardinality(kinds \ {k}) = Cardinality(kinds) - 1 /\ kinds \ {k} \in SUBSET S
        BY <1>3, <4>1, FS_RemoveElement
      <4>3. kinds \ {k} \in Small(S, x - 1)
        BY <1>2, <1>3, <4>1, <4>2 DEF Small
      <4>4. f[kinds \ {k}] = g[kinds \ {k}]
        BY <2>4, <4>3
      <4> HIDE DEF f
      <4> QED  BY <3>2, <4>4 DEF TallyStep, k
    <3> QED  BY <3>1, <3>2
  <2>6. IsSumUpTo(tally, S, x, f)
    BY <2>5 DEF IsSumUpTo
  <2> QED  BY <1>2, <2>6
<1> QED  BY <1>2, <1>4, <1>5

\* On all subsets of a finite set.
LEMMA SumExists ==
  ASSUME NEW tally, NEW S, IsFiniteSet(S)
  PROVE  \E f : IsSum(tally, S, f)
<1>1. Cardinality(S) \in Nat /\ Small(S, Cardinality(S)) = SUBSET S
  BY FS_Subset, FS_CardinalityType DEF Small
<1>2. PICK f : IsSumUpTo(tally, S, Cardinality(S), f)
  BY <1>1, SumUpToExists
<1> QED  BY <1>1, <1>2 DEF IsSum, IsSumUpTo

\* So the sum is the value of a solution.
LEMMA SumSums ==
  ASSUME NEW tally, NEW S, IsFiniteSet(S)
  PROVE  \E f : IsSum(tally, S, f) /\ SumOver(tally, S) = f[S]
<1> DEFINE f == CHOOSE f : IsSum(tally, S, f)
<1>1. IsSum(tally, S, f)
  BY SumExists
<1>2. SumOver(tally, S) = f[S]
  BY DEF SumOver, IsSum, TallyStep, MapThenSumSet, MapThenFoldSet
<1> QED  BY <1>1, <1>2

\* The places of a log whose records are of these kinds, and the tally of each kind.
PlacesOf(log, kinds) == {i \in 1 .. Len(log) : log[i].kind \in kinds}

TallyOf(log) == [k \in Kinds |-> Len(Filter(log, {r \in EventRecord : r.kind = k}))]

\* A tally counts the places of its kind.
LEMMA TallyCounts ==
  ASSUME NEW log \in Seq(EventRecord), NEW k \in Kinds
  PROVE  TallyOf(log)[k] = Cardinality(PlacesOf(log, {k}))
<1> DEFINE S == {r \in EventRecord : r.kind = k}
           out == Filter(log, S)
<1>1. Len(out) = Cardinality(Places(log, S, Len(log)))
  <2>1. FilteredTo(log, S, Len(log), out)
    BY FilterResult
  <2> QED  BY <2>1 DEF FilteredTo
<1>2. Places(log, S, Len(log)) = PlacesOf(log, {k})
  BY DEF Places, PlacesOf
<1>3. TallyOf(log)[k] = Len(out)
  BY DEF TallyOf
<1> QED  BY <1>1, <1>2, <1>3

\* The tallies of any of the kinds add up to the number of records of these kinds.
LEMMA TalliesAddUp ==
  ASSUME NEW log \in Seq(EventRecord), NEW f, IsSum(TallyOf(log), Kinds, f)
  PROVE  f[Kinds] = Len(log)
<1> DEFINE Bad == {n \in Nat : \E kinds \in SUBSET Kinds :
                     Cardinality(kinds) = n /\ f[kinds] # Cardinality(PlacesOf(log, kinds))}
<1>1. \A kinds : IsFiniteSet(PlacesOf(log, kinds)) /\ Cardinality(PlacesOf(log, kinds)) \in Nat
  <2> SUFFICES ASSUME NEW kinds
               PROVE  IsFiniteSet(PlacesOf(log, kinds)) /\ Cardinality(PlacesOf(log, kinds)) \in Nat
    OBVIOUS
  <2>1. IsFiniteSet(1 .. Len(log)) /\ PlacesOf(log, kinds) \in SUBSET (1 .. Len(log))
    BY FS_Interval DEF PlacesOf
  <2> QED  BY <2>1, FS_Subset, FS_CardinalityType
<1>2. \A kinds \in SUBSET Kinds : IsFiniteSet(kinds) /\ Cardinality(kinds) \in Nat
  BY EventStoreAssumption, FS_Subset, FS_CardinalityType
<1>3. \A kinds \in SUBSET Kinds : f[kinds] = TallyStep(TallyOf(log), f, kinds)
  BY DEF IsSum
<1>4. Bad = {}
  <2> SUFFICES ASSUME Bad # {} PROVE FALSE
    OBVIOUS
  <2>1. PICK x \in Bad : \A y \in Bad : x <= y
    <3>1. Bad \subseteq Nat
      OBVIOUS
    <3> HIDE DEF Bad
    <3> QED  BY <3>1, LeastNumber
  <2>2. PICK kinds \in SUBSET Kinds :
          Cardinality(kinds) = x /\ f[kinds] # Cardinality(PlacesOf(log, kinds))
    OBVIOUS
  <2>3. CASE kinds = {}
    <3>1. f[kinds] = 0 /\ PlacesOf(log, kinds) = {}
      BY <1>3, <2>3 DEF TallyStep, PlacesOf
    <3> QED  BY <2>2, <3>1, FS_EmptySet
  <2>4. CASE kinds # {}
    <3> DEFINE k == CHOOSE k \in kinds : TRUE
               rest == kinds \ {k}
    <3>1. k \in kinds /\ k \in Kinds
      BY <2>4
    <3>2. f[kinds] = TallyOf(log)[k] + f[rest]
      BY <1>3, <2>4 DEF TallyStep
    <3> HIDE DEF k
    <3>3. rest \in SUBSET Kinds /\ Cardinality(rest) = Cardinality(kinds) - 1
      BY <1>2, <3>1, FS_RemoveElement
    <3>4. f[rest] = Cardinality(PlacesOf(log, rest))
      <4>1. Cardinality(rest) \in Nat /\ Cardinality(rest) < x
        BY <1>2, <2>2, <3>3
      <4>2. Cardinality(rest) \notin Bad
        <5>1. x \in Nat
          OBVIOUS
        <5> HIDE DEF Bad, rest
        <5> QED  BY <2>1, <4>1, <5>1
      <4> QED  BY <3>3, <4>1, <4>2
    <3>5. TallyOf(log)[k] = Cardinality(PlacesOf(log, {k}))
      BY <3>1, TallyCounts
    <3>6. /\ PlacesOf(log, kinds) = PlacesOf(log, {k}) \cup PlacesOf(log, rest)
          /\ PlacesOf(log, {k}) \cap PlacesOf(log, rest) = {}
      BY <3>1 DEF PlacesOf
    <3> DEFINE one == PlacesOf(log, {k})
               others == PlacesOf(log, rest)
    <3>7. Cardinality(PlacesOf(log, kinds)) = Cardinality(one) + Cardinality(others)
      <4>1. /\ IsFiniteSet(one) /\ IsFiniteSet(others)
            /\ Cardinality(one) \in Nat /\ Cardinality(others) \in Nat
        BY <1>1
      <4>2. PlacesOf(log, kinds) = one \cup others /\ one \cap others = {}
        BY <3>6
      <4> HIDE DEF one, others
      <4>3. Cardinality(one \cup others)
              = Cardinality(one) + Cardinality(others) - Cardinality(one \cap others)
        BY <4>1, FS_Union
      <4>4. Cardinality(one \cap others) = 0
        BY <4>2, FS_EmptySet
      <4> QED  BY <4>1, <4>2, <4>3, <4>4
    <3> QED  BY <1>1, <2>2, <3>2, <3>4, <3>5, <3>7
  <2> QED  BY <2>3, <2>4
<1>5. f[Kinds] = Cardinality(PlacesOf(log, Kinds))
  BY <1>2, <1>4
<1>6. PlacesOf(log, Kinds) = 1 .. Len(log)
  <2>1. \A i \in 1 .. Len(log) : log[i] \in EventRecord
    OBVIOUS
  <2>2. \A i \in 1 .. Len(log) : log[i].kind \in Kinds
    BY <2>1 DEF EventRecord
  <2> QED  BY <2>2 DEF PlacesOf
<1>7. Cardinality(1 .. Len(log)) = Len(log)
  <2> DEFINE n == Len(log)
  <2>1. n \in Nat
    OBVIOUS
  <2> HIDE DEF n
  <2>2. Cardinality(1 .. n) = IF 1 > n THEN 0 ELSE n - 1 + 1
    BY <2>1, FS_Interval
  <2>3. Cardinality(1 .. n) = n
    BY <2>1, <2>2
  <2> QED  BY <2>3 DEF n
<1> QED  BY <1>5, <1>6, <1>7

\* A log shorter than the limit has the records numbered so far, another is full.
Lengths(s) ==
  \A t \in Tenants : Len(s.logs[t]) = IF s.sequences[t] < Capacity THEN s.sequences[t]
                                      ELSE Capacity

\* An append numbers one more and evicts only from a full log.
LEMMA AppendKeepsLengths ==
  ASSUME NEW s, LogsOK(s), FlowOK(s), Lengths(s), NEW t \in Tenants, NEW handle, NEW event,
         IsEvent(event, handle)
  PROVE  Lengths(Appended(s, t, event))
<1> DEFINE a == Appended(s, t, event)
           record == RecordOf(s, t, event)
           room == Room(s, t)
           l == s.logs[t]
           k == room.logs[t]
<1>1. /\ record \in EventRecord /\ Added(a, room, t, record)
      /\ LogsOK(room) /\ room.sequences = s.sequences
  BY AppendGives, RoomIsMade
<1> HIDE DEF a, record
<1>2. /\ l \in Seq(EventRecord) /\ Capacity \in Nat \ {0} /\ Len(l) \in Nat
      /\ s.sequences[t] \in Nat
  BY EventStoreAssumption DEF LogsOK, Typed
<1>3. /\ \A u \in Tenants \ {t} : room.logs[u] = s.logs[u]
      /\ Len(k) = IF Len(l) >= Capacity THEN Len(l) - 1 ELSE Len(l)
  <2>1. CASE Full(s, t)
    <3>1. room = Evict(s, t) /\ Len(l) >= Capacity /\ l # <<>>
      BY <1>2, <2>1 DEF Room, Full
    <3>2. Typed(s)
      BY DEF LogsOK
    <3> HIDE DEF room
    <3>4. Evict(s, t).logs = [s.logs EXCEPT ![t] = Tail(s.logs[t])]
      BY <3>2, EvictSteps
    <3>5. room.logs = [s.logs EXCEPT ![t] = Tail(l)]
      BY <3>1, <3>4
    <3>3. k = Tail(l) /\ \A u \in Tenants \ {t} : room.logs[u] = s.logs[u]
      BY <3>2, <3>5 DEF Typed
    <3>6. Len(Tail(l)) = Len(l) - 1
      BY <1>2, <3>1, HeadTailProperties
    <3> QED  BY <3>1, <3>3, <3>6
  <2>2. CASE ~Full(s, t)
    <3>1. room = s /\ ~(Len(l) >= Capacity)
      BY <2>2 DEF Room, Full
    <3> QED  BY <3>1
  <2> QED  BY <2>1, <2>2
<1> HIDE DEF room
<1>4. a.logs[t] = Append(k, record) /\ \A u \in Tenants \ {t} : a.logs[u] = s.logs[u]
  BY <1>1, <1>3 DEF Added, LogsOK, Typed
<1>5. /\ a.sequences[t] = s.sequences[t] + 1
      /\ \A u \in Tenants \ {t} : a.sequences[u] = s.sequences[u]
  <2>1. a.sequences = [s.sequences EXCEPT ![t] = s.sequences[t] + 1]
    BY <1>1 DEF Added
  <2> QED  BY <2>1 DEF LogsOK, Typed
<1>6. Len(Append(k, record)) = Len(k) + 1
  <2>1. k \in Seq(EventRecord)
    BY <1>1 DEF LogsOK, Typed
  <2> QED  BY <1>1, <2>1, AppendProperties
<1>7. Len(l) = IF s.sequences[t] < Capacity THEN s.sequences[t] ELSE Capacity
  BY DEF Lengths
<1> HIDE DEF l, k
<1>8. Len(a.logs[t]) = IF a.sequences[t] < Capacity THEN a.sequences[t] ELSE Capacity
  BY <1>2, <1>3, <1>4, <1>5, <1>6, <1>7
<1>9. Lengths(a)
  BY <1>4, <1>5, <1>8 DEF Lengths
<1> QED  BY <1>9 DEF a

\* clear() forgets the numbers with the log.
LEMMA ClearKeepsLengths ==
  ASSUME NEW s, LogsOK(s), Lengths(s), NEW t \in Tenants
  PROVE  Lengths(Clear(s, t))
<1> DEFINE c == Clear(s, t)
<1>1. c.logs = [s.logs EXCEPT ![t] = <<>>] /\ c.sequences = [s.sequences EXCEPT ![t] = 0]
  BY ClearSteps DEF LogsOK, Typed
<1> HIDE DEF c
<1>2. /\ c.logs[t] = <<>> /\ c.sequences[t] = 0
      /\ \A u \in Tenants \ {t} : c.logs[u] = s.logs[u] /\ c.sequences[u] = s.sequences[u]
  BY <1>1 DEF LogsOK, Typed
<1>3. Capacity \in Nat \ {0}
  BY EventStoreAssumption
<1>4. Lengths(c)
  BY <1>2, <1>3 DEF Lengths
<1> QED  BY <1>4 DEF c

\* The logs, the index by workflow and the lengths of the logs are in step.
FlowInStep == outputs \in Nat /\ LogsOK(store) /\ FlowOK(store) /\ Lengths(store)

\* An output is appended once, or once more, with one event.
AppendedOver(tenants, event) ==
  LET heard == Appended(store, tenants[1], event)
  IN  store' = IF Len(tenants) = 1 THEN heard ELSE Appended(heard, tenants[2], event)

\* A step of the store is one append or two.
LEMMA StoreAppends ==
  ASSUME outputs \in Nat, Store
  PROVE  /\ outputs' = outputs + 1
         /\ \E tenants \in StoredUnder : \E event :
              /\ IsEvent(event, outputs + 1) /\ AppendedOver(tenants, event)
              /\ tenants[1] \in Tenants
              /\ Len(tenants) # 1 => Len(tenants) = 2 /\ tenants[2] \in Tenants
<1>1. PICK tenants \in StoredUnder, w \in Workflows \cup {NoWorkflow}, k \in Kinds :
        store' = Stored(store, tenants, [handle |-> outputs', workflow |-> w, kind |-> k])
  BY DEF Store
<1> DEFINE event == [handle |-> outputs', workflow |-> w, kind |-> k]
<1>2. outputs' = outputs + 1
  BY DEF Store
<1>3. IsEvent(event, outputs + 1)
  BY <1>2 DEF IsEvent
<1> HIDE DEF event
<1>4. AppendedOver(tenants, event)
  BY <1>1 DEF Stored, AppendedOver, event
<1>5. tenants \in Seq(Tenants) /\ Len(tenants) \in 1 .. 2
  BY EventStoreAssumption
<1>6. tenants[1] \in Tenants /\ (Len(tenants) # 1 => Len(tenants) = 2 /\ tenants[2] \in Tenants)
  BY <1>5
<1> QED  BY <1>2, <1>3, <1>4, <1>6

\* They start in step.
LEMMA FlowInit ==
  ASSUME store = Empty, outputs = 0
  PROVE  FlowInStep
<1>1. \A t \in Tenants : Empty.logs[t] = <<>> /\ Empty.sequences[t] = 0
  BY DEF Empty
<1>2. Empty.byFlow = [w \in Workflows |-> <<>>]
  BY DEF Empty
<1>3. \A r : ~Has(<<>>, r)
  BY DEF Has
<1>4. \A w \in Workflows : Empty.byFlow[w] = <<>>
  BY <1>2
<1>5. \A t \in Tenants, r \in EventRecord : ~InLog(Empty, t, r)
  BY <1>1, <1>3 DEF InLog
<1>6. \A w \in Workflows, r \in EventRecord : ~InFlow(Empty, w, r)
  BY <1>3, <1>4 DEF InFlow
<1>7. /\ \A w \in Workflows : Ascending(Empty.byFlow[w])
      /\ \A t \in Tenants : Ascending(Empty.logs[t])
  BY <1>1, <1>4 DEF Ascending
<1>8. Empty.byFlow \in [Workflows -> Seq(EventRecord)]
  BY <1>2
<1>9. FlowOK(Empty)
  BY <1>5, <1>6, <1>7, <1>8 DEF FlowOK
<1>10. LogsOK(Empty)
  <2>1. Typed(Empty)
    BY DEF Typed, Maps, Empty
  <2> QED  BY <1>5, <1>7, <2>1 DEF LogsOK
<1>11. Lengths(Empty)
  BY <1>1, EventStoreAssumption DEF Lengths
<1> QED  BY <1>9, <1>10, <1>11 DEF FlowInStep

\* Every step keeps them so.
LEMMA FlowNext ==
  ASSUME FlowInStep, [Next]_vars
  PROVE  FlowInStep'
<1>1. CASE UNCHANGED <<store, outputs>>
  BY <1>1 DEF FlowInStep
<1>2. CASE Store
  <2>1. outputs \in Nat /\ outputs' = outputs + 1
    BY <1>2, StoreAppends DEF FlowInStep
  <2>2. PICK tenants \in StoredUnder : \E event :
              /\ IsEvent(event, outputs + 1) /\ AppendedOver(tenants, event)
              /\ tenants[1] \in Tenants
              /\ Len(tenants) # 1 => Len(tenants) = 2 /\ tenants[2] \in Tenants
    BY <1>2, <2>1, StoreAppends
  <2>3. PICK event :
              /\ IsEvent(event, outputs + 1) /\ AppendedOver(tenants, event)
              /\ tenants[1] \in Tenants
              /\ Len(tenants) # 1 => Len(tenants) = 2 /\ tenants[2] \in Tenants
    BY <2>2
  <2> DEFINE heard == Appended(store, tenants[1], event)
             both == Appended(heard, tenants[2], event)
  <2>4. LogsOK(heard) /\ FlowOK(heard) /\ Lengths(heard)
    BY <2>3, AppendKeepsFlow, AppendKeepsLengths DEF FlowInStep
  <2>5. store' = IF Len(tenants) = 1 THEN heard ELSE both
    BY <2>3 DEF AppendedOver
  <2> HIDE DEF heard
  <2>6. Len(tenants) # 1 => LogsOK(both) /\ FlowOK(both) /\ Lengths(both)
    BY <2>3, <2>4, AppendKeepsFlow, AppendKeepsLengths
  <2> HIDE DEF both
  <2> QED  BY <2>1, <2>4, <2>5, <2>6 DEF FlowInStep
<1>3. CASE ClearTenant
  <2>1. PICK t \in Tenants : store' = Clear(store, t)
    BY <1>3 DEF ClearTenant
  <2>2. outputs' = outputs /\ Clears
    BY <1>3 DEF ClearTenant
  <2>3. LogsOK(Clear(store, t)) /\ FlowOK(Clear(store, t)) /\ Lengths(Clear(store, t))
    BY <2>2, ClearKeepsLogs, ClearKeepsFlow, ClearKeepsLengths DEF FlowInStep
  <2> QED  BY <2>1, <2>2, <2>3 DEF FlowInStep
<1> QED  BY <1>1, <1>2, <1>3 DEF Next, FirstPage, NextPage, vars

\* The workflows of a log that are one.
FlowsOf(log) == {r.workflow : r \in ToSet(log)} \ {NoWorkflow}

\* A log has finitely many workflows.
LEMMA FlowsAreFinite ==
  ASSUME NEW log \in Seq(EventRecord)
  PROVE  IsFiniteSet(FlowsOf(log))
<1> DEFINE all == {log[i].workflow : i \in 1 .. Len(log)}
           f == [i \in 1 .. Len(log) |-> log[i].workflow]
<1>1. f \in Surjection(1 .. Len(log), all)
  BY DEF Surjection
<1>2. IsFiniteSet(1 .. Len(log))
  BY FS_Interval
<1>3. IsFiniteSet(all)
  BY <1>1, <1>2, FS_Surjection
<1>4. FlowsOf(log) \in SUBSET all
  BY DEF FlowsOf, ToSet
<1> QED  BY <1>3, <1>4, FS_Subset

\* The lesser of two numbers.
LEMMA MinOfTwo ==
  ASSUME NEW x \in Nat, NEW y \in Nat
  PROVE  Min({x, y}) = IF x <= y THEN x ELSE y
<1> DEFINE S == {x, y}
           low == Min(S)
<1>1. low \in S /\ \A z \in S : low <= z
  <2>1. \E l \in S : \A z \in S : l <= z
    OBVIOUS
  <2> HIDE DEF S
  <2> QED  BY <2>1 DEF Min
<1>2. (low = x \/ low = y) /\ low <= x /\ low <= y
  BY <1>1
<1> HIDE DEF low
<1>3. low = IF x <= y THEN x ELSE y
  BY <1>2
<1> QED  BY <1>3 DEF low

\* What the store shows of a tenant agrees.
Shown(s, t) ==
  LET shown == stats(s, t)
  IN  /\ \A w \in Workflows :
           IF Clears
           THEN IsSuffix(getSequence(s, t, w),
                         Filter(s.logs[t], {r \in EventRecord : r.workflow = w}))
           ELSE getSequence(s, t, w) = Filter(s.logs[t], {r \in EventRecord : r.workflow = w})
      /\ Cardinality({w \in Workflows : getSequence(s, t, w) # <<>>}) <= shown.activeSequences
      /\ shown.total = Min({s.sequences[t], Capacity})
      /\ shown.total = MapThenSumSet(LAMBDA k : shown.byKind[k], Kinds)

\* Maps in step show it.
LEMMA InStepIsShown ==
  ASSUME NEW s, LogsOK(s), FlowOK(s), Lengths(s), NEW t \in Tenants
  PROVE  Shown(s, t)
<1> DEFINE log == s.logs[t]
<1>0. log \in Seq(EventRecord) /\ s.sequences[t] \in Nat /\ Capacity \in Nat
  BY EventStoreAssumption DEF LogsOK, Typed
<1>1. ASSUME NEW w \in Workflows
      PROVE  IF Clears THEN IsSuffix(getSequence(s, t, w), Filter(log, OfFlow(w)))
             ELSE getSequence(s, t, w) = Filter(log, OfFlow(w))
  <2> DEFINE a == getSequence(s, t, w)
             b == Filter(log, OfFlow(w))
  <2>1. a \in Seq(EventRecord) /\ b \in Seq(EventRecord) /\ SameEnd(a, b) /\ (~Clears => a = b)
    BY SequenceIsEnd
  <2> HIDE DEF a, b
  <2>2. IsSuffix(a, b)
    BY <2>1, EndIsSuffix
  <2> QED  BY <2>1, <2>2 DEF a, b
<1>2. Cardinality({w \in Workflows : getSequence(s, t, w) # <<>>}) <= Cardinality(FlowsOf(log))
  <2> DEFINE read == {w \in Workflows : getSequence(s, t, w) # <<>>}
  <2>1. ASSUME NEW w \in read PROVE w \in FlowsOf(log)
    <3> DEFINE a == getSequence(s, t, w)
    <3>1. a # <<>> /\ w \in Workflows
      OBVIOUS
    <3>2. /\ a \in Seq(EventRecord)
          /\ \A r \in EventRecord : Has(a, r) <=> InFlow(s, w, r) /\ r.partner = t
      BY <3>1, SequenceIsEnd
    <3> HIDE DEF a
    <3>3. a[1] \in EventRecord /\ Has(a, a[1])
      BY <3>1, <3>2 DEF Has
    <3>4. a[1].workflow = w /\ InLog(s, t, a[1])
      BY <3>1, <3>2, <3>3 DEF FlowOK
    <3>5. a[1] \in ToSet(log)
      BY <1>0, <3>4 DEF ToSet, InLog, Has
    <3>6. w # NoWorkflow
      BY <3>1, EventStoreAssumption
    <3> QED  BY <3>4, <3>5, <3>6 DEF FlowsOf
  <2>2. read \in SUBSET FlowsOf(log) /\ IsFiniteSet(FlowsOf(log))
    BY <1>0, <2>1, FlowsAreFinite
  <2> HIDE DEF read
  <2>3. Cardinality(read) <= Cardinality(FlowsOf(log))
    BY <2>2, FS_Subset
  <2> QED  BY <2>3 DEF read
<1>3. Len(log) = Min({s.sequences[t], Capacity})
  <2>1. Len(log) = IF s.sequences[t] < Capacity THEN s.sequences[t] ELSE Capacity
    BY DEF Lengths
  <2>2. Min({s.sequences[t], Capacity})
          = IF s.sequences[t] <= Capacity THEN s.sequences[t] ELSE Capacity
    BY <1>0, MinOfTwo
  <2> HIDE DEF log
  <2> QED  BY <1>0, <2>1, <2>2
<1>4. SumOver(TallyOf(log), Kinds) = Len(log)
  <2>1. PICK f : IsSum(TallyOf(log), Kinds, f) /\ SumOver(TallyOf(log), Kinds) = f[Kinds]
    BY SumSums, EventStoreAssumption
  <2>2. f[Kinds] = Len(log)
    BY <1>0, <2>1, TalliesAddUp
  <2> QED  BY <2>1, <2>2
<1>5. stats(s, t) = [total |-> Len(log), byKind |-> TallyOf(log),
                     activeSequences |-> Cardinality(FlowsOf(log))]
  BY DEF stats, TallyOf, FlowsOf
<1>6. SumOver(stats(s, t).byKind, Kinds) = Len(log)
  BY <1>4, <1>5
<1>7. stats(s, t).total = Len(log) /\ stats(s, t).activeSequences = Cardinality(FlowsOf(log))
  BY <1>5
<1> QED  BY <1>1, <1>2, <1>3, <1>6, <1>7 DEF Shown, OfFlow, SumOver

\* What a tenant reads of a workflow is the newest part of what its log has of it, all of it
\* unless someone clears, and the statistics count the log: whatever is evicted, whoever
\* shares the workflow id, and for however many tenants an output is stored, or twice for one.
THEOREM SequencesNeverDisagree == Spec => []SequencesAgree
<1>1. FlowInStep /\ [Next]_vars => FlowInStep'
  BY FlowNext
<1>2. FlowInStep => SequencesAgree
  <2> SUFFICES ASSUME FlowInStep PROVE SequencesAgree
    OBVIOUS
  <2>1. \A t \in Tenants : Shown(store, t)
    BY InStepIsShown DEF FlowInStep
  <2> QED  BY <2>1 DEF SequencesAgree, Shown, Agrees
<1>3. Init => FlowInStep
  BY FlowInit DEF Init
<1> QED  BY <1>1, <1>2, <1>3, PTL DEF Spec

-----------------------------------------------------------------------------
(***************************************************************************)
(* Paging                                                                  *)
(***************************************************************************)

\* The tenants for whom no output is stored twice: in the server all but PARTNER_ID, for whom
\* the listener and the route both store what it asks for itself.
Single ==
  {t \in Tenants : \A tenants \in StoredUnder : \A i, j \in 1 .. Len(tenants) :
                      tenants[i] = t /\ tenants[j] = t => i = j}

\* The n handles that were given are those of the records in the logs, and no such tenant has
\* two records of one handle: its handles are in the order of its records.
HandlesOK(s, n) ==
  /\ \A t \in Tenants, r \in EventRecord : InLog(s, t, r) => r.handle \in 1 .. n
  /\ \A t \in Single, r, q \in EventRecord :
       InLog(s, t, r) /\ InLog(s, t, q) /\ r.id < q.id => r.handle < q.handle

LEMMA HandlesAscend ==
  ASSUME NEW s, NEW n, LogsOK(s), HandlesOK(s, n), NEW t \in Single
  PROVE  \A i, j \in 1 .. Len(s.logs[t]) :
           i < j => s.logs[t][i].handle < s.logs[t][j].handle
<1> SUFFICES ASSUME NEW i \in 1 .. Len(s.logs[t]), NEW j \in 1 .. Len(s.logs[t]), i < j
             PROVE  s.logs[t][i].handle < s.logs[t][j].handle
  OBVIOUS
<1>1. /\ s.logs[t][i] \in EventRecord /\ InLog(s, t, s.logs[t][i])
      /\ s.logs[t][j] \in EventRecord /\ InLog(s, t, s.logs[t][j])
  BY DEF Single, LogsOK, Typed, InLog, Has
<1>2. s.logs[t][i].id < s.logs[t][j].id
  BY DEF Single, LogsOK, Ascending
<1> QED  BY <1>1, <1>2 DEF HandlesOK

\* A record whose handle is new to its log keeps the order.
LEMMA AppendKeepsHandles ==
  ASSUME NEW s, LogsOK(s), FlowOK(s), NEW n \in Nat, HandlesOK(s, n), NEW t \in Tenants,
         NEW handle \in 1 .. n, NEW event, IsEvent(event, handle),
         t \in Single => \A r \in EventRecord : InLog(s, t, r) => r.handle < handle
  PROVE  HandlesOK(Appended(s, t, event), n)
<1> DEFINE a == Appended(s, t, event)
           record == RecordOf(s, t, event)
<1>1. record \in EventRecord /\ record.handle = handle /\ record.id = s.made + 1 /\ s.made \in Nat
  BY AppendGives DEF LogsOK, Typed
<1>2. \A u \in Tenants, r \in EventRecord :
        InLog(a, u, r) => InLog(s, u, r) \/ (u = t /\ r = record)
  BY AppendAdds
<1> HIDE DEF a, record
<1>3. \A u \in Tenants, r \in EventRecord : InLog(a, u, r) => r.handle \in 1 .. n
  BY <1>1, <1>2 DEF HandlesOK
<1>4. ASSUME NEW u \in Single, NEW r \in EventRecord, NEW q \in EventRecord,
             InLog(a, u, r), InLog(a, u, q), r.id < q.id
      PROVE  r.handle < q.handle
  <2>1. u \in Tenants
    BY DEF Single
  <2>2. CASE InLog(s, u, r) /\ InLog(s, u, q)
    BY <1>4, <2>2 DEF HandlesOK
  <2>3. CASE InLog(s, u, r) /\ u = t /\ q = record
    BY <1>1, <2>3
  <2>4. CASE r = record
    <3>1. ~InLog(s, u, q)
      <4>1. InLog(s, u, q) => q.id \in 1 .. s.made
        BY <2>1, LoggedRecord
      <4> QED  BY <1>1, <1>4, <2>4, <4>1
    <3>2. q = record
      BY <1>2, <1>4, <2>1, <3>1
    <3> QED  BY <1>1, <1>4, <2>4, <3>2
  <2> QED  BY <1>2, <1>4, <2>1, <2>2, <2>3, <2>4
<1>5. HandlesOK(a, n)
  BY <1>3, <1>4 DEF HandlesOK
<1> QED  BY <1>5 DEF a

HandlesInStep == FlowInStep /\ HandlesOK(store, outputs)

\* The logs start empty.
LEMMA HandlesInit ==
  ASSUME store = Empty, outputs = 0
  PROVE  HandlesInStep
<1>1. \A t \in Tenants, r \in EventRecord : ~InLog(Empty, t, r)
  BY DEF Empty, InLog, Has
<1> QED  BY <1>1, FlowInit DEF HandlesInStep, HandlesOK, Single

\* Every step keeps the handles in order.
LEMMA HandlesNext ==
  ASSUME HandlesInStep, [Next]_vars
  PROVE  HandlesInStep'
<1>1. FlowInStep'
  BY FlowNext DEF HandlesInStep
<1>2. CASE UNCHANGED <<store, outputs>>
  BY <1>1, <1>2 DEF HandlesInStep
<1>3. CASE Store
  <2> DEFINE n == outputs
  <2>1. n \in Nat /\ outputs' = n + 1 /\ LogsOK(store) /\ FlowOK(store) /\ HandlesOK(store, n)
    BY <1>3, StoreAppends DEF HandlesInStep, FlowInStep
  <2>2. PICK tenants \in StoredUnder : \E event :
              /\ IsEvent(event, n + 1) /\ AppendedOver(tenants, event)
              /\ tenants[1] \in Tenants
              /\ Len(tenants) # 1 => Len(tenants) = 2 /\ tenants[2] \in Tenants
    BY <1>3, <2>1, StoreAppends
  <2>3. PICK event :
              /\ IsEvent(event, n + 1) /\ AppendedOver(tenants, event)
              /\ tenants[1] \in Tenants
              /\ Len(tenants) # 1 => Len(tenants) = 2 /\ tenants[2] \in Tenants
    BY <2>2
  <2> HIDE DEF n
  <2> DEFINE heard == Appended(store, tenants[1], event)
             both == Appended(heard, tenants[2], event)
  <2>4. n + 1 \in Nat /\ n + 1 \in 1 .. n + 1 /\ \A h \in 1 .. n : h < n + 1 /\ h \in 1 .. n + 1
    BY <2>1
  <2>5. \A t \in Tenants, r \in EventRecord : InLog(store, t, r) => r.handle < n + 1
    BY <2>1, <2>4 DEF HandlesOK
  <2>6. HandlesOK(store, n + 1)
    BY <2>1, <2>4 DEF HandlesOK
  <2>7. HandlesOK(heard, n + 1)
    BY <2>1, <2>3, <2>4, <2>5, <2>6, AppendKeepsHandles
  <2>8. LogsOK(heard) /\ FlowOK(heard)
    BY <2>1, <2>3, AppendKeepsFlow
  <2>9. \A u \in Tenants \ {tenants[1]}, r \in EventRecord :
          InLog(heard, u, r) => InLog(store, u, r)
    BY <2>1, <2>3, AppendAdds
  <2>10. store' = IF Len(tenants) = 1 THEN heard ELSE both
    BY <2>3 DEF AppendedOver
  <2> HIDE DEF heard
  <2>11. Len(tenants) # 1 => HandlesOK(both, n + 1)
    <3> SUFFICES ASSUME Len(tenants) # 1 PROVE HandlesOK(both, n + 1)
      OBVIOUS
    <3>1. tenants[2] \in Tenants
      BY <2>3
    <3>2. tenants[2] \in Single => tenants[2] # tenants[1]
      <4> DEFINE l == Len(tenants)
      <4>1. l = 2
        BY <2>3
      <4> HIDE DEF l
      <4>2. 1 \in 1 .. l /\ 2 \in 1 .. l
        BY <4>1
      <4> QED  BY <4>2 DEF Single, l
    <3>3. tenants[2] \in Single =>
            \A r \in EventRecord : InLog(heard, tenants[2], r) => r.handle < n + 1
      BY <2>5, <2>9, <3>1, <3>2
    <3> QED  BY <2>3, <2>4, <2>7, <2>8, <3>1, <3>3, AppendKeepsHandles
  <2> HIDE DEF both
  <2> QED  BY <1>1, <2>1, <2>7, <2>10, <2>11 DEF HandlesInStep
<1>4. CASE ClearTenant
  <2>1. PICK t \in Tenants : store' = Clear(store, t)
    BY <1>4 DEF ClearTenant
  <2>2. \A u \in Tenants, r \in EventRecord : InLog(store', u, r) => InLog(store, u, r)
    BY <2>1, ClearAdds DEF HandlesInStep, FlowInStep
  <2>3. outputs' = outputs
    BY <1>4 DEF ClearTenant
  <2> QED  BY <1>1, <2>2, <2>3 DEF HandlesInStep, HandlesOK, Single
<1> QED  BY <1>2, <1>3, <1>4 DEF Next, FirstPage, NextPage, vars

-----------------------------------------------------------------------------
(***************************************************************************)
(* The refinement: append() as a Put, clear() as a Clear                   *)
(***************************************************************************)

\* The newest part of a log that is given a record ends with it.
LEMMA NewestLast ==
  ASSUME NEW l \in Seq(EventRecord), Len(l) <= Capacity, Capacity \in Nat \ {0},
         NEW record \in EventRecord
  PROVE  LET m == Log!Newest(Append(l, record))
         IN  m # <<>> /\ m[Len(m)] = record
<1> DEFINE a == Append(l, record)
           m == Log!Newest(a)
<1>1. a \in Seq(EventRecord) /\ Len(a) = Len(l) + 1 /\ a[Len(a)] = record /\ Len(l) \in Nat
  BY AppendProperties
<1> HIDE DEF a
<1>2. CASE Len(a) > Capacity
  <2>1. m = Tail(a) /\ a # <<>> /\ Len(a) > 1
    BY <1>1, <1>2 DEF Log!Newest
  <2>2. Len(Tail(a)) = Len(a) - 1 /\ \A i \in 1 .. Len(Tail(a)) : Tail(a)[i] = a[i + 1]
    BY <1>1, <2>1, HeadTailProperties
  <2>3. Len(a) - 1 \in 1 .. Len(Tail(a)) /\ (Len(a) - 1) + 1 = Len(a)
    BY <1>1, <2>1, <2>2
  <2>4. Tail(a)[Len(a) - 1] = a[Len(a)]
    BY <2>2, <2>3
  <2>5. Tail(a) # <<>>
    BY <2>2, <2>3
  <2> QED  BY <1>1, <2>1, <2>2, <2>4, <2>5 DEF a
<1>3. CASE ~(Len(a) > Capacity)
  <2>1. m = a /\ a # <<>>
    BY <1>1, <1>3 DEF Log!Newest
  <2> QED  BY <1>1, <2>1 DEF a
<1> QED  BY <1>2, <1>3

\* What the index has under a handle is logged, and no copy logged is newer.
IndexOK(s) ==
  \A h \in DOMAIN s.index :
    /\ s.index[h] \in EventRecord /\ s.index[h].handle = h
    /\ InLog(s, s.index[h].partner, s.index[h])
    /\ \A u \in Tenants, r \in EventRecord :
         InLog(s, u, r) /\ r.handle = h => r.id <= s.index[h].id

\* The state of the log that maps stand for.
BookOf(s) == [logs |-> s.logs, given |-> s.sequences, kept |-> DOMAIN s.index]

\* The records of the logs, by tenant.
LEMMA LoggedIsInLog ==
  ASSUME NEW s, LogsOK(s)
  PROVE  \A r : r \in Log!Logged(s.logs)
                  <=> r \in EventRecord /\ \E u \in Tenants : InLog(s, u, r)
<1>1. \A u \in Tenants : s.logs[u] \in Seq(EventRecord)
  BY DEF LogsOK, Typed
<1>2. \A u \in Tenants : \A i \in 1 .. Len(s.logs[u]) : s.logs[u][i] \in EventRecord
  BY <1>1
<1> QED  BY <1>2 DEF Log!Logged, InLog, Has

\* If the maps are in step, what the index has under a handle is the copy stored last.
LEMMA IndexedIsLast ==
  ASSUME NEW s, LogsOK(s), IndexOK(s), NEW h \in DOMAIN s.index
  PROVE  Log!LastStored(s.logs, h) = s.index[h]
<1> DEFINE x == s.index[h]
           all == Log!Copies(s.logs, h)
           r == CHOOSE r \in all : \A q \in all : q.id <= r.id
<1>1. /\ x \in EventRecord /\ x.handle = h /\ x.partner \in Tenants /\ InLog(s, x.partner, x)
      /\ \A u \in Tenants, q \in EventRecord : InLog(s, u, q) /\ q.handle = h => q.id <= x.id
  BY DEF IndexOK, EventRecord
<1>2. \A q : q \in all <=> /\ q \in EventRecord /\ q.handle = h
                           /\ \E u \in Tenants : InLog(s, u, q)
  BY LoggedIsInLog DEF Log!Copies
<1> HIDE DEF x, all
<1>3. x \in all /\ \A q \in all : q.id <= x.id
  BY <1>1, <1>2
<1>4. r \in all /\ \A q \in all : q.id <= r.id
  BY <1>3
<1>5. Log!LastStored(s.logs, h) = r
  BY DEF Log!LastStored, all
<1> HIDE DEF r
<1>6. r \in EventRecord /\ r.id \in Nat /\ x.id \in Nat
  BY <1>1, <1>2, <1>4 DEF EventRecord
<1>7. r.id = x.id
  <2>1. r.id <= x.id /\ x.id <= r.id
    BY <1>3, <1>4
  <2> QED  BY <1>6, <2>1
<1>8. PICK u \in Tenants : InLog(s, u, r)
  BY <1>2, <1>4
<1>9. r = x
  BY <1>1, <1>6, <1>7, <1>8 DEF LogsOK
<1> QED  BY <1>5, <1>9 DEF x

\* So a tenant's lookup is the one of the log.
LEMMA LookupsFind ==
  ASSUME NEW s, LogsOK(s), IndexOK(s)
  PROVE  [t \in Tenants |-> [h \in 1 .. MaxOutputs |-> getByHandle(s, t, h)]]
           = Log!Lookups(BookOf(s))
<1> SUFFICES ASSUME NEW t \in Tenants, NEW h \in 1 .. MaxOutputs
             PROVE  getByHandle(s, t, h) = Log!Lookup(BookOf(s), t, h)
  BY DEF Log!Lookups
<1>1. BookOf(s).logs = s.logs /\ BookOf(s).kept = DOMAIN s.index
  BY DEF BookOf
<1>2. CASE h \in DOMAIN s.index
  <2>1. Log!LastStored(s.logs, h) = s.index[h]
    BY <1>2, IndexedIsLast
  <2> QED  BY <1>1, <1>2, <2>1 DEF getByHandle, Log!Lookup
<1>3. CASE h \notin DOMAIN s.index
  BY <1>1, <1>3 DEF getByHandle, Log!Lookup
<1> QED  BY <1>2, <1>3

\* An eviction takes a handle out of the index with any copy of its record.
LEMMA EvictKeepsIndex ==
  ASSUME NEW s, LogsOK(s), FlowOK(s), IndexOK(s), NEW t \in Tenants, Full(s, t)
  PROVE  IndexOK(Evict(s, t))
<1> DEFINE e == Evict(s, t)
           oldest == Head(s.logs[t])
<1>1. e.index = [h \in DOMAIN s.index \ {oldest.handle} |-> s.index[h]]
  BY EvictSteps DEF LogsOK
<1>2. \A u \in Tenants, r \in EventRecord :
        InLog(e, u, r) <=> InLog(s, u, r) /\ r.id # oldest.id
  BY EvictTakes
<1>3. oldest \in EventRecord /\ InLog(s, t, oldest)
  <2>1. s.logs[t] \in Seq(EventRecord) /\ s.logs[t] # <<>>
    BY EventStoreAssumption DEF LogsOK, Typed, Full
  <2>2. oldest = s.logs[t][1] /\ 1 \in 1 .. Len(s.logs[t])
    BY <2>1
  <2> QED  BY <2>1, <2>2 DEF InLog, Has
<1> HIDE DEF e, oldest
<1>4. ASSUME NEW h \in DOMAIN e.index
      PROVE  /\ e.index[h] \in EventRecord /\ e.index[h].handle = h
             /\ InLog(e, e.index[h].partner, e.index[h])
             /\ \A u \in Tenants, r \in EventRecord :
                  InLog(e, u, r) /\ r.handle = h => r.id <= e.index[h].id
  <2> DEFINE x == s.index[h]
  <2>1. h \in DOMAIN s.index /\ h # oldest.handle /\ e.index[h] = x
    BY <1>1
  <2>2. /\ x \in EventRecord /\ x.handle = h /\ x.partner \in Tenants
        /\ InLog(s, x.partner, x)
        /\ \A u \in Tenants, r \in EventRecord :
             InLog(s, u, r) /\ r.handle = h => r.id <= x.id
    BY <2>1 DEF IndexOK, EventRecord
  <2> HIDE DEF x
  <2>3. x.id # oldest.id
    BY <1>3, <2>1, <2>2, SameId
  <2> QED  BY <1>2, <2>1, <2>2, <2>3
<1>5. IndexOK(e)
  BY <1>4 DEF IndexOK
<1> QED  BY <1>5 DEF e

\* An append puts its record in the index, in the place of a copy that was there.
LEMMA AppendKeepsIndex ==
  ASSUME NEW s, LogsOK(s), FlowOK(s), IndexOK(s), NEW t \in Tenants, NEW handle, NEW event,
         IsEvent(event, handle)
  PROVE  IndexOK(Appended(s, t, event))
<1> DEFINE a == Appended(s, t, event)
           record == RecordOf(s, t, event)
           room == Room(s, t)
<1>1. /\ record \in EventRecord /\ record.partner = t /\ record.handle = handle
      /\ record.id = s.made + 1
      /\ Added(a, room, t, record) /\ HasOneMore(a, room, t, record)
  BY AppendGives
<1>2. LogsOK(room) /\ FlowOK(room) /\ room.made = s.made /\ s.made \in Nat
  BY RoomIsMade DEF LogsOK, Typed
<1>3. IndexOK(room)
  BY EvictKeepsIndex DEF Room
<1> HIDE DEF a, record, room
<1>4. \A u \in Tenants, r \in EventRecord :
        InLog(a, u, r) <=> InLog(room, u, r) \/ (u = t /\ r = record)
  BY <1>1 DEF HasOneMore
<1>5. \A u \in Tenants, r \in EventRecord : InLog(room, u, r) => r.id < record.id
  <2>1. \A u \in Tenants, r \in EventRecord : InLog(room, u, r) => r.id \in 1 .. s.made
    BY <1>2, LoggedRecord
  <2> QED  BY <1>1, <1>2, <2>1
<1>6. a.index = [h \in DOMAIN room.index \cup {handle} |->
                   IF h = handle THEN record ELSE room.index[h]]
  BY <1>1 DEF Added
<1>7. record.id \in Nat /\ \A r \in EventRecord : r.id \in Nat
  BY <1>1, <1>2 DEF EventRecord
<1>8. ASSUME NEW h \in DOMAIN a.index
      PROVE  /\ a.index[h] \in EventRecord /\ a.index[h].handle = h
             /\ InLog(a, a.index[h].partner, a.index[h])
             /\ \A u \in Tenants, r \in EventRecord :
                  InLog(a, u, r) /\ r.handle = h => r.id <= a.index[h].id
  <2>1. CASE h = handle
    <3>1. a.index[h] = record
      BY <1>6, <2>1
    <3>2. InLog(a, t, record)
      BY <1>1, <1>4
    <3>3. \A u \in Tenants, r \in EventRecord : InLog(a, u, r) => r.id <= record.id
      BY <1>4, <1>5, <1>7
    <3> QED  BY <1>1, <2>1, <3>1, <3>2, <3>3
  <2>2. CASE h # handle
    <3> DEFINE x == room.index[h]
    <3>1. h \in DOMAIN room.index /\ a.index[h] = x
      BY <1>6, <2>2
    <3>2. /\ x \in EventRecord /\ x.handle = h /\ x.partner \in Tenants
          /\ InLog(room, x.partner, x)
          /\ \A u \in Tenants, r \in EventRecord :
               InLog(room, u, r) /\ r.handle = h => r.id <= x.id
      BY <1>3, <3>1 DEF IndexOK, EventRecord
    <3> HIDE DEF x
    <3> QED  BY <1>1, <1>4, <2>2, <3>1, <3>2
  <2> QED  BY <2>1, <2>2
<1>9. IndexOK(a)
  BY <1>8 DEF IndexOK
<1> QED  BY <1>9 DEF a

\* clear() takes the handles of the log it empties out of the index.
LEMMA ClearKeepsIndex ==
  ASSUME NEW s, LogsOK(s), FlowOK(s), IndexOK(s), NEW t \in Tenants
  PROVE  IndexOK(Clear(s, t)) /\ BookOf(Clear(s, t)) = Log!Cleared(BookOf(s), t)
<1> DEFINE c == Clear(s, t)
           l == s.logs[t]
           gone == {r.handle : r \in ToSet(l)}
<1>1. /\ c.logs = [s.logs EXCEPT ![t] = <<>>]
      /\ c.index = [h \in DOMAIN s.index \ gone |-> s.index[h]]
      /\ c.sequences = [s.sequences EXCEPT ![t] = 0]
  BY ClearSteps DEF LogsOK, Typed
<1>2. gone = Log!AllOf(l)
  <2>1. l \in Seq(EventRecord)
    BY DEF LogsOK, Typed
  <2>2. DOMAIN l = 1 .. Len(l)
    BY <2>1
  <2> QED  BY <2>2 DEF ToSet, Log!AllOf
<1>3. \A u \in Tenants, r \in EventRecord : InLog(c, u, r) => InLog(s, u, r)
  BY ClearAdds
<1> HIDE DEF c
<1>4. \A u \in Tenants \ {t} : c.logs[u] = s.logs[u]
  BY <1>1 DEF LogsOK, Typed
<1>5. \A r : InLog(s, t, r) => r.handle \in gone
  BY <1>2 DEF InLog, Has, Log!AllOf
<1>6. BookOf(c) = Log!Cleared(BookOf(s), t)
  <2>1. DOMAIN c.index = DOMAIN s.index \ Log!AllOf(s.logs[t])
    BY <1>1, <1>2
  <2> QED  BY <1>1, <2>1 DEF BookOf, Log!Cleared
<1> HIDE DEF gone
<1>7. ASSUME NEW h \in DOMAIN c.index
      PROVE  /\ c.index[h] \in EventRecord /\ c.index[h].handle = h
             /\ InLog(c, c.index[h].partner, c.index[h])
             /\ \A u \in Tenants, r \in EventRecord :
                  InLog(c, u, r) /\ r.handle = h => r.id <= c.index[h].id
  <2> DEFINE x == s.index[h]
  <2>1. h \in DOMAIN s.index /\ h \notin gone /\ c.index[h] = x
    BY <1>1
  <2>2. /\ x \in EventRecord /\ x.handle = h /\ x.partner \in Tenants
        /\ InLog(s, x.partner, x)
        /\ \A u \in Tenants, r \in EventRecord :
             InLog(s, u, r) /\ r.handle = h => r.id <= x.id
    BY <2>1 DEF IndexOK, EventRecord
  <2> HIDE DEF x
  <2>3. x.partner # t
    BY <1>5, <2>1, <2>2
  <2>4. InLog(c, x.partner, x)
    BY <1>4, <2>2, <2>3 DEF InLog
  <2> QED  BY <1>3, <2>1, <2>2, <2>4
<1>8. IndexOK(c)
  BY <1>7 DEF IndexOK
<1> QED  BY <1>6, <1>8 DEF c

\* append() puts its record in the book: it evicts what leaves a full log.
LEMMA AppendPuts ==
  ASSUME NEW s, LogsOK(s), FlowOK(s), Lengths(s), NEW t \in Tenants, NEW handle, NEW event,
         IsEvent(event, handle)
  PROVE  LET a == Appended(s, t, event)
             record == RecordOf(s, t, event)
         IN  /\ BookOf(a) = Log!Put(BookOf(s), record)
             /\ a.logs[t] # <<>> /\ a.logs[t][Len(a.logs[t])] = record
<1> DEFINE a == Appended(s, t, event)
           record == RecordOf(s, t, event)
           room == Room(s, t)
           l == s.logs[t]
           n == Len(l)
           new == Append(l, record)
<1>1. /\ record \in EventRecord /\ record.partner = t /\ record.handle = handle
      /\ Added(a, room, t, record)
  BY AppendGives
<1>2. LogsOK(room) /\ room.sequences = s.sequences
  BY RoomIsMade
<1>3. record.number = s.sequences[t] + 1
  BY DEF RecordOf
<1>4. /\ l \in Seq(EventRecord) /\ n \in Nat /\ Capacity \in Nat \ {0} /\ n <= Capacity
      /\ s.logs = [s.logs EXCEPT ![t] = l]
  <2>1. l \in Seq(EventRecord) /\ s.sequences[t] \in Nat /\ s.logs = [s.logs EXCEPT ![t] = l]
    BY DEF LogsOK, Typed
  <2>2. n = IF s.sequences[t] < Capacity THEN s.sequences[t] ELSE Capacity
    BY DEF Lengths
  <2> HIDE DEF l, n
  <2> QED  BY <2>1, <2>2, EventStoreAssumption DEF n
<1> HIDE DEF a, record
<1>5. /\ new \in Seq(EventRecord) /\ Len(new) = n + 1 /\ new # <<>>
      /\ \A i \in 1 .. n : new[i] = l[i]
  BY <1>1, <1>4, AppendProperties
<1>6. /\ room.logs = [s.logs EXCEPT ![t] = room.logs[t]]
      /\ Append(room.logs[t], record) = Log!Newest(new)
      /\ DOMAIN room.index = DOMAIN s.index \ Log!Leaving(new)
  <2>1. CASE Full(s, t)
    <3>1. n = Capacity /\ l # <<>> /\ room = Evict(s, t)
      BY <1>4, <2>1 DEF Full, Room
    <3>2. /\ Evict(s, t).logs = [s.logs EXCEPT ![t] = Tail(l)]
          /\ Evict(s, t).index = [h \in DOMAIN s.index \ {Head(l).handle} |-> s.index[h]]
      BY EvictSteps DEF LogsOK
    <3> HIDE DEF room
    <3>3. room.logs[t] = Tail(l) /\ room.logs = [s.logs EXCEPT ![t] = Tail(l)]
      BY <3>1, <3>2 DEF LogsOK, Typed
    <3>4. Tail(new) = Append(Tail(l), record)
      BY <1>1, <1>4, <3>1, HeadTailAppend
    <3>5. Log!Newest(new) = Tail(new)
      BY <1>4, <1>5, <3>1 DEF Log!Newest
    <3>6. Log!Leaving(new) = {Head(l).handle}
      <4>1. Head(l) = l[1] /\ 1 \in 1 .. n
        BY <1>4, <3>1
      <4>2. new[1] = Head(l)
        BY <1>5, <4>1
      <4>3. 1 .. Len(new) - Capacity = {1}
        BY <1>4, <1>5, <3>1
      <4> HIDE DEF new, l
      <4> QED  BY <4>2, <4>3 DEF Log!Leaving
    <3>7. DOMAIN room.index = DOMAIN s.index \ {Head(l).handle}
      BY <3>1, <3>2
    <3> QED  BY <3>3, <3>4, <3>5, <3>6, <3>7
  <2>2. CASE ~Full(s, t)
    <3>1. n < Capacity /\ room = s
      BY <1>4, <2>2 DEF Full, Room
    <3>2. ~(Len(new) > Capacity) /\ 1 .. Len(new) - Capacity = {}
      BY <1>4, <1>5, <3>1
    <3>3. Log!Newest(new) = new
      BY <3>2 DEF Log!Newest
    <3>4. Log!Leaving(new) = {}
      <4> HIDE DEF new
      <4> QED  BY <3>2 DEF Log!Leaving
    <3> QED  BY <1>4, <3>1, <3>3, <3>4
  <2> QED  BY <2>1, <2>2
<1> HIDE DEF room
<1>7. a.logs = [s.logs EXCEPT ![t] = Log!Newest(new)]
  <2> DEFINE first == Append(room.logs[t], record)
             old == room.logs[t]
  <2>1. first = Log!Newest(new)
    BY <1>6
  <2> HIDE DEF first, old
  <2>2. a.logs = [[s.logs EXCEPT ![t] = old] EXCEPT ![t] = first]
    BY <1>1, <1>6 DEF first, old, Added
  <2>3. a.logs = [s.logs EXCEPT ![t] = first]
    BY <2>2 DEF LogsOK, Typed
  <2> QED  BY <2>1, <2>3
<1>8. a.sequences = [s.sequences EXCEPT ![t] = record.number]
  BY <1>1, <1>2, <1>3 DEF Added
<1>9. DOMAIN a.index = (DOMAIN s.index \ Log!Leaving(new)) \cup {record.handle}
  BY <1>1, <1>6 DEF Added
<1>10. BookOf(a) = Log!Put(BookOf(s), record)
  <2>1. BookOf(s).logs = s.logs /\ BookOf(s).given = s.sequences /\ BookOf(s).kept = DOMAIN s.index
    BY DEF BookOf
  <2>2. Log!Put(BookOf(s), record)
          = [logs |-> [s.logs EXCEPT ![t] = Log!Newest(new)],
             given |-> [s.sequences EXCEPT ![t] = record.number],
             kept |-> (DOMAIN s.index \ Log!Leaving(new)) \cup {record.handle}]
    BY <1>1, <2>1 DEF Log!Put
  <2> HIDE DEF new
  <2> QED  BY <1>7, <1>8, <1>9, <2>2 DEF BookOf
<1>11. a.logs[t] = Log!Newest(new)
  BY <1>7 DEF LogsOK, Typed
<1>12. Log!Newest(new) # <<>> /\ Log!Newest(new)[Len(Log!Newest(new))] = record
  BY <1>1, <1>4, NewestLast
<1> QED  BY <1>10, <1>11, <1>12 DEF a, record

\* The maps are in step, and so is the index by handle.
BookInStep == HandlesInStep /\ IndexOK(store)

\* The state of the log is the book of the store.
LEMMA BookIsMapped ==
  Log!Book = BookOf(store)
BY DEF Log!Book, BookOf

\* A step that leaves the maps in step takes the log to the book it leaves.
LEMMA BookBecomes ==
  ASSUME LogsOK(store'), IndexOK(store'), NEW b, BookOf(store') = b
  PROVE  Log!Becomes(b)
<1>1. store'.logs = b.logs /\ store'.sequences = b.given /\ DOMAIN store'.index = b.kept
  BY DEF BookOf
<1>2. [u \in Tenants |-> [h \in 1 .. MaxOutputs |-> getByHandle(store, u, h)]]'
        = Log!Lookups(b)
  BY LookupsFind
<1> QED  BY <1>1, <1>2 DEF Log!Becomes

\* A record whose handle and identity were not given yet is new to the log.
LEMMA RecordIsNew ==
  ASSUME NEW n, LogsOK(store), HandlesOK(store, n), n \in Nat, NEW record,
         record.id = store.made + 1, record.handle = n + 1
  PROVE  Log!IsNew(record)
<1> SUFFICES ASSUME NEW r \in Log!Logged(store.logs)
             PROVE  r.id < record.id /\ r.handle # record.handle
  BY DEF Log!IsNew
<1>1. r \in EventRecord
  BY LoggedIsInLog
<1>2. PICK u \in Tenants : InLog(store, u, r)
  BY LoggedIsInLog
<1>3. r.id \in 1 .. store.made /\ store.made \in Nat /\ r.handle \in 1 .. n
  BY <1>1, <1>2 DEF LogsOK, Typed, HandlesOK
<1> QED  BY <1>3

\* An output stored once is an Add.
LEMMA StoredIsAdded ==
  ASSUME BookInStep, NEW t \in Tenants, NEW event, IsEvent(event, outputs + 1),
         store' = Appended(store, t, event), BookInStep'
  PROVE  Log!Add(t)
<1> DEFINE record == RecordOf(store, t, event)
<1>1. LogsOK(store) /\ FlowOK(store) /\ Lengths(store) /\ HandlesOK(store, outputs) /\ outputs \in Nat
  BY DEF BookInStep, HandlesInStep, FlowInStep
<1>2. /\ BookOf(store') = Log!Put(BookOf(store), record)
      /\ store'.logs[t] # <<>> /\ store'.logs[t][Len(store'.logs[t])] = record
  BY <1>1, AppendPuts
<1>3. /\ record.partner = t /\ record.handle = outputs + 1 /\ record.id = store.made + 1
      /\ record.number = store.sequences[t] + 1
  BY DEF RecordOf, IsEvent
<1> HIDE DEF record
<1>4. Log!IsNew(record)
  BY <1>1, <1>3, RecordIsNew
<1>5. Log!Book = BookOf(store) /\ BookOf(store).given = store.sequences
  BY BookIsMapped DEF BookOf
<1>6. Log!Becomes(Log!Put(Log!Book, record))
  <2>1. LogsOK(store') /\ IndexOK(store')
    BY DEF BookInStep, HandlesInStep, FlowInStep
  <2> QED  BY <1>2, <1>5, <2>1, BookBecomes
<1>7. Log!IsNext(Log!Book, t, record)
  BY <1>3, <1>5 DEF Log!IsNext
<1> QED  BY <1>2, <1>4, <1>6, <1>7 DEF Log!Add

\* An output stored twice is an AddTwice, under two tenants or one.
LEMMA StoredIsAddedTwice ==
  ASSUME BookInStep, NEW t \in Tenants, NEW u \in Tenants,
         NEW event, IsEvent(event, outputs + 1),
         store' = Appended(Appended(store, t, event), u, event), BookInStep'
  PROVE  Log!AddTwice(t, u)
<1> DEFINE heard == Appended(store, t, event)
           first == RecordOf(store, t, event)
           record == RecordOf(heard, u, event)
<1>1. /\ LogsOK(store) /\ FlowOK(store) /\ Lengths(store) /\ HandlesOK(store, outputs)
      /\ outputs \in Nat /\ store.made \in Nat
  BY DEF BookInStep, HandlesInStep, FlowInStep, LogsOK, Typed
<1>2. LogsOK(heard) /\ FlowOK(heard) /\ Lengths(heard)
  BY <1>1, AppendKeepsFlow, AppendKeepsLengths
<1>3. BookOf(heard) = Log!Put(BookOf(store), first)
  BY <1>1, AppendPuts
<1>4. heard.made = store.made + 1
  <2>1. Added(heard, Room(store, t), t, first)
    BY <1>1, AppendGives
  <2>2. Room(store, t).made = store.made
    BY <1>1, RoomIsMade
  <2> QED  BY <2>1, <2>2 DEF Added
<1>5. first = [id |-> store.made + 1, partner |-> t, number |-> store.sequences[t] + 1,
               handle |-> outputs + 1, workflow |-> event.workflow, kind |-> event.kind]
  BY DEF RecordOf, IsEvent
<1> HIDE DEF heard, first
<1>6. /\ BookOf(store') = Log!Put(BookOf(heard), record)
      /\ store'.logs[u] # <<>> /\ store'.logs[u][Len(store'.logs[u])] = record
  <2>1. store' = Appended(heard, u, event)
    BY DEF heard
  <2> QED  BY <1>2, <2>1, AppendPuts
<1>7. record = [id |-> heard.made + 1, partner |-> u, number |-> heard.sequences[u] + 1,
                handle |-> outputs + 1, workflow |-> event.workflow, kind |-> event.kind]
  BY DEF RecordOf, IsEvent
<1> HIDE DEF record
<1>8. Log!Book = BookOf(store) /\ BookOf(heard).given = heard.sequences
  BY BookIsMapped DEF BookOf
<1>9. Log!CopyBefore(record, t) = first
  <2>1. record.id = heard.made + 1
    BY <1>7
  <2>2. record.id - 1 = store.made + 1
    BY <1>1, <1>4, <2>1
  <2>3. [record EXCEPT !.id = store.made + 1, !.partner = t,
                       !.number = store.sequences[t] + 1] = first
    <3> DEFINE i == heard.made + 1
               n == heard.sequences[u] + 1
               h == outputs + 1
               w == event.workflow
               k == event.kind
               j == store.made + 1
               m == store.sequences[t] + 1
    <3>1. record = [id |-> i, partner |-> u, number |-> n, handle |-> h, workflow |-> w,
                    kind |-> k]
      BY <1>7
    <3>2. first = [id |-> j, partner |-> t, number |-> m, handle |-> h, workflow |-> w,
                   kind |-> k]
      BY <1>5
    <3> HIDE DEF i, n, h, w, k, j, m
    <3> DEFINE x == [record EXCEPT !.id = j]
               y == [x EXCEPT !.partner = t]
    <3>3. x = [id |-> j, partner |-> u, number |-> n, handle |-> h, workflow |-> w,
               kind |-> k]
      BY <3>1
    <3> HIDE DEF x
    <3>4. y = [id |-> j, partner |-> t, number |-> n, handle |-> h, workflow |-> w,
               kind |-> k]
      BY <3>3
    <3> HIDE DEF y
    <3>5. [y EXCEPT !.number = m] = first
      BY <3>2, <3>4
    <3> QED  BY <3>5 DEF x, y, j, m
  <2> QED  BY <2>2, <2>3 DEF Log!CopyBefore
<1>10. Log!IsNew(first)
  <2>1. first.id = store.made + 1 /\ first.handle = outputs + 1
    BY <1>5
  <2> QED  BY <1>1, <2>1, RecordIsNew
<1>11. Log!IsNext(Log!Put(Log!Book, first), u, record)
  <2>1. Log!Put(Log!Book, first) = BookOf(heard)
    BY <1>3, <1>8
  <2>2. record.partner = u /\ record.number = heard.sequences[u] + 1
    BY <1>7
  <2> QED  BY <1>8, <2>1, <2>2 DEF Log!IsNext
<1>12. Log!Becomes(Log!Put(Log!Put(Log!Book, first), record))
  <2>1. LogsOK(store') /\ IndexOK(store')
    BY DEF BookInStep, HandlesInStep, FlowInStep
  <2>2. BookOf(store') = Log!Put(Log!Put(Log!Book, first), record)
    BY <1>3, <1>6, <1>8
  <2> QED  BY <2>1, <2>2, BookBecomes
<1> QED  BY <1>6, <1>9, <1>10, <1>11, <1>12 DEF Log!AddTwice

\* The maps start in step, and the log starts with them.
LEMMA BookInit ==
  ASSUME store = Empty, outputs = 0
  PROVE  BookInStep /\ Log!Init
<1>1. HandlesInStep
  BY HandlesInit
<1>2. IndexOK(store)
  BY DEF IndexOK, Empty
<1>3. store.logs = [t \in Tenants |-> <<>>] /\ store.sequences = [t \in Tenants |-> 0]
  BY DEF Empty
<1>4. DOMAIN store.index = {}
  BY DEF Empty
<1>5. [u \in Tenants |-> [h \in 1 .. MaxOutputs |-> getByHandle(store, u, h)]]
        = Log!Lookups(BookOf(store))
  BY <1>1, <1>2, LookupsFind DEF HandlesInStep, FlowInStep
<1> QED  BY <1>1, <1>2, <1>3, <1>4, <1>5, BookIsMapped DEF BookInStep, Log!Init

\* A step of the store keeps them in step and is a step of the log.
LEMMA BookNext ==
  ASSUME BookInStep, [Next]_vars
  PROVE  BookInStep' /\ [Log!Next]_Log!logVars
<1>1. HandlesInStep'
  BY HandlesNext DEF BookInStep
<1>2. CASE UNCHANGED <<store, outputs>>
  BY <1>1, <1>2 DEF BookInStep, Log!logVars
<1>3. CASE Store
  <2>1. PICK tenants \in StoredUnder : \E event :
              /\ IsEvent(event, outputs + 1) /\ AppendedOver(tenants, event)
              /\ tenants[1] \in Tenants
              /\ Len(tenants) # 1 => Len(tenants) = 2 /\ tenants[2] \in Tenants
    BY <1>3, StoreAppends DEF BookInStep, HandlesInStep, FlowInStep
  <2>2. PICK event :
              /\ IsEvent(event, outputs + 1) /\ AppendedOver(tenants, event)
              /\ tenants[1] \in Tenants
              /\ Len(tenants) # 1 => Len(tenants) = 2 /\ tenants[2] \in Tenants
    BY <2>1
  <2> DEFINE t == tenants[1]
             u == tenants[2]
             heard == Appended(store, t, event)
             both == Appended(heard, u, event)
  <2>3. store' = IF Len(tenants) = 1 THEN heard ELSE both
    BY <2>2 DEF AppendedOver
  <2>4. t \in Tenants /\ (Len(tenants) # 1 => u \in Tenants)
    BY <2>2
  <2> HIDE DEF t, u
  <2>5. LogsOK(heard) /\ FlowOK(heard) /\ IndexOK(heard)
    BY <2>2, <2>4, AppendKeepsFlow, AppendKeepsIndex DEF BookInStep, HandlesInStep, FlowInStep
  <2>6. CASE Len(tenants) = 1
    <3>1. store' = heard
      BY <2>3, <2>6
    <3>2. BookInStep'
      <4> HIDE DEF heard
      <4> QED  BY <1>1, <2>5, <3>1 DEF BookInStep
    <3>3. Log!Add(t)
      BY <2>2, <2>4, <3>1, <3>2, StoredIsAdded
    <3> QED  BY <2>4, <3>2, <3>3 DEF Log!Next
  <2>7. CASE Len(tenants) # 1
    <3>1. store' = both
      BY <2>3, <2>7
    <3>2. BookInStep'
      <4> HIDE DEF heard
      <4>1. IndexOK(both)
        BY <2>2, <2>4, <2>5, <2>7, AppendKeepsIndex
      <4> HIDE DEF both
      <4> QED  BY <1>1, <3>1, <4>1 DEF BookInStep
    <3>3. Log!AddTwice(t, u)
      BY <2>2, <2>4, <2>7, <3>1, <3>2, StoredIsAddedTwice
    <3> QED  BY <2>4, <2>7, <3>2, <3>3 DEF Log!Next
  <2> QED  BY <2>6, <2>7
<1>4. CASE ClearTenant
  <2>1. PICK t \in Tenants : store' = Clear(store, t)
    BY <1>4 DEF ClearTenant
  <2>2. IndexOK(store') /\ BookOf(store') = Log!Cleared(BookOf(store), t)
    BY <2>1, ClearKeepsIndex DEF BookInStep, HandlesInStep, FlowInStep
  <2>3. BookInStep'
    BY <1>1, <2>2 DEF BookInStep
  <2>4. Log!Becomes(Log!Cleared(Log!Book, t))
    <3>1. LogsOK(store')
      BY <1>1 DEF HandlesInStep, FlowInStep
    <3> QED  BY <2>2, <3>1, BookBecomes, BookIsMapped
  <2> QED  BY <2>3, <2>4 DEF Log!Clear, Log!Next
<1> QED  BY <1>2, <1>3, <1>4 DEF Next, FirstPage, NextPage, vars

\* The maps implement the log, whether outputs are stored once or, as server.ts:124 and 211
\* do, twice: a lookup finds the copy of a record that was stored last, for its tenant and no
\* other, exactly while no copy has left a log since; logs are bounded, and numbers have no gap.
THEOREM StoreImplementsLog == Spec => ImplementsLog
<1>1. Init => BookInStep /\ Log!Init
  BY BookInit DEF Init
<1>2. BookInStep /\ [Next]_vars => BookInStep' /\ [Log!Next]_Log!logVars
  BY BookNext
<1> QED
  BY <1>1, <1>2, PTL DEF Spec, ImplementsLog, Log!Spec

-----------------------------------------------------------------------------
(***************************************************************************)
(* The pages of a query                                                    *)
(***************************************************************************)

\* What a query is served of the store.
Served(s, q, r) ==
  /\ r.kind \in q.kinds
  /\ IF q.workflow # NoWorkflow THEN InFlow(s, q.workflow, r) /\ r.partner = q.partner
     ELSE InLog(s, q.partner, r)

\* A workflow is read from the oldest record, the log from the newest.
Before(q, h, g) == IF q.workflow # NoWorkflow THEN h < g ELSE g < h

Ordered(q, records) ==
  \A i, j \in 1 .. Len(records) : i < j => Before(q, records[i].handle, records[j].handle)

\* Filter keeps the order of a query.
LEMMA FilterOrdered ==
  ASSUME NEW q, NEW seq \in Seq(EventRecord), NEW S, Ordered(q, seq)
  PROVE  Ordered(q, Filter(seq, S))
<1>1. FilteredTo(seq, S, Len(seq), Filter(seq, S))
  BY FilterResult
<1> SUFFICES ASSUME NEW i \in 1 .. Len(Filter(seq, S)), NEW j \in 1 .. Len(Filter(seq, S)), i < j
             PROVE  Before(q, Filter(seq, S)[i].handle, Filter(seq, S)[j].handle)
  BY DEF Ordered
<1>2. PICK k, l \in 1 .. Len(seq) :
        k < l /\ Filter(seq, S)[i] = seq[k] /\ Filter(seq, S)[j] = seq[l]
  BY <1>1 DEF FilteredTo
<1>3. Before(q, seq[k].handle, seq[l].handle)
  BY <1>2 DEF Ordered
<1> QED  BY <1>2, <1>3

\* A sequence read backwards has what it has.
LEMMA ReverseHas ==
  ASSUME NEW T, NEW seq \in Seq(T), NEW r
  PROVE  /\ Reverse(seq) \in Seq(T) /\ Len(Reverse(seq)) = Len(seq)
         /\ \A i \in 1 .. Len(seq) : Reverse(seq)[i] = seq[(Len(seq) - i) + 1]
         /\ Has(Reverse(seq), r) <=> Has(seq, r)
<1> DEFINE n == Len(seq)
           back == Reverse(seq)
<1>1. n \in Nat
  OBVIOUS
<1>2. /\ back \in Seq(T) /\ Len(back) = n
      /\ \A i \in 1 .. n : back[i] = seq[(n - i) + 1]
  BY <1>1 DEF Reverse
<1> HIDE DEF back
<1>3. \A i \in 1 .. n : (n - i) + 1 \in 1 .. n /\ (n - ((n - i) + 1)) + 1 = i
  BY <1>1
<1>4. Has(back, r) => Has(seq, r)
  BY <1>2, <1>3 DEF Has
<1>5. ASSUME Has(seq, r) PROVE Has(back, r)
  <2>1. PICK i \in 1 .. n : seq[i] = r
    BY <1>5 DEF Has
  <2>2. back[(n - i) + 1] = seq[i]
    BY <1>2, <1>3
  <2> QED  BY <1>2, <1>3, <2>1, <2>2 DEF Has
<1> QED  BY <1>2, <1>4, <1>5 DEF back

\* What a query filters is what it is served, in the order of the handles if no two records
\* of its tenant share one.
LEMMA FilteredIsServed ==
  ASSUME NEW s, NEW n, LogsOK(s), FlowOK(s), HandlesOK(s, n), NEW q \in Queries
  PROVE  /\ Filtered(s, q) \in Seq(EventRecord)
         /\ q.partner \in Single => Ordered(q, Filtered(s, q))
         /\ \A r \in EventRecord : Has(Filtered(s, q), r) <=> Served(s, q, r)
<1> DEFINE t == q.partner
           w == q.workflow
           source == Source(s, q)
           S == {r \in EventRecord : r.kind \in q.kinds}
<1>1. t \in Tenants /\ w \in Workflows \cup {NoWorkflow}
  BY DEF Queries
<1>2. /\ source \in Seq(EventRecord)
      /\ t \in Single => Ordered(q, source)
      /\ \A r \in EventRecord : Has(source, r) <=>
           IF w # NoWorkflow THEN InFlow(s, w, r) /\ r.partner = t ELSE InLog(s, t, r)
  <2>1. CASE w # NoWorkflow
    <3> DEFINE a == getSequence(s, t, w)
    <3>1. w \in Workflows /\ source = a
      BY <1>1, <2>1 DEF Source
    <3>2. /\ a \in Seq(EventRecord) /\ Ascending(a)
          /\ \A r \in EventRecord : Has(a, r) <=> InFlow(s, w, r) /\ r.partner = t
      BY <1>1, <3>1, SequenceIsEnd
    <3> HIDE DEF a, source
    <3>3. ASSUME t \in Single, NEW i \in 1 .. Len(a), NEW j \in 1 .. Len(a), i < j
          PROVE  a[i].handle < a[j].handle
      <4>1. a[i] \in EventRecord /\ a[j] \in EventRecord /\ Has(a, a[i]) /\ Has(a, a[j])
        BY <3>2 DEF Has
      <4>2. InFlow(s, w, a[i]) /\ a[i].partner = t /\ InFlow(s, w, a[j]) /\ a[j].partner = t
        BY <3>2, <4>1
      <4>3. InLog(s, t, a[i]) /\ InLog(s, t, a[j])
        BY <3>1, <4>1, <4>2 DEF FlowOK
      <4>4. a[i].id < a[j].id
        BY <3>2, <3>3 DEF Ascending
      <4> QED  BY <3>3, <4>1, <4>3, <4>4 DEF HandlesOK
    <3>4. t \in Single => Ordered(q, a)
      BY <2>1, <3>3 DEF Ordered, Before
    <3> QED  BY <2>1, <3>1, <3>2, <3>4
  <2>2. CASE w = NoWorkflow
    <3> DEFINE log == s.logs[t]
               m == Len(log)
    <3>1. log \in Seq(EventRecord) /\ source = Reverse(log) /\ m \in Nat
      BY <1>1, <2>2 DEF Source, LogsOK, Typed
    <3>2. /\ source \in Seq(EventRecord) /\ Len(source) = m
          /\ \A i \in 1 .. m : source[i] = log[(m - i) + 1]
          /\ \A r : Has(source, r) <=> Has(log, r)
      <4> HIDE DEF log, source
      <4>1. \A r : /\ Reverse(log) \in Seq(EventRecord) /\ Len(Reverse(log)) = Len(log)
                   /\ \A i \in 1 .. Len(log) : Reverse(log)[i] = log[(Len(log) - i) + 1]
                   /\ Has(Reverse(log), r) <=> Has(log, r)
        BY <3>1, ReverseHas
      <4> QED  BY <3>1, <4>1
    <3> HIDE DEF source
    <3>3. ASSUME t \in Single, NEW i \in 1 .. m, NEW j \in 1 .. m, i < j
          PROVE  source[j].handle < source[i].handle
      <4>1. /\ (m - j) + 1 \in 1 .. m /\ (m - i) + 1 \in 1 .. m
            /\ (m - j) + 1 < (m - i) + 1
        BY <3>1, <3>3
      <4>2. \A k, l \in 1 .. m : k < l => log[k].handle < log[l].handle
        BY <3>3, HandlesAscend
      <4>3. log[(m - j) + 1].handle < log[(m - i) + 1].handle
        BY <4>1, <4>2
      <4> QED  BY <3>2, <4>3
    <3>4. t \in Single => Ordered(q, source)
      BY <2>2, <3>2, <3>3 DEF Ordered, Before
    <3> QED  BY <2>2, <3>2, <3>4 DEF InLog
  <2> QED  BY <2>1, <2>2
<1>3. Filtered(s, q) = Filter(source, S)
  BY DEF Filtered
<1> HIDE DEF source
<1>4. Filter(source, S) \in Seq(EventRecord) /\ (t \in Single => Ordered(q, Filter(source, S)))
  BY <1>2, FilterResult, FilterOrdered
<1>5. ASSUME NEW r \in EventRecord
      PROVE  Has(Filter(source, S), r) <=> Served(s, q, r)
  <2>1. r \in S <=> r.kind \in q.kinds
    OBVIOUS
  <2> HIDE DEF S
  <2>2. Has(Filter(source, S), r) <=> Has(source, r) /\ r \in S
    BY <1>2, FilterHas
  <2> QED  BY <1>2, <2>1, <2>2 DEF Served
<1> QED  BY <1>3, <1>4, <1>5

\* After the record under the cursor comes whatever the order puts after it.
LEMMA AfterTheCursor ==
  ASSUME NEW q \in Queries, NEW records \in Seq(EventRecord), Ordered(q, records),
         NEW cursor \in Nat, NEW k \in 1 .. Len(records),
         Before(q, cursor, records[k].handle)
         \/ \A i \in 1 .. Len(records) : records[i].handle # cursor
  PROVE  StartOf(records, cursor) \in 1 .. k
<1> DEFINE found == {i \in DOMAIN records : records[i].handle = cursor}
<1>1. found \subseteq Nat /\ DOMAIN records = 1 .. Len(records)
  OBVIOUS
<1>2. CASE found = {}
  BY <1>2 DEF StartOf
<1>3. CASE found # {}
  <2> DEFINE i == CHOOSE i \in found : \A j \in found : i <= j
  <2>1. StartOf(records, cursor) = 1 + i
    BY <1>3 DEF StartOf
  <2>2. \E x \in found : \A j \in found : x <= j
    <3> HIDE DEF found
    <3> QED  BY <1>1, <1>3, LeastNumber
  <2>3. i \in found
    <3> HIDE DEF found
    <3> QED  BY <2>2
  <2> HIDE DEF i
  <2>4. i \in 1 .. Len(records) /\ records[i].handle = cursor
    BY <1>1, <2>3
  <2>5. Before(q, records[i].handle, records[k].handle)
    BY <2>4
  <2>6. \A j \in 1 .. Len(records) : records[j].handle \in Nat
    <3>1. \A j \in 1 .. Len(records) : records[j] \in EventRecord
      OBVIOUS
    <3> QED  BY <3>1 DEF EventRecord
  <2>7. i < k
    <3>1. i # k
      BY <2>4, <2>5, <2>6 DEF Before
    <3>2. k < i => Before(q, records[k].handle, records[i].handle)
      BY <2>4 DEF Ordered
    <3>3. ~(k < i)
      BY <2>4, <2>5, <2>6, <3>2 DEF Before
    <3> QED  BY <2>4, <3>1, <3>3
  <2> QED  BY <2>1, <2>4, <2>7
<1> QED  BY <1>2, <1>3

\* A record after the start of a page that the page does not have comes after its cursor.
LEMMA PageAdvances ==
  ASSUME NEW q \in Queries, NEW records \in Seq(EventRecord), Ordered(q, records),
         NEW limit \in Nat \ {0}, NEW cursor, NEW k \in 1 .. Len(records),
         StartOf(records, cursor) \in 1 .. k,
         records[k].id \notin Ids(Page(records, limit, cursor).records)
  PROVE  /\ Page(records, limit, cursor).hasMore
         /\ Before(q, Page(records, limit, cursor).nextCursor, records[k].handle)
<1> DEFINE n == Len(records)
           start == StartOf(records, cursor)
           last == Min({start + limit - 1, n})
           page == SubSeq(records, start, last)
<1>1. n \in Nat /\ start \in Nat /\ start >= 1 /\ limit \in Nat /\ limit >= 1
  OBVIOUS
<1> HIDE DEF start
<1>2. last = IF start + limit - 1 <= n THEN start + limit - 1 ELSE n
  <2>1. start + limit - 1 \in Nat
    BY <1>1
  <2> QED  BY <1>1, <2>1, MinOfTwo
<1> HIDE DEF last
<1>3. /\ last \in Nat /\ last <= n /\ Len(page) = last - start + 1 /\ Len(page) \in Nat
      /\ \A i \in 1 .. Len(page) : page[i] = records[start + i - 1]
      /\ DOMAIN page = 1 .. Len(page)
  <2>1. start <= n
    BY <1>1 DEF start
  <2>2. last \in Nat /\ last <= n /\ start <= last
    BY <1>1, <1>2, <2>1
  <2> QED  BY <1>1, <2>2
<1>4. Page(records, limit, cursor) =
        [records |-> page, hasMore |-> start + limit <= n,
         nextCursor |-> IF start + limit <= n THEN page[Len(page)].handle ELSE NoHandle]
  BY DEF Page, HasMore, Last, start, last
<1> HIDE DEF page
<1>5. k > last
  <2> SUFFICES ASSUME k <= last PROVE FALSE
    BY <1>1, <1>3
  <2>1. k - start + 1 \in 1 .. Len(page) /\ start + (k - start + 1) - 1 = k
    BY <1>1, <1>3 DEF start
  <2>2. page[k - start + 1] = records[k]
    BY <1>3, <2>1
  <2>3. records[k] \in ToSet(page)
    BY <1>3, <2>1, <2>2 DEF ToSet
  <2> QED  BY <1>4, <2>3 DEF Ids
<1>6. start + limit <= n /\ last = start + limit - 1
  BY <1>1, <1>2, <1>5
<1>7. Len(page) \in 1 .. Len(page) /\ start + Len(page) - 1 = last
  BY <1>1, <1>3, <1>6
<1>8. page[Len(page)] = records[last]
  BY <1>3, <1>7
<1>9. Page(records, limit, cursor).nextCursor = records[last].handle
  BY <1>4, <1>6, <1>8
<1>10. Before(q, records[last].handle, records[k].handle)
  BY <1>1, <1>5, <1>6 DEF Ordered
<1>11. Page(records, limit, cursor).hasMore
  <2> HIDE DEF n
  <2>1. Page(records, limit, cursor).hasMore = (start + limit <= n)
    BY <1>4
  <2> QED  BY <1>6, <2>1
<1> QED  BY <1>9, <1>10, <1>11

\* The values of a client.
ClientType ==
  [paging : BOOLEAN, cursor : Nat, got : SUBSET Nat, first : SUBSET Nat, query : Queries]

\* The records of a client's first answer were made by then and matched its query; those it
\* has not got, and is still served, come after its cursor, and it knows that there is more,
\* if it reads of a tenant for whom no output is stored twice.
ClientOK(s, c) ==
  /\ c \in ClientType
  /\ \A i \in c.first : i <= s.made
  /\ \A t \in Tenants, r \in EventRecord :
       InLog(s, t, r) /\ r.id \in c.first =>
         /\ t = c.query.partner /\ r.kind \in c.query.kinds
         /\ c.query.workflow # NoWorkflow => r.workflow = c.query.workflow
  /\ \A r \in EventRecord :
       /\ c.query.partner \in Single
       /\ Served(s, c.query, r) /\ r.id \in c.first /\ r.id \notin c.got
       => c.paging /\ Before(c.query, c.cursor, r.handle)

\* A store that has no more but records with new identities serves the client no worse.
LEMMA FewerServed ==
  ASSUME NEW s, s.made \in Nat, NEW c, ClientOK(s, c), NEW z, z.made \in Nat, s.made <= z.made,
         \A r \in EventRecord :
           /\ \A u \in Tenants : InLog(z, u, r) => InLog(s, u, r) \/ r.id = s.made + 1
           /\ \A w \in Workflows : InFlow(z, w, r) => InFlow(s, w, r) \/ r.id = s.made + 1
  PROVE  ClientOK(z, c)
<1> DEFINE n == s.made
           m == z.made
<1>1. c \in ClientType /\ n \in Nat /\ m \in Nat /\ n <= m
      /\ \A i \in c.first : i <= n
  BY DEF ClientOK
<1> HIDE DEF n, m
<1>2. c.query.partner \in Tenants /\ c.query.workflow \in Workflows \cup {NoWorkflow}
  BY <1>1 DEF ClientType, Queries
<1>3. c.first \subseteq Nat /\ n + 1 \notin c.first /\ \A i \in c.first : i <= m
  BY <1>1 DEF ClientType
<1>4. \A t \in Tenants, r \in EventRecord :
        InLog(z, t, r) /\ r.id \in c.first =>
          /\ t = c.query.partner /\ r.kind \in c.query.kinds
          /\ c.query.workflow # NoWorkflow => r.workflow = c.query.workflow
  BY <1>3 DEF ClientOK, n
<1>5. ASSUME NEW r \in EventRecord, c.query.partner \in Single,
             Served(z, c.query, r), r.id \in c.first, r.id \notin c.got
      PROVE  c.paging /\ Before(c.query, c.cursor, r.handle)
  <2>1. Served(s, c.query, r)
    BY <1>2, <1>3, <1>5 DEF Served, n
  <2> QED  BY <1>5, <2>1 DEF ClientOK
<1> QED  BY <1>1, <1>3, <1>4, <1>5 DEF ClientOK, m

\* An append serves it no worse.
LEMMA AppendServes ==
  ASSUME NEW s, LogsOK(s), FlowOK(s), NEW c, ClientOK(s, c), NEW t \in Tenants, NEW handle,
         NEW event, IsEvent(event, handle)
  PROVE  ClientOK(Appended(s, t, event), c)
<1> DEFINE a == Appended(s, t, event)
           record == RecordOf(s, t, event)
<1>1. record.id = s.made + 1 /\ Added(a, Room(s, t), t, record)
  BY AppendGives
<1>2. s.made \in Nat /\ a.made = s.made + 1
  BY <1>1, RoomIsMade DEF Added, LogsOK, Typed
<1>3. \A r \in EventRecord :
        /\ \A u \in Tenants : InLog(a, u, r) => InLog(s, u, r) \/ r = record
        /\ \A w \in Workflows : InFlow(a, w, r) => InFlow(s, w, r) \/ r = record
  BY AppendAdds
<1> HIDE DEF a, record
<1>4. ClientOK(a, c)
  <2>1. a.made \in Nat /\ s.made <= a.made
    BY <1>2
  <2> QED  BY <1>1, <1>2, <1>3, <2>1, FewerServed
<1> QED  BY <1>4 DEF a

PagingInStep == HandlesInStep /\ ClientOK(store, client)

\* A client that has asked for nothing misses nothing.
LEMMA PagingInit == Init => PagingInStep
<1> SUFFICES ASSUME Init PROVE PagingInStep
  OBVIOUS
<1>1. HandlesInStep
  BY HandlesInit DEF Init
<1>2. client \in NewClients
  BY DEF Init
<1>3. client \in ClientType
  <2>1. {FALSE} \subseteq BOOLEAN
    OBVIOUS
  <2>2. {NoHandle} \subseteq Nat /\ {{}} \subseteq SUBSET Nat
    BY DEF NoHandle
  <2> DEFINE off == {FALSE}
             none == {{}}
             zero == {NoHandle}
             bool == BOOLEAN
  <2>3. client \in [paging : off, cursor : zero, got : none, first : none, query : Queries]
    BY <1>2 DEF NewClients
  <2>4. off \subseteq bool /\ zero \subseteq Nat /\ none \subseteq SUBSET Nat
    BY <2>1, <2>2
  <2> HIDE DEF off, none, zero, bool
  <2>5. client \in [paging : bool, cursor : Nat, got : SUBSET Nat, first : SUBSET Nat, query : Queries]
    BY <2>3, <2>4
  <2> QED  BY <2>5 DEF ClientType, bool
<1>4. client.first = {}
  BY <1>2 DEF NewClients
<1> QED  BY <1>1, <1>3, <1>4 DEF PagingInStep, ClientOK

PageOK(page) ==
  page.hasMore \in BOOLEAN /\ page.nextCursor \in Nat /\ Ids(page.records) \subseteq Nat

\* Whatever the page, the client can keep what it says.
LEMMA PageType ==
  ASSUME NEW records \in Seq(EventRecord), NEW limit \in Nat \ {0}, NEW cursor
  PROVE  PageOK(Page(records, limit, cursor))
<1> DEFINE n == Len(records)
           start == StartOf(records, cursor)
           last == Min({start + limit - 1, n})
           page == SubSeq(records, start, last)
<1>1. n \in Nat /\ limit \in Nat /\ limit >= 1
  OBVIOUS
<1>2. start \in Nat /\ start >= 1
  <2> DEFINE found == {i \in DOMAIN records : records[i].handle = cursor}
  <2>1. found \subseteq Nat
    OBVIOUS
  <2>2. found = {} => start = 1
    BY DEF StartOf
  <2>3. ASSUME found # {} PROVE start \in Nat /\ start >= 1
    <3> DEFINE i == CHOOSE i \in found : \A j \in found : i <= j
    <3>1. start = 1 + i
      BY <2>3 DEF StartOf
    <3>2. i \in found
      <4>1. \E x \in found : \A j \in found : x <= j
        <5> HIDE DEF found
        <5> QED  BY <2>1, <2>3, LeastNumber
      <4> HIDE DEF found
      <4> QED  BY <4>1
    <3> HIDE DEF i, found
    <3> QED  BY <2>1, <3>1, <3>2
  <2> QED  BY <2>2, <2>3
<1> HIDE DEF start
<1>3. last = IF start + limit - 1 <= n THEN start + limit - 1 ELSE n
  <2>1. start + limit - 1 \in Nat
    BY <1>1, <1>2
  <2> QED  BY <1>1, <2>1, MinOfTwo
<1> HIDE DEF last
<1>4. last \in Nat /\ last <= n
  BY <1>1, <1>2, <1>3
<1>5. \A i \in start .. last : records[i] \in EventRecord
  BY <1>1, <1>2, <1>4
<1>6. page \in Seq(EventRecord)
  BY <1>1, <1>2, <1>4, <1>5
<1>7. start + limit <= n => Len(page) \in 1 .. Len(page)
  BY <1>1, <1>2, <1>3
<1>8. Page(records, limit, cursor) =
        [records |-> page, hasMore |-> start + limit <= n,
         nextCursor |-> IF start + limit <= n THEN page[Len(page)].handle ELSE NoHandle]
  BY DEF Page, HasMore, Last, start, last
<1> HIDE DEF page, n
<1>9. (start + limit <= n) \in BOOLEAN
  OBVIOUS
<1>10. Page(records, limit, cursor).hasMore \in BOOLEAN
  BY <1>8, <1>9
<1>11. start + limit <= n => page[Len(page)].handle \in Nat
  <2>1. start + limit <= n => page[Len(page)] \in EventRecord
    BY <1>6, <1>7
  <2> QED  BY <2>1 DEF EventRecord
<1>12. Page(records, limit, cursor).nextCursor \in Nat
  BY <1>8, <1>11 DEF NoHandle
<1>13. Ids(page) \subseteq Nat
  <2>1. ToSet(page) \subseteq EventRecord
    BY <1>6 DEF ToSet
  <2> QED  BY <2>1 DEF Ids, EventRecord
<1>14. Page(records, limit, cursor).records = page
  BY <1>8
<1> QED  BY <1>10, <1>12, <1>13, <1>14 DEF PageOK

\* What a query is served is logged for its tenant and matches.
LEMMA ServedIsLogged ==
  ASSUME NEW s, LogsOK(s), FlowOK(s), NEW q \in Queries,
         NEW r \in EventRecord, Served(s, q, r)
  PROVE  /\ InLog(s, q.partner, r) /\ q.partner \in Tenants
         /\ r.kind \in q.kinds /\ (q.workflow # NoWorkflow => r.workflow = q.workflow)
         /\ r.id \in 1 .. s.made
<1>1. q.partner \in Tenants /\ q.workflow \in Workflows \cup {NoWorkflow}
  BY DEF Queries
<1>2. /\ InLog(s, q.partner, r) /\ r.kind \in q.kinds
      /\ q.workflow # NoWorkflow => r.workflow = q.workflow
  BY <1>1 DEF Served, FlowOK
<1> QED  BY <1>1, <1>2, LoggedRecord

\* The client after a page of the records.
Given(c, page, first) ==
  [c EXCEPT !.paging = page.hasMore, !.cursor = page.nextCursor,
            !.got = @ \cup Ids(page.records), !.first = first]

IsGiven(d, c, page, first) ==
  /\ d \in ClientType
  /\ d.query = c.query
  /\ d.first = first
  /\ d.got = c.got \cup Ids(page.records)
  /\ d.paging = page.hasMore
  /\ d.cursor = page.nextCursor

\* The client has what the page says, and keeps its query.
LEMMA GivenClient ==
  ASSUME NEW c, NEW page, NEW first,
         c \in ClientType, PageOK(page), first \subseteq Nat
  PROVE  IsGiven(Given(c, page, first), c, page, first)
<1> DEFINE more == page.hasMore
           next == page.nextCursor
           got == c.got \cup Ids(page.records)
           bool == BOOLEAN
<1>1. Given(c, page, first) = [c EXCEPT !.paging = more, !.cursor = next, !.got = got,
                                        !.first = first]
  BY DEF Given
<1>2. more \in bool /\ next \in Nat /\ got \in SUBSET Nat /\ c.query \in Queries
  BY DEF PageOK, ClientType
<1> HIDE DEF more, next, got, bool
<1>3. Given(c, page, first) = [paging |-> more, cursor |-> next, got |-> got, first |-> first,
                               query |-> c.query]
  <2>1. c \in [paging : bool, cursor : Nat, got : SUBSET Nat, first : SUBSET Nat, query : Queries]
    BY DEF ClientType, bool
  <2> QED  BY <1>1, <2>1
<1>4. [paging |-> more, cursor |-> next, got |-> got, first |-> first, query |-> c.query] \in
        [paging : bool, cursor : Nat, got : SUBSET Nat, first : SUBSET Nat, query : Queries]
  BY <1>2
<1>5. Given(c, page, first) \in ClientType
  BY <1>3, <1>4 DEF ClientType, bool
<1> QED  BY <1>3, <1>5 DEF IsGiven, more, next, got

\* A client that asks for its first page, or the one after its cursor, stays in step.
LEMMA AskKeeps ==
  ASSUME NEW s, NEW n \in Nat, LogsOK(s), FlowOK(s), HandlesOK(s, n), NEW c, ClientOK(s, c),
         NEW cursor, NEW first,
         \/ c.paging /\ cursor = c.cursor /\ first = c.first
         \/ cursor = NoHandle /\ first = Ids(Filtered(s, c.query))
  PROVE  ClientOK(s, Given(c, Page(Filtered(s, c.query), c.query.limit, cursor), first))
<1> DEFINE q == c.query
           records == Filtered(s, q)
           page == Page(records, q.limit, cursor)
           d == Given(c, page, first)
<1>1. /\ c \in ClientType
      /\ q \in Queries /\ c.cursor \in Nat /\ c.first \subseteq Nat
  BY DEF ClientOK, ClientType
<1>2. q.limit \in Nat \ {0}
  BY <1>1, EventStoreAssumption DEF Queries
<1>3. /\ records \in Seq(EventRecord) /\ (q.partner \in Single => Ordered(q, records))
      /\ \A r \in EventRecord : Has(records, r) <=> Served(s, q, r)
  BY <1>1, FilteredIsServed
<1> HIDE DEF records
<1>4. cursor \in Nat
  BY <1>1 DEF NoHandle
<1>5. PageOK(page)
  BY <1>2, <1>3, PageType
<1>6. ASSUME NEW i \in first
      PROVE  i \in c.first \/ \E r \in EventRecord : Served(s, q, r) /\ i = r.id
  <2>1. i \in c.first \/ i \in Ids(records)
    BY <1>6 DEF records
  <2>2. ASSUME i \in Ids(records) PROVE \E r \in EventRecord : Served(s, q, r) /\ i = r.id
    <3>1. PICK k \in 1 .. Len(records) : i = records[k].id
      BY <1>3, <2>2 DEF Ids, ToSet
    <3>2. records[k] \in EventRecord /\ Has(records, records[k])
      BY <1>3 DEF Has
    <3> QED  BY <1>3, <3>1, <3>2
  <2> QED  BY <2>1, <2>2
<1>7. \A i \in first : i \in Nat /\ i <= s.made
  <2> SUFFICES ASSUME NEW i \in first PROVE i \in Nat /\ i <= s.made
    OBVIOUS
  <2>1. CASE i \in c.first
    BY <1>1, <2>1 DEF ClientOK
  <2>2. CASE i \notin c.first
    <3>1. PICK r \in EventRecord : Served(s, q, r) /\ i = r.id
      BY <1>6, <2>2
    <3>2. r.id \in 1 .. s.made
      BY <1>1, <3>1, ServedIsLogged
    <3> QED  BY <3>1, <3>2
  <2> QED  BY <2>1, <2>2
<1>8. first \subseteq Nat
  BY <1>7
<1> HIDE DEF page, q
<1>9. IsGiven(d, c, page, first)
  BY <1>1, <1>5, <1>8, GivenClient
<1> HIDE DEF d
<1>10. /\ d \in ClientType /\ d.query = q /\ d.first = first /\ d.got = c.got \cup Ids(page.records)
      /\ d.cursor = page.nextCursor
  BY <1>9 DEF IsGiven, q
<1>11. ASSUME NEW t \in Tenants, NEW r \in EventRecord, InLog(s, t, r), r.id \in first
       PROVE  /\ t = q.partner /\ r.kind \in q.kinds
              /\ q.workflow # NoWorkflow => r.workflow = q.workflow
  <2>1. CASE r.id \in c.first
    BY <1>11, <2>1 DEF ClientOK, q
  <2>2. CASE r.id \notin c.first
    <3>1. PICK x \in EventRecord : Served(s, q, x) /\ r.id = x.id
      BY <1>6, <1>11, <2>2
    <3>2. /\ InLog(s, q.partner, x) /\ q.partner \in Tenants
          /\ x.kind \in q.kinds /\ (q.workflow # NoWorkflow => x.workflow = q.workflow)
      BY <1>1, <3>1, ServedIsLogged
    <3>3. r = x /\ t = q.partner
      BY <1>11, <3>1, <3>2, SameId
    <3> QED  BY <3>2, <3>3
  <2> QED  BY <2>1, <2>2
<1>12. ASSUME NEW r \in EventRecord, q.partner \in Single,
              Served(s, q, r), r.id \in first, r.id \notin d.got
       PROVE  d.paging /\ Before(q, d.cursor, r.handle)
  <2>1. Has(records, r)
    BY <1>3, <1>12
  <2>2. PICK k \in 1 .. Len(records) : records[k] = r
    BY <2>1 DEF Has
  <2>3. Before(q, cursor, records[k].handle)
        \/ \A i \in 1 .. Len(records) : records[i].handle # cursor
    <3>1. CASE c.paging /\ cursor = c.cursor /\ first = c.first
      <4>1. r.id \notin c.got
        BY <1>10, <1>12
      <4>2. Before(q, c.cursor, r.handle)
        BY <1>12, <3>1, <4>1 DEF ClientOK, q
      <4> QED  BY <2>2, <3>1, <4>2
    <3>2. CASE cursor = NoHandle
      <4> SUFFICES ASSUME NEW i \in 1 .. Len(records) PROVE records[i].handle # cursor
        OBVIOUS
      <4>1. records[i] \in EventRecord /\ Has(records, records[i])
        BY <1>3 DEF Has
      <4>2. Served(s, q, records[i])
        BY <1>3, <4>1
      <4>3. records[i].handle \in 1 .. n
        BY <1>1, <4>1, <4>2, ServedIsLogged DEF HandlesOK
      <4> QED  BY <3>2, <4>3 DEF NoHandle
    <3> QED  BY <3>1, <3>2
  <2>4. StartOf(records, cursor) \in 1 .. k
    BY <1>1, <1>3, <1>4, <1>12, <2>3, AfterTheCursor
  <2>5. records[k].id \notin Ids(Page(records, q.limit, cursor).records)
    BY <1>10, <1>12, <2>2 DEF page
  <2>6. /\ Page(records, q.limit, cursor).hasMore
        /\ Before(q, Page(records, q.limit, cursor).nextCursor, records[k].handle)
    BY <1>1, <1>2, <1>3, <1>12, <2>4, <2>5, PageAdvances
  <2>7. d.paging
    BY <1>9, <2>6 DEF IsGiven, page
  <2> QED  BY <1>10, <2>2, <2>6, <2>7 DEF page
<1>13. ClientOK(s, d)
  BY <1>7, <1>10, <1>11, <1>12 DEF ClientOK
<1> QED  BY <1>13 DEF d, page, records, q

\* Every step keeps the client in step with the store.
LEMMA PagingNext ==
  ASSUME PagingInStep, [Next]_vars
  PROVE  PagingInStep'
<1>1. HandlesInStep'
  BY HandlesNext DEF PagingInStep
<1>2. /\ outputs \in Nat /\ LogsOK(store) /\ FlowOK(store) /\ HandlesOK(store, outputs)
      /\ ClientOK(store, client)
  BY DEF PagingInStep, HandlesInStep, FlowInStep
<1>3. CASE UNCHANGED vars
  BY <1>1, <1>2, <1>3 DEF PagingInStep, vars
<1>4. CASE Store
  <2>1. PICK tenants \in StoredUnder : \E event :
              /\ IsEvent(event, outputs + 1) /\ AppendedOver(tenants, event)
              /\ tenants[1] \in Tenants
              /\ Len(tenants) # 1 => Len(tenants) = 2 /\ tenants[2] \in Tenants
    BY <1>2, <1>4, StoreAppends
  <2>2. PICK event :
              /\ IsEvent(event, outputs + 1) /\ AppendedOver(tenants, event)
              /\ tenants[1] \in Tenants
              /\ Len(tenants) # 1 => Len(tenants) = 2 /\ tenants[2] \in Tenants
    BY <2>1
  <2> DEFINE heard == Appended(store, tenants[1], event)
             both == Appended(heard, tenants[2], event)
  <2>3. LogsOK(heard) /\ FlowOK(heard) /\ ClientOK(heard, client)
    BY <1>2, <2>2, AppendKeepsFlow, AppendServes
  <2>4. store' = IF Len(tenants) = 1 THEN heard ELSE both
    BY <2>2 DEF AppendedOver
  <2> HIDE DEF heard
  <2>5. Len(tenants) # 1 => ClientOK(both, client)
    BY <2>2, <2>3, AppendServes
  <2> HIDE DEF both
  <2>6. client' = client
    BY <1>4 DEF Store
  <2> QED  BY <1>1, <2>3, <2>4, <2>5, <2>6 DEF PagingInStep
<1>5. CASE ClearTenant
  <2>1. PICK t \in Tenants : store' = Clear(store, t)
    BY <1>5 DEF ClearTenant
  <2>2. \A r \in EventRecord :
          /\ \A u \in Tenants : InLog(store', u, r) => InLog(store, u, r)
          /\ \A w \in Workflows : InFlow(store', w, r) => InFlow(store, w, r)
    BY <1>2, <2>1, ClearAdds
  <2>3. store'.made = store.made /\ store.made \in Nat
    BY <1>2, <2>1, ClearSteps DEF LogsOK, Typed
  <2>4. ClientOK(store', client)
    BY <1>2, <2>2, <2>3, FewerServed
  <2> QED  BY <1>1, <1>5, <2>4 DEF PagingInStep, ClearTenant
<1>6. ASSUME NEW cursor, NEW first, Ask(cursor, first), UNCHANGED <<store, outputs>>,
             \/ client.paging /\ cursor = client.cursor /\ first = client.first
             \/ cursor = NoHandle /\ first = Ids(Filtered(store, client.query))
      PROVE  PagingInStep'
  <2>1. client' = Given(client, Page(Filtered(store, client.query), client.query.limit, cursor),
                        first)
    BY <1>6 DEF Ask, Given
  <2>2. ClientOK(store, client')
    BY <1>2, <1>6, <2>1, AskKeeps
  <2> QED  BY <1>1, <1>6, <2>2 DEF PagingInStep
<1>7. CASE FirstPage
  BY <1>6, <1>7 DEF FirstPage
<1>8. CASE NextPage
  BY <1>6, <1>8 DEF NextPage
<1> QED  BY <1>3, <1>4, <1>5, <1>7, <1>8 DEF Next

\* A client that was told that there is no more has every record that matched when it asked
\* first and is still logged, whatever was stored, evicted or cleared between its pages; of a
\* workflow, as long as its index agrees with the log.  This is for a tenant for whom no
\* output is stored twice; otherwise two records have one handle, and a cursor does not say
\* which of them it means.
THEOREM PagesMissNothing == Spec => [](client.query.partner \in Single => PagingIsComplete)
<1>1. PagingInStep /\ [Next]_vars => PagingInStep'
  BY PagingNext
<1>2. PagingInStep => (client.query.partner \in Single => PagingIsComplete)
  <2> SUFFICES ASSUME PagingInStep, client.query.partner \in Single, ~client.paging,
                      client.query.workflow # NoWorkflow =>
                        Agrees(client.query.partner, client.query.workflow),
                      NEW i \in client.first, i \in {r.id : r \in Logged(store)}
               PROVE  i \in client.got
    BY DEF PagingIsComplete
  <2> DEFINE q == client.query
  <2>1. LogsOK(store) /\ FlowOK(store)
    BY DEF PagingInStep, HandlesInStep, FlowInStep
  <2>2. ClientOK(store, client) /\ q \in Queries
    BY DEF PagingInStep, ClientOK, ClientType
  <2>3. q.partner \in Tenants /\ q.workflow \in Workflows \cup {NoWorkflow}
    BY <2>2 DEF Queries
  <2>4. PICK t \in Tenants : \E r \in ToSet(store.logs[t]) : i = r.id
    BY DEF Logged
  <2>5. PICK r \in ToSet(store.logs[t]) : i = r.id
    BY <2>4
  <2>6. r \in EventRecord /\ InLog(store, t, r)
    <3>1. store.logs[t] \in Seq(EventRecord)
      BY <2>1 DEF LogsOK, Typed
    <3> QED  BY <2>5, <3>1 DEF ToSet, InLog, Has
  <2>7. /\ t = q.partner /\ r.kind \in q.kinds
        /\ q.workflow # NoWorkflow => r.workflow = q.workflow
    BY <2>2, <2>5, <2>6 DEF ClientOK
  <2>8. Served(store, q, r)
    <3>1. CASE q.workflow = NoWorkflow
      BY <2>6, <2>7, <3>1 DEF Served
    <3>2. CASE q.workflow # NoWorkflow
      <4> DEFINE w == q.workflow
                 a == getSequence(store, t, w)
                 b == Filter(store.logs[t], OfFlow(w))
      <4>1. w \in Workflows
        BY <2>3, <3>2
      <4>2. /\ Has(a, r) <=> InFlow(store, w, r) /\ r.partner = t
            /\ Has(b, r) <=> InLog(store, t, r) /\ r.workflow = w
        BY <2>1, <2>6, <4>1, SequenceIsEnd
      <4>3. a = b
        BY <2>7, <3>2 DEF Agrees, OfFlow
      <4>4. InFlow(store, w, r) /\ r.partner = t
        BY <2>6, <2>7, <3>2, <4>2, <4>3
      <4> QED  BY <2>7, <3>2, <4>4 DEF Served
    <3> QED  BY <3>1, <3>2
  <2> QED  BY <2>2, <2>5, <2>6, <2>8 DEF ClientOK
<1> QED  BY <1>1, <1>2, PagingInit, PTL DEF Spec

=============================================================================
