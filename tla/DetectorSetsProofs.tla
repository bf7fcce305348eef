------------------------- MODULE DetectorSetsProofs -------------------------
(***************************************************************************)
(* What holds of the detectors of the tenants for every number of tenants, *)
(* workflows, calls and rules, and for all premises, policies and tests.   *)
(* Three invariants that do not depend on each other: of the rules, of the *)
(* authorities granted, and of the change windows.                         *)
(***************************************************************************)
EXTENDS DetectorSets, SequenceTheorems, TLAPS

-----------------------------------------------------------------------------
(***************************************************************************)
(* The rules                                                               *)
(***************************************************************************)

\* The rules of a tenant that added those of a.
AllRules(a) == Gate!DEFAULT_GATE_RULES \o a

\* s is a set of detectors with an array of rules of its own.
OwnSet(s, rules) ==
  s = [gate |-> "own", rules |-> rules, premises |-> s.premises,
       auditLog |-> s.auditLog, lastScore |-> s.lastScore]

\* The shared defaults are never written, and a tenant's rules are the defaults and
\* those it added to its present set.
RulesInv ==
  /\ shared = Gate!DEFAULT_GATE_RULES
  /\ sets = [t \in Tenants |-> sets[t]]
  /\ added \in [Tenants -> Seq(Rules)]
  /\ \A t \in Tenants :
       /\ sets[t] = NoSet => added[t] = <<>>
       /\ sets[t] # NoSet => OwnSet(sets[t], AllRules(added[t]))

\* The default rules, and those that are added, are elements of one set.
LEMMA DefaultsType == \E S : Rules \subseteq S /\ Gate!DEFAULT_GATE_RULES \in Seq(S)
<1> DEFINE five == [i \in 1..5 |-> Gate!Rule("critical", "sys",
     <<"INJECTION_PATTERN", "SIGNATURE_INVALID", "KNOWN_BAD_SOURCE", "REPLAY_ATTACK",
       "TAMPERED_PAYLOAD">>[i])]
           rest == <<Gate!Rule("warning", "req", "RATE_EXCEEDED"),
       Gate!Rule("warning", "req", "UNRECOGNIZED_SOURCE"),
       Gate!Rule("warning", "req", "GEO_MISMATCH"),
       Gate!Rule("warning", "flow", "SCHEMA_VIOLATION"),
       Gate!Rule("warning", "req", "OVERSIZED_PAYLOAD"),
       Gate!Rule("info", "req", "DEPRECATED_ENDPOINT"),
       Gate!Rule("info", "req", "SLOW_CLIENT")>>
           S == Rules \cup {five[i] : i \in 1..5} \cup {rest[i] : i \in 1..7}
<1>1. Gate!DEFAULT_GATE_RULES = five \o rest
  BY DEF Gate!DEFAULT_GATE_RULES
<1>2. five = [i \in 1..5 |-> five[i]] /\ rest = [i \in 1..7 |-> rest[i]]
  OBVIOUS
<1> HIDE DEF five, rest
<1>3. five \in [1..5 -> S] /\ rest \in [1..7 -> S]
  BY <1>2
<1> HIDE DEF S
<1>4. five \in Seq(S) /\ rest \in Seq(S)
  <2>1. [1..5 -> S] \subseteq Seq(S) /\ [1..7 -> S] \subseteq Seq(S)
    BY SeqDef, Zenon, 5 \in Nat, 7 \in Nat
  <2> QED  BY <1>3, <2>1
<1>5. five \o rest \in Seq(S)
  BY <1>4, ConcatProperties
<1> QED  BY <1>1, <1>5 DEF S

\* A rule that is added comes after the defaults and what was added before.
LEMMA AllRulesAppend ==
  ASSUME NEW a \in Seq(Rules), NEW rule \in Rules
  PROVE  Append(AllRules(a), rule) = AllRules(Append(a, rule))
<1> DEFINE one == <<rule>>
           D == Gate!DEFAULT_GATE_RULES
<1>1. PICK S : Rules \subseteq S /\ D \in Seq(S)
  BY DefaultsType
<1>2. a \in Seq(S) /\ rule \in S /\ one \in Seq(S)
  BY <1>1
<1>3. Append(a, rule) = a \o one
  BY <1>2, AppendIsConcat
<1>4. AllRules(a) \in Seq(S)
  BY <1>1, <1>2, ConcatProperties DEF AllRules
<1>5. Append(AllRules(a), rule) = AllRules(a) \o one
  BY <1>2, <1>4, AppendIsConcat
<1> HIDE DEF one, D
<1>6. (D \o a) \o one = D \o (a \o one)
  BY <1>1, <1>2, ConcatAssociative
<1>7. AllRules(a \o one) = D \o (a \o one) /\ AllRules(a) = D \o a
  BY DEF AllRules, D
<1> QED  BY <1>3, <1>5, <1>6, <1>7

LEMMA AllRulesEmpty == AllRules(<<>>) = Gate!DEFAULT_GATE_RULES
BY DefaultsType, ConcatEmptySeq DEF AllRules

\* The set a tenant uses next, made anew if there is none.
LEMMA SetOfOwn ==
  ASSUME RulesInv, NEW t \in Tenants
  PROVE  OwnSet(SetOf(t), AllRules(added[t]))
<1>1. CASE sets[t] = NoSet
  <2>1. AllRules(<<>>) = Gate!DEFAULT_GATE_RULES
    BY AllRulesEmpty
  <2>2. OwnSet(NewSet, Gate!DEFAULT_GATE_RULES)
    BY DEF OwnSet, NewSet, NewGate, RulesInv
  <2> QED  BY <1>1, <2>1, <2>2 DEF SetOf, RulesInv
<1>2. CASE sets[t] # NoSet
  BY <1>2 DEF SetOf, RulesInv
<1> QED  BY <1>1, <1>2

\* Replacing the rules of a set replaces nothing else.
LEMMA OwnRulesReplaced ==
  ASSUME NEW x, NEW old, NEW new, OwnSet(x, old)
  PROVE  OwnSet([x EXCEPT !.rules = new], new)
BY DEF OwnSet

\* A step that replaces the set of one tenant by another with the right rules.
LEMMA RulesKept ==
  ASSUME RulesInv, NEW t \in Tenants, NEW s, NEW a \in Seq(Rules),
         sets' = [sets EXCEPT ![t] = s], added' = [added EXCEPT ![t] = a],
         OwnSet(s, AllRules(a)), UNCHANGED shared
  PROVE  RulesInv'
<1>1. s # NoSet
  BY DEF OwnSet, NoSet
<1>2. sets'[t] = s /\ added'[t] = a /\ \A u \in Tenants \ {t} : sets'[u] = sets[u] /\ added'[u] = added[u]
  BY DEF RulesInv
<1>3. sets' = [u \in Tenants |-> sets'[u]] /\ added' \in [Tenants -> Seq(Rules)]
  BY DEF RulesInv
<1> QED  BY <1>1, <1>2, <1>3 DEF RulesInv

LEMMA RulesInvNext == RulesInv /\ [Next]_vars => RulesInv'
<1> SUFFICES ASSUME RulesInv, [Next]_vars PROVE RulesInv'
  OBVIOUS
<1>1. ASSUME NEW t \in Tenants, Reset(t) PROVE RulesInv'
  <2>1. AllRules(<<>>) = Gate!DEFAULT_GATE_RULES
    BY AllRulesEmpty
  <2>2. OwnSet(NewSet, AllRules(<<>>))
    BY <2>1 DEF OwnSet, NewSet, NewGate, RulesInv
  <2>3. <<>> \in Seq(Rules)
    OBVIOUS
  <2> QED  BY <1>1, <2>2, <2>3, RulesKept DEF Reset
<1>2. ASSUME NEW t \in Tenants, NEW rule \in Rules, AddRule(t, rule) PROVE RulesInv'
  <2> DEFINE s == [SetOf(t) EXCEPT !.rules = Append(SetOf(t).rules, rule)]
  <2>1. OwnSet(SetOf(t), AllRules(added[t]))
    BY SetOfOwn
  <2>2. SetOf(t).gate = "own" /\ SetOf(t).rules = AllRules(added[t])
    BY <2>1 DEF OwnSet
  <2>3. added[t] \in Seq(Rules) /\ Append(added[t], rule) \in Seq(Rules)
    BY DEF RulesInv
  <2>4. Append(AllRules(added[t]), rule) = AllRules(Append(added[t], rule))
    BY <2>3, AllRulesAppend
  <2>5. OwnSet(s, AllRules(Append(added[t], rule)))
    BY <2>1, <2>2, <2>4, OwnRulesReplaced
  <2>6. /\ sets' = [sets EXCEPT ![t] = s] /\ UNCHANGED shared
        /\ added' = [added EXCEPT ![t] = Append(added[t], rule)]
    BY <1>2, <2>2 DEF AddRule
  <2> HIDE DEF s
  <2> QED  BY <2>3, <2>5, <2>6, RulesKept
<1>3. ASSUME NEW t \in Tenants, NEW s, OwnSet(s, SetOf(t).rules),
             sets' = [sets EXCEPT ![t] = s], UNCHANGED <<shared, added>>
      PROVE  RulesInv'
  <2>1. OwnSet(SetOf(t), AllRules(added[t]))
    BY SetOfOwn
  <2>2. OwnSet(s, AllRules(added[t]))
    BY <1>3, <2>1 DEF OwnSet
  <2>3. added' = [added EXCEPT ![t] = added[t]] /\ added[t] \in Seq(Rules)
    BY <1>3 DEF RulesInv
  <2> QED  BY <1>3, <2>2, <2>3, RulesKept
<1>4. ASSUME NEW t \in Tenants PROVE OwnSet(SetOf(t), SetOf(t).rules)
  BY SetOfOwn DEF OwnSet
<1>5. ASSUME NEW t \in Tenants, NEW w \in Workflows, DetectPremise(t, w) PROVE RulesInv'
  <2>1. PICK presented \in SeqOf(Presentable, 2) :
          /\ sets' = [sets EXCEPT ![t] =
                  [SetOf(t) EXCEPT !.premises[w] =
                     Premise!Registered(SetOf(t).premises[w], presented)]]
          /\ UNCHANGED <<shared, added>>
    BY <1>5 DEF DetectPremise
  <2> DEFINE s == [SetOf(t) EXCEPT !.premises[w] =
                     Premise!Registered(SetOf(t).premises[w], presented)]
  <2>2. OwnSet(s, SetOf(t).rules)
    BY <1>4 DEF OwnSet
  <2> QED  BY <1>3, <2>1, <2>2
<1>6. ASSUME NEW t \in Tenants, NEW w \in Workflows, ClearPremises(t, w) PROVE RulesInv'
  <2> DEFINE s == [sets[t] EXCEPT !.premises[w] = Premise!NoPremises]
  <2>1. SetOf(t) = sets[t]
    BY <1>6 DEF ClearPremises, SetOf
  <2>2. OwnSet(s, SetOf(t).rules)
    BY <1>4, <2>1 DEF OwnSet
  <2>3. sets' = [sets EXCEPT ![t] = s] /\ UNCHANGED <<shared, added>>
    BY <1>6 DEF ClearPremises
  <2> QED  BY <1>3, <2>2, <2>3
<1>7. ASSUME NEW t \in Tenants, DetectAuthority(t) PROVE RulesInv'
  <2>1. PICK input \in Authority!AuthorityDetectionInput :
          /\ sets' = [sets EXCEPT ![t] = [SetOf(t) EXCEPT !.auditLog =
                        Append(SetOf(t).auditLog, Authority!detect(input).auditEntry)]]
          /\ UNCHANGED <<shared, added>>
    BY <1>7 DEF DetectAuthority
  <2> DEFINE s == [SetOf(t) EXCEPT !.auditLog =
                        Append(SetOf(t).auditLog, Authority!detect(input).auditEntry)]
  <2>2. OwnSet(s, SetOf(t).rules)
    BY <1>4 DEF OwnSet
  <2> QED  BY <1>3, <2>1, <2>2
<1>8. ASSUME NEW t \in Tenants, DetectContinuity(t) PROVE RulesInv'
  <2>1. PICK score :
          /\ sets' = [sets EXCEPT ![t] = [SetOf(t) EXCEPT !.lastScore = score]]
          /\ UNCHANGED <<shared, added>>
    BY <1>8 DEF DetectContinuity
  <2> DEFINE s == [SetOf(t) EXCEPT !.lastScore = score]
  <2>2. OwnSet(s, SetOf(t).rules)
    BY <1>4 DEF OwnSet
  <2> QED  BY <1>3, <2>1, <2>2
<1>9. CASE Tick \/ UNCHANGED vars
  BY <1>9 DEF Tick, vars, RulesInv
<1> QED
  BY <1>1, <1>2, <1>5, <1>6, <1>7, <1>8, <1>9 DEF Next

LEMMA RulesInvAlways == Spec => []RulesInv
<1>1. Init => RulesInv
  BY DEF Init, RulesInv
<1> QED  BY <1>1, RulesInvNext, PTL DEF Spec

\* The rules a tenant's gate matches are the defaults and those the tenant added.
LEMMA OwnRules ==
  ASSUME RulesInv, NEW t \in Tenants
  PROVE  RulesOf(t) = AllRules(added[t])
BY SetOfOwn DEF OwnSet, RulesOf

\* No rule of another tenant and none from before a reset ever decides about an input.
THEOREM IsolatedGates == Spec => []GatesAreIsolated
<1>1. RulesInv => GatesAreIsolated
  BY OwnRules DEF GatesAreIsolated, AllRules
<1> QED  BY <1>1, RulesInvAlways, PTL

\* The gate matches no fewer rules once some are added.
LEMMA MatchedGrow ==
  ASSUME NEW a \in Seq(Rules), NEW input
  PROVE  Gate!MatchedRules(Gate!DEFAULT_GATE_RULES, input)
           \subseteq Gate!MatchedRules(AllRules(a), input)
<1> DEFINE D == Gate!DEFAULT_GATE_RULES
<1>1. PICK S : Rules \subseteq S /\ D \in Seq(S)
  BY DefaultsType
<1>2. a \in Seq(S)
  BY <1>1
<1> HIDE DEF D
<1>3. /\ Len(D \o a) = Len(D) + Len(a)
      /\ \A i \in 1 .. Len(D) : i \in 1 .. Len(D) + Len(a) /\ (D \o a)[i] = D[i]
      /\ D \o a \in Seq(S)
  BY <1>1, <1>2
<1>4. \A i \in DOMAIN D : i \in DOMAIN AllRules(a) /\ AllRules(a)[i] = D[i]
  BY <1>1, <1>3 DEF AllRules, D
<1>5. {D[i] : i \in DOMAIN D} \subseteq {AllRules(a)[i] : i \in DOMAIN AllRules(a)}
  BY <1>4
<1> QED  BY <1>5 DEF Gate!MatchedRules, D

\* A wider set of matching rules is judged no more mildly.
LEMMA GateNoMilder ==
  ASSUME NEW rules, NEW more, NEW input,
         Gate!MatchedRules(rules, input) \subseteq Gate!MatchedRules(more, input)
  PROVE  LET by == Gate!detect(more, input)
             default == Gate!detect(rules, input)
         IN  /\ default.triggered => by.triggered
             /\ SeverityRank[by.severity] >= SeverityRank[default.severity]
             /\ ScopeRank[by.scope] >= ScopeRank[default.scope]
<1> DEFINE m == Gate!MatchedRules(rules, input)
           n == Gate!MatchedRules(more, input)
           by == Gate!detect(more, input)
           default == Gate!detect(rules, input)
<1>1. /\ default.triggered = (m # {}) /\ by.triggered = (n # {})
      /\ default.severity = IF ~(m # {}) THEN "low"
                            ELSE IF Gate!Priority(m) = "critical" THEN "high" ELSE "med"
      /\ by.severity = IF ~(n # {}) THEN "low"
                       ELSE IF Gate!Priority(n) = "critical" THEN "high" ELSE "med"
      /\ default.scope = Gate!widerScope({r.scope : r \in m})
      /\ by.scope = Gate!widerScope({r.scope : r \in n})
  BY DEF Gate!detect
<1> HIDE DEF m, n, by, default
<1>2. m \subseteq n
  BY DEF m, n
<1>3. SeverityRank[by.severity] >= SeverityRank[default.severity]
  BY <1>1, <1>2 DEF Gate!Priority, SeverityRank
<1>4. {r.scope : r \in m} \subseteq {r.scope : r \in n}
  BY <1>2
<1>5. ASSUME NEW x, NEW y, x \subseteq y
      PROVE  ScopeRank[Gate!widerScope(y)] >= ScopeRank[Gate!widerScope(x)]
  BY <1>5 DEF Gate!widerScope, ScopeRank
<1> QED  BY <1>1, <1>2, <1>3, <1>4, <1>5 DEF by, default

\* Whatever rules a tenant adds, and in whatever order, its gate judges every input at
\* least as the default rules judge it.
THEOREM NeverSoftened == Spec => []RulesNeverSoften
<1>1. RulesInv => RulesNeverSoften
  <2> SUFFICES ASSUME RulesInv, NEW t \in Tenants, NEW input \in GateInputs
               PROVE  LET by == Gate!detect(RulesOf(t), input)
                          default == Gate!detect(Gate!DEFAULT_GATE_RULES, input)
                      IN  /\ default.triggered => by.triggered
                          /\ SeverityRank[by.severity] >= SeverityRank[default.severity]
                          /\ ScopeRank[by.scope] >= ScopeRank[default.scope]
    BY DEF RulesNeverSoften
  <2>1. RulesOf(t) = AllRules(added[t]) /\ added[t] \in Seq(Rules)
    BY OwnRules DEF RulesInv
  <2>2. Gate!MatchedRules(Gate!DEFAULT_GATE_RULES, input)
          \subseteq Gate!MatchedRules(RulesOf(t), input)
    BY <2>1, MatchedGrow
  <2> QED  BY <2>2, GateNoMilder
<1> QED  BY <1>1, RulesInvAlways, PTL

-----------------------------------------------------------------------------
(***************************************************************************)
(* The premises                                                            *)
(***************************************************************************)

\* What is registered before does not matter for a premise that is presented.
LEMMA PresentedAnew ==
  ASSUME NEW registry, NEW presented, NEW id, NEW time,
         \E i \in DOMAIN presented : presented[i].id = id
  PROVE  Premise!isValid(Premise!Registered(registry, presented), id, time)
           = Premise!isValid(Premise!Registered(Premise!NoPremises, presented), id, time)
<1> DEFINE ids == {presented[i].id : i \in DOMAIN presented}
           A == Premise!Registered(registry, presented)
           B == Premise!Registered(Premise!NoPremises, presented)
<1>1. id \in ids
  OBVIOUS
<1>2. id \in DOMAIN A /\ id \in DOMAIN B
  BY <1>1 DEF Premise!Registered
<1>3. A[id] = B[id]
  BY <1>1 DEF Premise!Registered
<1> HIDE DEF A, B
<1>4. Premise!isValid(A, id, time) = Premise!isValid(B, id, time)
  BY <1>2, <1>3 DEF Premise!isValid
<1> QED  BY <1>4 DEF A, B

\* So a detector with a past detects what a new one detects.
LEMMA PastIsForgotten ==
  ASSUME NEW registry, NEW input, NEW time
  PROVE  Premise!detect(registry, input, time)
           = Premise!detect(Premise!NoPremises, input, time)
<1>1. ASSUME NEW id
      PROVE  Premise!Reason(registry, input, id, time)
               = Premise!Reason(Premise!NoPremises, input, id, time)
  <2>1. CASE Premise!Presented(input, id)
    <3>1. Premise!isValid(Premise!Consulted(registry, input), id, time)
            = Premise!isValid(Premise!Consulted(Premise!NoPremises, input), id, time)
      BY <2>1, PresentedAnew DEF Premise!Presented, Premise!Consulted
    <3> QED  BY <3>1 DEF Premise!Reason
  <2>2. CASE ~Premise!Presented(input, id)
    BY <2>2 DEF Premise!Reason
  <2> QED  BY <2>1, <2>2
<1>2. [i \in DOMAIN input.claimed |->
         [premiseId |-> input.claimed[i],
          reason    |-> Premise!Reason(registry, input, input.claimed[i], time),
          weight    |-> Premise!Weight(input, input.claimed[i])]]
      = [i \in DOMAIN input.claimed |->
           [premiseId |-> input.claimed[i],
            reason    |-> Premise!Reason(Premise!NoPremises, input, input.claimed[i], time),
            weight    |-> Premise!Weight(input, input.claimed[i])]]
  BY <1>1
<1>3. Premise!Violations(registry, input, time)
        = Premise!Violations(Premise!NoPremises, input, time)
  BY <1>2 DEF Premise!Violations
<1> QED  BY <1>3 DEF Premise!detect

\* On every presentation a premise is legitimate by what is presented now alone, for
\* all premises, expiries, weights and claims, and after any history: the registry is
\* written and never decides, against the comments at premise-detector.ts:142 and 161.
THEOREM DecidedByPresentation == Spec => []PresentationDecides
<1>1. PresentationDecides
  BY PastIsForgotten DEF PresentationDecides
<1> QED  BY <1>1, PTL


-----------------------------------------------------------------------------
(***************************************************************************)
(* The authorities granted                                                 *)
(***************************************************************************)

AuditEntries == {Authority!AuditEntry(i) : i \in Authority!AuthorityDetectionInput}

\* The log holds the newest decisions of the chain.
LogFollows(log, chain) ==
  /\ log \in Seq(AuditEntries)
  /\ Len(log) <= Len(chain)
  /\ \A i \in 1 .. Len(log) : log[i].grantedAuthority = chain[Len(chain) - Len(log) + i]

ChainInv ==
  /\ sets = [t \in Tenants |-> sets[t]]
  /\ granted \in [Tenants -> Seq(Authority!Authorities)]
  /\ \A t \in Tenants :
       /\ NonIncreasing(granted[t])
       /\ sets[t] # NoSet => LogFollows(sets[t].auditLog, granted[t])

LEMMA MinType ==
  ASSUME NEW a \in Authority!Authorities, NEW b \in Authority!Authorities
  PROVE  /\ Authority!min(a, b) \in Authority!Authorities
         /\ Authority!AUTHORITY_RANK[Authority!min(a, b)] <= Authority!AUTHORITY_RANK[b]
BY DEF Authority!min, Authority!AUTHORITY_RANK, Authority!Authorities

\* No decision gives more than the request was granted before.
LEMMA EffectiveType ==
  ASSUME NEW input \in Authority!AuthorityDetectionInput
  PROVE  /\ Authority!EffectiveAuthority(input) \in Authority!Authorities
         /\ input.previous # Authority!NoAuthority =>
              Authority!AUTHORITY_RANK[Authority!EffectiveAuthority(input)]
                <= Authority!AUTHORITY_RANK[input.previous]
<1>1. /\ input.requested \in Authority!Authorities
      /\ input.policyGranted \in Authority!Authorities
      /\ input.previous # Authority!NoAuthority => input.previous \in Authority!Authorities
  BY DEF Authority!AuthorityDetectionInput
<1>2. Authority!PolicyEffective(input) \in Authority!Authorities
  BY <1>1, MinType DEF Authority!PolicyEffective
<1> QED  BY <1>1, <1>2, MinType DEF Authority!EffectiveAuthority

\* A chain stays non-increasing if what is appended is no more than its last element.
LEMMA ChainAppend ==
  ASSUME NEW chain \in Seq(Authority!Authorities), NonIncreasing(chain),
         NEW e \in Authority!Authorities,
         chain # <<>> =>
           Authority!AUTHORITY_RANK[e] <= Authority!AUTHORITY_RANK[chain[Len(chain)]]
  PROVE  NonIncreasing(Append(chain, e))
<1> DEFINE n == Len(chain)
           c == Append(chain, e)
           R(a) == Authority!AUTHORITY_RANK[a]
<1>1. /\ n \in Nat /\ DOMAIN c = 1 .. n + 1 /\ c[n + 1] = e
      /\ \A i \in 1 .. n : c[i] = chain[i] /\ chain[i] \in Authority!Authorities
  OBVIOUS
<1>2. \A a \in Authority!Authorities : R(a) \in Nat
  BY DEF Authority!AUTHORITY_RANK, Authority!Authorities
<1>3. \A i, j \in 1 .. n : i < j => R(chain[j]) <= R(chain[i])
  BY DEF NonIncreasing
<1>4. n > 0 => R(e) <= R(chain[n])
  OBVIOUS
<1> HIDE DEF n, c, R
<1>5. ASSUME NEW i \in 1 .. n + 1, NEW j \in 1 .. n + 1, i < j
      PROVE  R(c[j]) <= R(c[i])
  <2>1. i \in 1 .. n /\ n > 0
    BY <1>1, <1>5
  <2>2. CASE j \in 1 .. n
    BY <1>1, <1>3, <1>5, <2>1, <2>2
  <2>3. CASE j = n + 1
    <3>1. R(chain[n]) <= R(chain[i])
      <4>1. CASE i = n
        BY <1>1, <1>2, <2>1, <4>1
      <4>2. CASE i < n
        BY <1>1, <1>3, <2>1, <4>2
      <4> QED  BY <1>1, <2>1, <4>1, <4>2
    <3>2. R(e) <= R(chain[n])
      BY <1>4, <2>1
    <3>3. R(e) \in Nat /\ R(chain[n]) \in Nat /\ R(chain[i]) \in Nat
      BY <1>1, <1>2, <2>1
    <3>4. c[j] = e /\ c[i] = chain[i]
      BY <1>1, <2>1, <2>3
    <3> QED  BY <3>1, <3>2, <3>3, <3>4
  <2> QED  BY <1>1, <2>2, <2>3
<1> QED  BY <1>1, <1>5 DEF NonIncreasing, R, c

\* A decision that is logged and chained keeps the log in step.
LEMMA LogAppend ==
  ASSUME NEW log, NEW chain \in Seq(Authority!Authorities), LogFollows(log, chain),
         NEW input \in Authority!AuthorityDetectionInput
  PROVE  LogFollows(Append(log, Authority!AuditEntry(input)),
                    Append(chain, Authority!EffectiveAuthority(input)))
<1> DEFINE entry == Authority!AuditEntry(input)
           e == Authority!EffectiveAuthority(input)
           m == Len(log)
           n == Len(chain)
<1>1. entry \in AuditEntries /\ entry.grantedAuthority = e
  BY DEF AuditEntries, Authority!AuditEntry
<1>2. e \in Authority!Authorities
  BY EffectiveType
<1> HIDE DEF entry, e
<1>3. log \in Seq(AuditEntries) /\ m \in Nat /\ n \in Nat /\ m <= n
  BY DEF LogFollows
<1>4. /\ Append(log, entry) \in Seq(AuditEntries) /\ Len(Append(log, entry)) = m + 1
      /\ Append(log, entry)[m + 1] = entry
      /\ \A i \in 1 .. m : Append(log, entry)[i] = log[i]
  BY <1>1, <1>3
<1>5. /\ Len(Append(chain, e)) = n + 1 /\ Append(chain, e)[n + 1] = e
      /\ \A i \in 1 .. n : Append(chain, e)[i] = chain[i]
  BY <1>2
<1>6. \A i \in 1 .. m : log[i].grantedAuthority = chain[n - m + i]
  BY DEF LogFollows
<1> DEFINE l == Append(log, entry)
           c == Append(chain, e)
<1> HIDE DEF m, n, l, c
<1>7. ASSUME NEW i \in 1 .. m + 1
      PROVE  l[i].grantedAuthority = c[(n + 1) - (m + 1) + i]
  <2>1. CASE i = m + 1
    <3>1. (n + 1) - (m + 1) + i = n + 1
      BY <1>3, <2>1
    <3> QED  BY <1>1, <1>4, <1>5, <2>1, <3>1 DEF l, c
  <2>2. CASE i \in 1 .. m
    <3>1. (n + 1) - (m + 1) + i = n - m + i /\ n - m + i \in 1 .. n
      BY <1>3, <2>2
    <3>2. l[i] = log[i] /\ c[n - m + i] = chain[n - m + i]
      BY <1>4, <1>5, <2>2, <3>1 DEF l, c
    <3> QED  BY <1>6, <2>2, <3>1, <3>2
  <2> QED  BY <1>3, <2>1, <2>2
<1>8. /\ l \in Seq(AuditEntries) /\ Len(l) = m + 1 /\ Len(c) = n + 1 /\ m + 1 <= n + 1
  BY <1>3, <1>4, <1>5 DEF l, c
<1>9. LogFollows(l, c)
  BY <1>7, <1>8 DEF LogFollows
<1> QED  BY <1>9 DEF l, c, entry, e

\* A new set has an empty log.
LEMMA NewLogFollows ==
  ASSUME NEW chain \in Seq(Authority!Authorities)
  PROVE  LogFollows(NewSet.auditLog, chain)
BY DEF NewSet, LogFollows

\* The log of the set a tenant uses next.
LEMMA SetOfLog ==
  ASSUME ChainInv, NEW t \in Tenants
  PROVE  LogFollows(SetOf(t).auditLog, granted[t])
BY NewLogFollows DEF SetOf, ChainInv

\* A step that replaces the set of one tenant, by another whose log follows the chain.
LEMMA ChainKept ==
  ASSUME ChainInv, NEW t \in Tenants, NEW s, NEW c \in Seq(Authority!Authorities),
         sets' = [sets EXCEPT ![t] = s], granted' = [granted EXCEPT ![t] = c],
         NonIncreasing(c), LogFollows(s.auditLog, c)
  PROVE  ChainInv'
<1>1. sets' = [u \in Tenants |-> sets'[u]] /\ granted' \in [Tenants -> Seq(Authority!Authorities)]
  BY DEF ChainInv
<1>2. /\ sets'[t] = s /\ granted'[t] = c
      /\ \A u \in Tenants \ {t} : sets'[u] = sets[u] /\ granted'[u] = granted[u]
  BY DEF ChainInv
<1>3. \A u \in Tenants :
        NonIncreasing(granted'[u]) /\ (sets'[u] # NoSet => LogFollows(sets'[u].auditLog, granted'[u]))
  BY <1>2 DEF ChainInv
<1> QED  BY <1>1, <1>3 DEF ChainInv

\* The rules make sure that a set is a record of its own.
LEMMA ChainInvNext == RulesInv /\ ChainInv /\ [Next]_vars => ChainInv'
<1> SUFFICES ASSUME RulesInv, ChainInv, [Next]_vars PROVE ChainInv'
  OBVIOUS
<1>1. ASSUME NEW t \in Tenants, NEW s, LogFollows(s.auditLog, granted[t]),
             sets' = [sets EXCEPT ![t] = s], UNCHANGED granted
      PROVE  ChainInv'
  <2>1. /\ granted' = [granted EXCEPT ![t] = granted[t]]
        /\ granted[t] \in Seq(Authority!Authorities) /\ NonIncreasing(granted[t])
    BY <1>1 DEF ChainInv
  <2> QED  BY <1>1, <2>1, ChainKept
<1>2. ASSUME NEW t \in Tenants
      PROVE  /\ LogFollows(SetOf(t).auditLog, granted[t])
             /\ OwnSet(SetOf(t), SetOf(t).rules)
             /\ granted[t] \in Seq(Authority!Authorities)
  BY SetOfLog, SetOfOwn DEF OwnSet, ChainInv
<1>3. ASSUME NEW t \in Tenants, Reset(t) PROVE ChainInv'
  BY <1>1, <1>2, <1>3, NewLogFollows DEF Reset
<1>4. ASSUME NEW t \in Tenants, NEW rule \in Rules, AddRule(t, rule) PROVE ChainInv'
  <2>1. PICK s : s.auditLog = SetOf(t).auditLog /\ sets' = [sets EXCEPT ![t] = s]
    BY <1>2, <1>4 DEF AddRule, OwnSet
  <2> QED  BY <1>1, <1>2, <1>4, <2>1 DEF AddRule
<1>5. ASSUME NEW t \in Tenants, NEW w \in Workflows, DetectPremise(t, w) PROVE ChainInv'
  <2>1. PICK presented \in SeqOf(Presentable, 2) :
          /\ sets' = [sets EXCEPT ![t] =
                  [SetOf(t) EXCEPT !.premises[w] =
                     Premise!Registered(SetOf(t).premises[w], presented)]]
          /\ UNCHANGED granted
    BY <1>5 DEF DetectPremise
  <2> DEFINE s == [SetOf(t) EXCEPT !.premises[w] =
                     Premise!Registered(SetOf(t).premises[w], presented)]
  <2>2. s.auditLog = SetOf(t).auditLog
    BY <1>2 DEF OwnSet
  <2> QED  BY <1>1, <1>2, <2>1, <2>2
<1>6. ASSUME NEW t \in Tenants, NEW w \in Workflows, ClearPremises(t, w) PROVE ChainInv'
  <2>1. SetOf(t) = sets[t]
    BY <1>6 DEF ClearPremises, SetOf
  <2> DEFINE s == [sets[t] EXCEPT !.premises[w] = Premise!NoPremises]
  <2>2. s.auditLog = SetOf(t).auditLog
    BY <1>2, <2>1 DEF OwnSet
  <2>3. sets' = [sets EXCEPT ![t] = s] /\ UNCHANGED granted
    BY <1>6 DEF ClearPremises
  <2> QED  BY <1>1, <1>2, <2>2, <2>3
<1>7. ASSUME NEW t \in Tenants, DetectAuthority(t) PROVE ChainInv'
  <2>1. PICK input \in Authority!AuthorityDetectionInput :
          /\ input.previous = Previous(t)
          /\ sets' = [sets EXCEPT ![t] = [SetOf(t) EXCEPT !.auditLog =
                        Append(SetOf(t).auditLog, Authority!AuditEntry(input))]]
          /\ granted' = [granted EXCEPT ![t] =
                           Append(granted[t], Authority!EffectiveAuthority(input))]
    BY <1>7 DEF DetectAuthority, Authority!detect
  <2> DEFINE s == [SetOf(t) EXCEPT !.auditLog =
                        Append(SetOf(t).auditLog, Authority!AuditEntry(input))]
             c == Append(granted[t], Authority!EffectiveAuthority(input))
  <2>2. s.auditLog = Append(SetOf(t).auditLog, Authority!AuditEntry(input))
    BY <1>2 DEF OwnSet
  <2>3. LogFollows(s.auditLog, c)
    BY <1>2, <2>2, LogAppend
  <2>4. c \in Seq(Authority!Authorities)
    BY <1>2, EffectiveType
  <2>5. NonIncreasing(c)
    <3>1. granted[t] # <<>> =>
            Authority!AUTHORITY_RANK[Authority!EffectiveAuthority(input)]
              <= Authority!AUTHORITY_RANK[granted[t][Len(granted[t])]]
      <4>1. ASSUME granted[t] # <<>>
            PROVE  /\ input.previous = granted[t][Len(granted[t])]
                   /\ input.previous \in Authority!Authorities
        BY <1>2, <2>1, <4>1 DEF Previous, Last
      <4>2. Authority!NoAuthority \notin Authority!Authorities
        BY DEF Authority!NoAuthority, Authority!Authorities
      <4> QED  BY <4>1, <4>2, EffectiveType
    <3> QED  BY <1>2, <3>1, ChainAppend, EffectiveType DEF ChainInv
  <2> HIDE DEF s, c
  <2> QED  BY <2>1, <2>3, <2>4, <2>5, ChainKept DEF s, c
<1>8. ASSUME NEW t \in Tenants, DetectContinuity(t) PROVE ChainInv'
  <2>1. PICK score :
          sets' = [sets EXCEPT ![t] = [SetOf(t) EXCEPT !.lastScore = score]] /\ UNCHANGED granted
    BY <1>8 DEF DetectContinuity
  <2> DEFINE s == [SetOf(t) EXCEPT !.lastScore = score]
  <2>2. s.auditLog = SetOf(t).auditLog
    BY <1>2 DEF OwnSet
  <2> QED  BY <1>1, <1>2, <2>1, <2>2
<1>9. CASE Tick \/ UNCHANGED vars
  BY <1>9 DEF Tick, vars, ChainInv
<1> QED
  BY <1>3, <1>4, <1>5, <1>6, <1>7, <1>8, <1>9 DEF Next

\* A log that follows a chain is a suffix of it.
LEMMA LogIsSuffix ==
  ASSUME NEW log, NEW chain \in Seq(Authority!Authorities), LogFollows(log, chain)
  PROVE  IsSuffix([i \in DOMAIN log |-> log[i].grantedAuthority], chain)
<1> DEFINE s == [i \in DOMAIN log |-> log[i].grantedAuthority]
           m == Len(log)
           n == Len(chain)
<1>1. /\ log \in Seq(AuditEntries) /\ m \in Nat /\ n \in Nat /\ m <= n
      /\ \A i \in 1 .. m : log[i].grantedAuthority = chain[n - m + i]
  BY DEF LogFollows
<1>2. DOMAIN log = 1 .. m
  BY <1>1
<1>3. s = [i \in 1 .. m |-> chain[n - m + i]]
  BY <1>1, <1>2
<1>4. \A i \in 1 .. m : n - m + i \in 1 .. n /\ chain[n - m + i] \in Authority!Authorities
  BY <1>1
<1> HIDE DEF s, m, n
<1>5. s \in Seq(Authority!Authorities) /\ Len(s) = m
  <2>1. s \in [1 .. m -> Authority!Authorities]
    BY <1>3, <1>4
  <2> QED  BY <1>1, <2>1, SeqDef
<1> DEFINE rs == Reverse(s)
           rc == Reverse(chain)
<1>6. rs = [i \in 1 .. m |-> s[(m - i) + 1]] /\ rc = [i \in 1 .. n |-> chain[(n - i) + 1]]
  BY <1>5 DEF Reverse, n
<1>7. /\ rs \in Seq(Authority!Authorities) /\ Len(rs) = m
      /\ rc \in Seq(Authority!Authorities) /\ Len(rc) = n
  <2>1. \A i \in 1 .. m : s[(m - i) + 1] \in Authority!Authorities
    BY <1>1, <1>5
  <2>2. \A i \in 1 .. n : chain[(n - i) + 1] \in Authority!Authorities
    BY <1>1 DEF n
  <2>3. rs \in [1 .. m -> Authority!Authorities] /\ rc \in [1 .. n -> Authority!Authorities]
    BY <1>6, <2>1, <2>2
  <2> HIDE DEF rs, rc
  <2> QED  BY <1>1, <2>3, SeqDef
<1>8. \A i \in 1 .. m : rs[i] = rc[i]
  <2> SUFFICES ASSUME NEW i \in 1 .. m PROVE rs[i] = rc[i]
    OBVIOUS
  <2>1. (m - i) + 1 \in 1 .. m /\ n - m + ((m - i) + 1) = (n - i) + 1 /\ i \in 1 .. n
    BY <1>1
  <2>2. rs[i] = s[(m - i) + 1] /\ rc[i] = chain[(n - i) + 1]
    BY <1>6, <2>1
  <2> HIDE DEF rs, rc
  <2> QED  BY <1>3, <2>1, <2>2
<1> HIDE DEF rs, rc
<1>9. SubSeq(rs, 1, m) = SubSeq(rc, 1, m)
  <2>1. SubSeq(rs, 1, m) = [i \in 1 .. m |-> rs[i]] /\ SubSeq(rc, 1, m) = [i \in 1 .. m |-> rc[i]]
    BY <1>1, <1>7
  <2> QED  BY <1>8, <2>1
<1> QED  BY <1>1, <1>7, <1>9 DEF IsSuffix, IsPrefix, rs, rc, s

\* Authority is never given back along the chain of a request, through all changes of
\* policy and resets of the detector, and the log holds the newest decisions.
THEOREM AuthorityOnlyFalls == Spec => []AuthorityNeverRises
<1>1. Init => ChainInv
  BY DEF Init, ChainInv, NonIncreasing
<1>2. ChainInv => AuthorityNeverRises
  <2> SUFFICES ASSUME ChainInv, NEW t \in Tenants
               PROVE  /\ NonIncreasing(granted[t])
                      /\ sets[t] # NoSet =>
                           IsSuffix([i \in DOMAIN sets[t].auditLog |->
                                       sets[t].auditLog[i].grantedAuthority], granted[t])
    BY DEF AuthorityNeverRises
  <2> QED  BY LogIsSuffix DEF ChainInv
<1> QED  BY <1>1, <1>2, ChainInvNext, RulesInvAlways, PTL DEF Spec

-----------------------------------------------------------------------------
(***************************************************************************)
(* The change windows                                                      *)
(***************************************************************************)

\* What the history of an update says of its window.
WindowAfter(h) ==
  IF \E i \in DOMAIN h : h[i] = "UNSTABLE" THEN "CONTAINMENT"
  ELSE IF \E i \in DOMAIN h : i > 1 /\ h[i] = "STABLE" THEN "CLOSED" ELSE "WATCHING"

\* The window of an update that was never tested is open.
WindowInv ==
  /\ window = [t \in Tenants |-> window[t]]
  /\ tested \in [Tenants -> Seq(Continuity!UpdateStates)]
  /\ \A t \in Tenants :
       /\ tested[t] = <<>> => window[t] = "OPEN"
       /\ tested[t] # <<>> => window[t] = WindowAfter(tested[t])

\* One more run of the tests moves the window as its history grows.
LEMMA WindowMoves ==
  ASSUME NEW h \in Seq(Continuity!UpdateStates), NEW w, NEW u \in Continuity!UpdateStates,
         h = <<>> => w = "OPEN",
         h # <<>> => w = WindowAfter(h)
  PROVE  Continuity!computeWindowState(w, u) = WindowAfter(Append(h, u))
<1> DEFINE g == Append(h, u)
           n == Len(h)
<1>1. n \in Nat /\ DOMAIN h = 1 .. n /\ DOMAIN g = 1 .. n + 1
  OBVIOUS
<1>2. g[n + 1] = u /\ \A i \in 1 .. n : g[i] = h[i]
  OBVIOUS
<1>3. h = <<>> <=> n = 0
  OBVIOUS
<1> HIDE DEF g, n
<1>4. (\E i \in DOMAIN g : g[i] = "UNSTABLE")
        <=> u = "UNSTABLE" \/ (\E i \in DOMAIN h : h[i] = "UNSTABLE")
  <2>1. ASSUME u = "UNSTABLE" PROVE \E i \in DOMAIN g : g[i] = "UNSTABLE"
    <3>1. n + 1 \in DOMAIN g
      BY <1>1
    <3> QED  BY <1>2, <2>1, <3>1
  <2> QED  BY <1>1, <1>2, <2>1
<1>5. (\E i \in DOMAIN g : i > 1 /\ g[i] = "STABLE")
        <=> (u = "STABLE" /\ n > 0) \/ (\E i \in DOMAIN h : i > 1 /\ h[i] = "STABLE")
  <2>1. ASSUME u = "STABLE", n > 0 PROVE \E i \in DOMAIN g : i > 1 /\ g[i] = "STABLE"
    <3>1. n + 1 \in DOMAIN g /\ n + 1 > 1
      BY <1>1, <2>1
    <3> QED  BY <1>2, <2>1, <3>1
  <2> QED  BY <1>1, <1>2, <2>1
<1>6. CASE u = "UNSTABLE"
  BY <1>4, <1>6 DEF WindowAfter, Continuity!computeWindowState, g
<1>7. CASE u # "UNSTABLE" /\ h = <<>>
  <2>1. w = "OPEN" /\ n = 0 /\ DOMAIN h = {}
    BY <1>1, <1>3, <1>7
  <2>2. Continuity!computeWindowState(w, u) = "WATCHING"
    BY <1>7, <2>1 DEF Continuity!computeWindowState
  <2>3. WindowAfter(g) = "WATCHING"
    BY <1>4, <1>5, <1>7, <2>1 DEF WindowAfter
  <2> QED  BY <2>2, <2>3 DEF g
<1>8. CASE u # "UNSTABLE" /\ h # <<>>
  <2>1. w = WindowAfter(h) /\ n > 0
    BY <1>1, <1>3, <1>8
  <2>2. w \in {"CONTAINMENT", "CLOSED", "WATCHING"}
    BY <2>1 DEF WindowAfter
  <2>3. Continuity!computeWindowState(w, u)
          = IF w = "WATCHING" /\ u = "STABLE" THEN "CLOSED" ELSE w
    BY <1>8, <2>2 DEF Continuity!computeWindowState
  <2>4. WindowAfter(g) = IF w = "WATCHING" /\ u = "STABLE" THEN "CLOSED" ELSE w
    BY <1>4, <1>5, <1>8, <2>1 DEF WindowAfter
  <2> QED  BY <2>3, <2>4 DEF g
<1> QED  BY <1>6, <1>7, <1>8

LEMMA WindowInvNext == WindowInv /\ [Next]_vars => WindowInv'
<1> SUFFICES ASSUME WindowInv, [Next]_vars PROVE WindowInv'
  OBVIOUS
<1>1. ASSUME UNCHANGED <<window, tested>> PROVE WindowInv'
  BY <1>1 DEF WindowInv
<1>2. ASSUME NEW t \in Tenants, DetectContinuity(t) PROVE WindowInv'
  <2>1. PICK u \in Continuity!UpdateStates :
          /\ window' = [window EXCEPT ![t] = Continuity!computeWindowState(window[t], u)]
          /\ tested' = [tested EXCEPT ![t] = Append(tested[t], u)]
    <3>1. PICK failed \in Failures, p \in Thresholds :
            LET result == Continuity!detect(SetOf(t).lastScore,
                    [tests |-> Continuity!Template(failed), stable |-> p.stable,
                     provisional |-> p.provisional, window |-> window[t]])
            IN  /\ window' = [window EXCEPT ![t] = result.changeWindowState]
                /\ tested' = [tested EXCEPT ![t] = Append(tested[t], result.updateState)]
      BY <1>2 DEF DetectContinuity
    <3> DEFINE u == Continuity!computeUpdateState(
                      Continuity!computeContinuityScore(Continuity!Template(failed)),
                      p.stable, p.provisional)
    <3>2. u \in Continuity!UpdateStates
      BY DEF Continuity!computeUpdateState, Continuity!UpdateStates
    <3>3. /\ window' = [window EXCEPT ![t] = Continuity!computeWindowState(window[t], u)]
          /\ tested' = [tested EXCEPT ![t] = Append(tested[t], u)]
      BY <3>1 DEF Continuity!detect
    <3> QED  BY <3>2, <3>3
  <2>2. tested[t] \in Seq(Continuity!UpdateStates)
    BY DEF WindowInv
  <2>3. Continuity!computeWindowState(window[t], u) = WindowAfter(Append(tested[t], u))
    BY <2>2, WindowMoves DEF WindowInv
  <2>4. Append(tested[t], u) \in Seq(Continuity!UpdateStates) /\ Append(tested[t], u) # <<>>
    <3>1. \A h \in Seq(Continuity!UpdateStates) :
            Append(h, u) \in Seq(Continuity!UpdateStates) /\ Append(h, u) # <<>>
      BY AppendProperties
    <3> QED  BY <2>2, <3>1, Zenon
  <2> DEFINE g == Append(tested[t], u)
             w == Continuity!computeWindowState(window[t], u)
  <2> HIDE DEF g, w
  <2>5. /\ window' = [window EXCEPT ![t] = w] /\ tested' = [tested EXCEPT ![t] = g]
        /\ g \in Seq(Continuity!UpdateStates) /\ g # <<>> /\ w = WindowAfter(g)
    BY <2>1, <2>3, <2>4 DEF g, w
  <2>6. /\ window'[t] = w /\ tested'[t] = g
        /\ \A x \in Tenants \ {t} : window'[x] = window[x] /\ tested'[x] = tested[x]
    BY <2>5 DEF WindowInv
  <2>7. window' = [x \in Tenants |-> window'[x]] /\ tested' \in [Tenants -> Seq(Continuity!UpdateStates)]
    BY <2>5 DEF WindowInv
  <2> QED  BY <2>5, <2>6, <2>7 DEF WindowInv
<1>3. ASSUME NEW t \in Tenants, Reset(t) PROVE WindowInv'
  BY <1>1, <1>3 DEF Reset
<1>4. ASSUME NEW t \in Tenants, NEW rule \in Rules, AddRule(t, rule) PROVE WindowInv'
  BY <1>1, <1>4 DEF AddRule
<1>5. ASSUME NEW t \in Tenants, NEW w \in Workflows, DetectPremise(t, w) \/ ClearPremises(t, w)
      PROVE  WindowInv'
  BY <1>1, <1>5 DEF DetectPremise, ClearPremises
<1>6. ASSUME NEW t \in Tenants, DetectAuthority(t) PROVE WindowInv'
  BY <1>1, <1>6 DEF DetectAuthority
<1>7. CASE Tick \/ UNCHANGED vars
  BY <1>1, <1>7 DEF Tick, vars
<1> QED
  BY <1>2, <1>3, <1>4, <1>5, <1>6, <1>7 DEF Next

\* The change window of an update is what the whole history of its tests says, for any
\* results and thresholds: a closed window is not reopened but unstable tests contain it,
\* and containment is for good (the code, not the diagram at continuity-detector.ts:21-27).
THEOREM WindowsFollowTests == Spec => []WindowFollowsHistory
<1>1. Init => WindowInv
  BY DEF Init, WindowInv
<1>2. WindowInv => WindowFollowsHistory
  BY DEF WindowInv, WindowFollowsHistory, WindowAfter
<1> QED  BY <1>1, <1>2, WindowInvNext, PTL DEF Spec

=============================================================================
