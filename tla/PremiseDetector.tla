--------------------------- MODULE PremiseDetector ---------------------------
(***************************************************************************)
(* The premise detector of phase 3 (detection/src/premise): claims checked *)
(* against a registry of validated premises that belongs to a workflow.    *)
(* Operators only; the registry is state of DetectorSets.tla.              *)
(*                                                                         *)
(* A registry is a function from some premise ids to [validatedAt,         *)
(* expiryMs], where an expiry of 0 is none.  An input is [claimed (a       *)
(* sequence of ids), presented (a sequence of [id, validatedAt,            *)
(* expiryMs]), weights (of the ids that are defined), contract (the        *)
(* versions agree)].                                                       *)
(***************************************************************************)
LOCAL INSTANCE Integers
LOCAL INSTANCE Sequences
LOCAL INSTANCE SequencesExt

PremiseWeight == {"critical", "standard", "informational"}

ValidatedPremise == [id : STRING, validatedAt : Nat, expiryMs : Nat]

\* The premise definitions among the input are the weights of those that are defined.
PremiseDetectionInput(weights) ==
  [claimed : Seq(STRING), presented : Seq(ValidatedPremise), weights : {weights},
   contract : BOOLEAN]

NoPremises == <<>>

\* The last of the premises presented with an id.
LastOf(presented, id) ==
  presented[CHOOSE i \in DOMAIN presented :
              presented[i].id = id /\ \A j \in i + 1 .. Len(presented) : presented[j].id # id]

\* PremiseRegistry.register() for each premise presented: the last one of an id stays.
Registered(registry, presented) ==
  LET ids == {presented[i].id : i \in DOMAIN presented}
  IN  [id \in DOMAIN registry \cup ids |->
         IF id \in ids
         THEN LET p == LastOf(presented, id)
              IN  [validatedAt |-> p.validatedAt, expiryMs |-> p.expiryMs]
         ELSE registry[id]]

isValid(registry, id, now) ==
  /\ id \in DOMAIN registry
  /\ \/ registry[id].expiryMs = 0
     \/ now - registry[id].validatedAt <= registry[id].expiryMs

\* Mutant: what is presented is registered after the claims were checked.
Consulted_Before(registry, input) == registry

\* What is presented is registered first, and the claims are checked against that.
Consulted(registry, input) == Registered(registry, input.presented)

Presented(input, id) == \E i \in DOMAIN input.presented : input.presented[i].id = id

\* A claim that is defined, presented and not expired is no violation ("none").
Reason(registry, input, id, now) ==
  CASE id \notin DOMAIN input.weights -> "unknown_claim"
    [] id \in DOMAIN input.weights /\ ~Presented(input, id) -> "unvalidated"
    [] OTHER -> IF isValid(Consulted(registry, input), id, now) THEN "none" ELSE "expired"

Weight(input, id) == IF id \in DOMAIN input.weights THEN input.weights[id] ELSE "standard"

Violations(registry, input, now) ==
  SelectSeq([i \in DOMAIN input.claimed |->
               [premiseId |-> input.claimed[i],
                reason    |-> Reason(registry, input, input.claimed[i], now),
                weight    |-> Weight(input, input.claimed[i])]],
            LAMBDA v : v.reason # "none")

\* The ratio of the violations to the claims is compared with 0.7 and 0.3.
PremiseSeverity(violations, claims) ==
  CASE \/ \E v \in ToSet(violations) : v.weight = "critical"
       \/ claims > 0 /\ 10 * Len(violations) >= 7 * claims -> "high"
    [] OTHER -> IF claims > 0 /\ 10 * Len(violations) >= 3 * claims THEN "med" ELSE "low"

detect(registry, input, now) ==
  LET violations == Violations(registry, input, now)
      severity == PremiseSeverity(violations, Len(input.claimed))
  IN  [triggered  |-> violations # <<>> \/ ~input.contract,
       severity   |-> severity,
       scope      |-> IF severity = "high" THEN "flow" ELSE "req",
       violations |-> violations]

=============================================================================
