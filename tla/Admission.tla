----------------------------- MODULE Admission -----------------------------
(***************************************************************************)
(* The hooks in front of a route, both of                                  *)
(* hardening/src/jwt/auth-middleware.ts, in the order of                   *)
(* ADR-007-phase06-security-hardening.md: verifyJwt answers for whom a     *)
(* request is made, and rateLimitMiddleware charges that tenant for        *)
(* POST /v1/process.  The server registers neither; the composition is the *)
(* one their interface, req.auth, is made for.                             *)
(*                                                                         *)
(* A token is its claims and whether its parts, signature and payload are  *)
(* sound; one that is not sound never gets as far as its claims.           *)
(***************************************************************************)
EXTENDS RateLimiter

CONSTANTS
  Routes,  \* the routes asked for, as method and url
  Tokens,  \* the tokens presented
  NoToken  \* a request without a Bearer token

NoPartner == "none"

JwtRole == {"operator", "admin", "auditor"}

JwtPayload ==
  [sub : Tenants, role : JwtRole, exp : Nat, iss : STRING, sound : BOOLEAN]

ASSUME AdmissionAssumption ==
  /\ Tokens \subseteq JwtPayload
  /\ NoToken \notin Tokens
  /\ NoPartner \notin Tenants

VARIABLES
  secret, \* whether JWT_SECRET is set
  bearer  \* the token verifyJwt went by for the last request that was charged

admissionVars == <<vars, secret, bearer>>

AdmissionInit ==
  /\ Init
  /\ secret \in BOOLEAN
  /\ bearer = NoToken

-----------------------------------------------------------------------------

\* The roles that may use a route; one that has no entry is open to every role.  The
\* entry of the stream is under the method "WS", which no request has.
ROUTE_ROLES(route) ==
  CASE route = "POST /v1/process" -> {"operator", "admin"}
    [] route \in {"POST /v1/policy", "GET /v1/detectors"} -> {"admin"}
    [] route = "GET /v1/policy/history" -> {"admin", "auditor"}
    [] OTHER -> JwtRole

\* exp is in seconds, a token without it (or with 0) does not expire, and one that has
\* is good until the end of that second.
Expired(token) == token.exp # 0 /\ token.exp < now \div Second

verifyToken(token) == token.sound /\ ~Expired(token) /\ token.iss = "ncaos-egs"

\* Mutant: the partner of the header is not compared with the subject of the token.
verifyJwt_Unmatched(token, partner, route) ==
  CASE ~secret -> IF partner = NoPartner THEN 401 ELSE 200
    [] secret /\ token = NoToken -> 401
    [] secret /\ token # NoToken ->
         IF ~verifyToken(token) \/ partner = NoPartner THEN 401
         ELSE IF token.role \notin ROUTE_ROLES(route) THEN 403 ELSE 200

\* What verifyJwt answers, 200 if it lets the request pass; without JWT_SECRET it only
\* asks for a partner id.
verifyJwt(token, partner, route) ==
  CASE ~secret -> IF partner = NoPartner THEN 401 ELSE 200
    [] secret /\ token = NoToken -> 401
    [] secret /\ token # NoToken ->
         IF ~verifyToken(token) \/ partner = NoPartner THEN 401
         ELSE IF partner # token.sub \/ token.role \notin ROUTE_ROLES(route) THEN 403
         ELSE 200

\* A request for partner.  One that verifyJwt answers itself, or that is for a route
\* other than the one rateLimitMiddleware stands in front of, changes nothing.
Request(token, partner, route) ==
  \/ /\ verifyJwt(token, partner, route) = 200 /\ route = "POST /v1/process"
     /\ check(partner)
     /\ bearer' = IF secret THEN token ELSE NoToken
     /\ UNCHANGED secret
  \/ /\ verifyJwt(token, partner, route) # 200 \/ route # "POST /v1/process"
     /\ UNCHANGED admissionVars

AdmissionNext ==
  \/ \E token \in Tokens \cup {NoToken}, partner \in Tenants \cup {NoPartner}, route \in Routes :
       Request(token, partner, route)
  \/ (Tick \/ StepBack) /\ UNCHANGED <<secret, bearer>>

AdmissionSpec == AdmissionInit /\ [][AdmissionNext]_admissionVars

-----------------------------------------------------------------------------
(***************************************************************************)
(* Properties                                                              *)
(***************************************************************************)

\* Whether the budget of tenant t is drawn on, or its bucket made or refilled.
Charged(t) ==
  \/ t \in DOMAIN buckets' /\ t \notin DOMAIN buckets
  \/ t \in DOMAIN buckets' \cap DOMAIN buckets /\ buckets'[t] # buckets[t]
  \/ allowed'[t] # allowed[t]

\* "TENANT_A exhausting its rate limit does not affect TENANT_B" (ADR-007:48): in
\* production a tenant's budget is only touched by its own requests, with a token of its
\* own whose last second has not passed, for a role that may process; whatever the first
\* hook turns away, for whichever reason, and whatever the header says, costs no one.
OnlyBearersAreCharged ==
  [][\A t \in Tenants : (secret /\ Charged(t)) =>
       /\ bearer' # NoToken /\ bearer'.sub = t /\ bearer'.sound
       /\ bearer'.exp = 0 \/ now < Second * (bearer'.exp + 1)
       /\ bearer'.role # "auditor"]_admissionVars

=============================================================================
