---------------------------- MODULE MCAdmission ----------------------------
(* Two tenants with tokens of every kind the first hook treats apart: of all *)
(* roles, good for two seconds or for ever, and not sound.                   *)
EXTENDS Admission

Token(sub, role, exp, iss, sound) ==
  [sub |-> sub, role |-> role, exp |-> exp, iss |-> iss, sound |-> sound]

MCTokens ==
  {Token("t1", "operator", 1, "ncaos-egs", TRUE), Token("t2", "admin", 0, "ncaos-egs", TRUE),
   Token("t1", "auditor", 0, "ncaos-egs", TRUE), Token("t2", "operator", 0, "another", FALSE)}

MCNoToken == [sub |-> "none"]

MCRoutes == {"POST /v1/process", "POST /v1/policy"}

=============================================================================
