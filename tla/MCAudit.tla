------------------------------- MODULE MCAudit -------------------------------
(* The events a shell with the server's profile, ENTERPRISE_STRICT, leaves, for *)
(* the model checker: latencies below and above the gate's threshold.           *)
EXTENDS Audit

CONSTANTS t1, t2

MCKinds ==
  {[layer |-> "gate", severity |-> "high", action |-> "BLOCK", mttdUs |-> 20],
   [layer |-> "gate", severity |-> "low", action |-> "DOWNGRADE", mttdUs |-> 60000],
   [layer |-> "continuity", severity |-> "med", action |-> "BLOCK", mttdUs |-> 70]}

\* server.ts: by the shell:output listener under PARTNER_ID, here t2, then by the handler of
\* POST /v1/process under the caller's id, that of t1 or PARTNER_ID's own.
MCServer == {<<t2, t1>>, <<t2, t2>>}
=============================================================================
