---------------------------- MODULE MCEventStore ----------------------------
(* Two tenants for the model checker; t1 is the server's own PARTNER_ID.   *)
EXTENDS EventStore

CONSTANTS t1, t2

\* By the listener alone (another caller of the shell), or by the listener under
\* PARTNER_ID and by the route for a caller with an id of its own.
Apart == {<<t1>>, <<t1, t2>>}

\* server.ts: by the shell:output listener under PARTNER_ID, then by the handler of
\* POST /v1/process under the caller's id.
Twice == {<<t1, t1>>, <<t1, t2>>}
=============================================================================
