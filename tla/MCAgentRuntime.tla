--------------------------- MODULE MCAgentRuntime --------------------------
(***************************************************************************)
(* AgentRuntime for TLC: two jobs of one tenant, and another tenant whose  *)
(* queue and worker a job can be misrouted to.                             *)
(***************************************************************************)
EXTENDS AgentRuntime

CONSTANTS t1, t2

Tenants == {t1, t2}
OwnerOf(j) == t1

=============================================================================
