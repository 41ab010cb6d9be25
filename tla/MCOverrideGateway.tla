-------------------------- MODULE MCOverrideGateway -------------------------
(***************************************************************************)
(* OverrideGateway, with the history of its lookups, for TLC: every name   *)
(* is interchangeable with the others of its kind.                         *)
(***************************************************************************)
EXTENDS VerdictHistory, TLC

Symmetry == Permutations(Call) \cup Permutations(Scenario)
            \cup Permutations(Agent) \cup Permutations(EventId)

=============================================================================
