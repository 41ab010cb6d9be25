-------------------------- MODULE MCTurnController --------------------------
(***************************************************************************)
(* TurnController for TLC.  Requests and scenarios are interchangeable, so *)
(* runs that check no liveness may identify states that differ only in     *)
(* their names.                                                            *)
(***************************************************************************)
EXTENDS TurnController, TLC

Symmetry == Permutations(Request) \cup Permutations(Scenario)

=============================================================================
