----------------------------- MODULE TurnLedger -----------------------------
(***************************************************************************)
(* What the turn controller promises the rest of the platform: every       *)
(* scenario owns a turn counter that moves forward by exactly one, and     *)
(* only together with the one snapshot that archives the turn it leaves;   *)
(* the event log only grows, never more than one turn ahead of the         *)
(* counter.  Nothing is said of requests, locks, connections or failures.  *)
(***************************************************************************)
EXTENDS Naturals

CONSTANTS Scenario,   \* the scenarios of every tenant
          EventId     \* the primary keys of the events table

VARIABLES turn,       \* [Scenario -> Nat], the turn players are in
          log,        \* the events table: a set of Event
          archive     \* the snapshots: a set of records, one per closed turn

ledger == <<turn, log, archive>>

Event == [scenario : Scenario, turn : Nat, id : EventId]

\* The rows of one turn of one scenario.
Of(rows, s, t) == {e \in rows : e.scenario = s /\ e.turn = t}

Init ==
    /\ turn = [s \in Scenario |-> 0]
    /\ log = {}
    /\ archive = {}

\* Agents of the coming turn, or of a turn already past, record one event.
Record(s) ==
    /\ \E t \in 0 .. turn[s] + 1, id \in EventId :
          log' = log \cup {[scenario |-> s, turn |-> t, id |-> id]}
    /\ UNCHANGED <<turn, archive>>

\* The turn closes: its snapshot appears and the counter moves, in one step.
Close(s) ==
    /\ \E kept \in SUBSET Of(log, s, turn[s]) :
          archive' = archive \cup
                       {[scenario |-> s, turn |-> turn[s], events |-> kept]}
    /\ turn' = [turn EXCEPT ![s] = @ + 1]
    /\ UNCHANGED log

Next == \E s \in Scenario : Record(s) \/ Close(s)

Spec == Init /\ [][Next]_ledger

=============================================================================
