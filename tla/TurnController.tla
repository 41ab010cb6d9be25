--------------------------- MODULE TurnController ---------------------------
(***************************************************************************)
(* The turn-advance workflow of the control plane                          *)
(* (services/control-plane/src/turn-controller.ts) and the between-turn    *)
(* agent runner it awaits (src/stubs/agent-runtime.ts), over the scenarios,*)
(* events and turn_snapshots tables and the pg connection pool.            *)
(*                                                                         *)
(* A Request is one POST .../turns/advance.  Each await of the handler is a*)
(* point where other requests run, so each stretch between two awaits that *)
(* others can tell apart is an action.  A transaction whose row lock keeps *)
(* others out (step 1, and the INSERT + UPDATE + COMMIT of steps 4 and 5)  *)
(* is one action; so is an autocommitted statement.                        *)
(***************************************************************************)
EXTENDS Integers, FiniteSets

CONSTANTS Scenario,       \* scenario ids (with their tenant)
          Request,        \* turn-advance requests
          MaxEvents,      \* bound: events one worker run returns
          PoolSize,       \* pg.Pool max, 10 in db.ts
          SnapshotLimit,  \* SNAPSHOT_RECENT_EVENTS_LIMIT, 1000
          NoTurn          \* closedTurn of a handler that has not locked a turn

ASSUME BoundsAssumption ==
    /\ MaxEvents \in Nat
    /\ PoolSize \in Nat \ {0}
    /\ SnapshotLimit \in Nat
    /\ NoTurn \notin Nat

VARIABLES rows,           \* scenarios that have a row in the scenarios table
          current_turn,   \* scenarios.current_turn
          turn_state,     \* scenarios.turn_state
          events,         \* the events table
          snapshots,      \* the turn_snapshots table
          held,           \* checked-out pool connections: <<request, user>>
          pc,             \* where each request's handler stands
          target,         \* the scenario each request names
          closedTurn,     \* the handler's closedTurn, NoTurn before step 1
          pending,        \* events of the worker's answer not inserted yet
          seen,           \* events the handler has read for its snapshot
          reply           \* HTTP status the handler settles on

tables == <<rows, current_turn, turn_state, events, snapshots>>
locals == <<target, closedTurn, pending, seen>>
vars == <<tables, held, pc, locals, reply>>

EventId == Request \X (1 .. MaxEvents)
Event == [scenario : Scenario, turn : Nat, id : EventId]
Snapshot == [scenario : Scenario, turn : Nat, events : SUBSET Event]

\* Handlers past step 1, up to the COMMIT of step 5.
Running == {"agents", "wantconn", "inserting", "snapshot", "opening"}
\* Handlers that have checked out the connection advanceTurn holds throughout.
Connected == {"locking", "catch"} \cup Running
InFlight == {"waiting"} \cup Connected
\* done: answered; gaveup: answered, the revert of the catch block failed;
\* dead: the process crashed under the handler.
Finished == {"done", "gaveup", "dead"}
PC == {"idle"} \cup InFlight \cup Finished

\* The two calls of pool.connect: advanceTurn's and runBetweenTurnAgents'.
Controller(r) == <<r, "controller">>
Runner(r) == <<r, "runner">>

EventsOf(s, t) == {e \in events : e.scenario = s /\ e.turn = t}
SnapshotsOf(s, t) == {x \in snapshots : x.scenario = s /\ x.turn = t}

\* ORDER BY ts DESC LIMIT n: which rows are the newest is left open.
Recent(found) ==
    IF Cardinality(found) <= SnapshotLimit
    THEN {found}
    ELSE {kept \in SUBSET found : Cardinality(kept) = SnapshotLimit}

-----------------------------------------------------------------------------
Init ==
    /\ rows = {}
    /\ current_turn = [s \in Scenario |-> 0]
    /\ turn_state = [s \in Scenario |-> "open"]
    /\ events = {}
    /\ snapshots = {}
    /\ held = {}
    /\ pc = [r \in Request |-> "idle"]
    /\ target \in [Request -> Scenario]
    /\ closedTurn = [r \in Request |-> NoTurn]
    /\ pending = [r \in Request |-> 0]
    /\ seen = [r \in Request |-> {}]
    /\ reply = [r \in Request |-> "none"]

Free == Cardinality(held) < PoolSize

Goto(r, label) == pc' = [pc EXCEPT ![r] = label]

\* Mutants of Throw: the catch block does not revert; the runner has no finally.
ThrowNoRevert(r, status) ==
    /\ Goto(r, "done")
    /\ reply' = [reply EXCEPT ![r] = status]
    /\ held' = held \ {Controller(r), Runner(r)}
ThrowKeepsRunner(r, status) ==
    /\ Goto(r, "catch")
    /\ reply' = [reply EXCEPT ![r] = status]
    /\ UNCHANGED held

\* Any rejected await inside the try block lands in the catch block; the
\* runner's own finally has released its connection by then.
Throw(r, status) ==
    /\ Goto(r, "catch")
    /\ reply' = [reply EXCEPT ![r] = status]
    /\ held' = held \ {Runner(r)}

\* The finally block: release the connection and answer.
Answer(r, label, status) ==
    /\ Goto(r, label)
    /\ reply' = [reply EXCEPT ![r] = status]
    /\ held' = held \ {Controller(r)}

-----------------------------------------------------------------------------
\* POST /tenants/:id/scenarios: one INSERT with the columns' defaults.
CreateScenario(s) ==
    /\ s \notin rows /\ Free
    /\ rows' = rows \cup {s}
    /\ UNCHANGED <<current_turn, turn_state, events, snapshots,
                   held, pc, locals, reply>>

Arrive(r) ==
    /\ pc[r] = "idle"
    /\ Goto(r, "waiting")
    /\ UNCHANGED <<tables, held, locals, reply>>

\* pool.connect() waits, without a timeout, until fewer than max are out.
Connect(r) ==
    /\ pc[r] = "waiting" /\ Free
    /\ Goto(r, "locking")
    /\ held' = held \cup {Controller(r)}
    /\ UNCHANGED <<tables, locals, reply>>

\* The database refuses the connection: outside the try, so no catch block.
ConnectFails(r) ==
    /\ pc[r] = "waiting" /\ Free
    /\ Answer(r, "done", "500")
    /\ UNCHANGED <<tables, locals>>

\* Step 1: BEGIN; SELECT ... FOR UPDATE; then ROLLBACK or UPDATE; COMMIT.
NotFound(r) ==
    /\ pc[r] = "locking" /\ target[r] \notin rows
    /\ Throw(r, "404")
    /\ UNCHANGED <<tables, locals>>

\* Mutant of Conflict: wait for the other advance by starting over.
ConflictRetries(r) ==
    /\ pc[r] = "locking" /\ target[r] \in rows
    /\ turn_state[target[r]] = "advancing"
    /\ Goto(r, "waiting")
    /\ held' = held \ {Controller(r)}
    /\ UNCHANGED <<tables, locals, reply>>

Conflict(r) ==
    /\ pc[r] = "locking" /\ target[r] \in rows
    /\ turn_state[target[r]] = "advancing"
    /\ Throw(r, "409")
    /\ UNCHANGED <<tables, locals>>

\* A COMMIT or an autocommitted INSERT may have taken effect although the
\* connection breaks before it is confirmed: Lock, InsertEvent and OpenNextTurn
\* go on, or end in the catch block.
Lock(r) ==
    /\ pc[r] = "locking" /\ target[r] \in rows
    /\ turn_state[target[r]] # "advancing"
    /\ closedTurn' = [closedTurn EXCEPT ![r] = current_turn[target[r]]]
    /\ turn_state' = [turn_state EXCEPT ![target[r]] = "advancing"]
    /\ \/ Goto(r, "agents") /\ UNCHANGED <<held, reply>>
       \/ Throw(r, "500")
    /\ UNCHANGED <<rows, current_turn, events, snapshots,
                   target, pending, seen>>

\* Mutant of WorkerAnswers: no check for an empty answer.
WorkerAnswersUnchecked(r) ==
    /\ pc[r] = "agents"
    /\ \E n \in 0 .. MaxEvents : pending' = [pending EXCEPT ![r] = n]
    /\ Goto(r, "wantconn")
    /\ UNCHANGED <<tables, held, target, closedTurn, seen, reply>>

\* Step 2: the worker's 2xx answer within 180 s, with any number of events.
WorkerAnswers(r) ==
    /\ pc[r] = "agents"
    /\ \E n \in 0 .. MaxEvents :
          /\ pending' = [pending EXCEPT ![r] = n]
          /\ Goto(r, IF n = 0 THEN "snapshot" ELSE "wantconn")
    /\ UNCHANGED <<tables, held, target, closedTurn, seen, reply>>

RunnerConnects(r) ==
    /\ pc[r] = "wantconn" /\ Free
    /\ Goto(r, "inserting")
    /\ held' = held \cup {Runner(r)}
    /\ UNCHANGED <<tables, locals, reply>>

\* One autocommitted INSERT, stamped with the turn after the closing one under
\* an id the worker drew for this run; after the last one the runner releases.
InsertEvent(r) ==
    /\ pc[r] = "inserting"
    /\ events' = events \cup
         {[scenario |-> target[r], turn |-> closedTurn[r] + 1,
           id |-> <<r, pending[r]>>]}
    /\ pending' = [pending EXCEPT ![r] = @ - 1]
    /\ \/ pending[r] > 1 /\ UNCHANGED <<pc, held, reply>>
       \/ pending[r] = 1 /\ Goto(r, "snapshot") /\ held' = held \ {Runner(r)}
                         /\ UNCHANGED reply
       \/ Throw(r, "500")
    /\ UNCHANGED <<rows, current_turn, turn_state, snapshots,
                   target, closedTurn, seen>>

\* Mutant of ReadForSnapshot: the turn about to open is read, not the closing one.
ReadNextTurn(r) ==
    /\ pc[r] = "snapshot"
    /\ \E kept \in Recent(EventsOf(target[r], closedTurn[r] + 1)) :
          seen' = [seen EXCEPT ![r] = kept]
    /\ Goto(r, "opening")
    /\ UNCHANGED <<tables, held, target, closedTurn, pending, reply>>

\* Steps 3 and 4: applyOverrides does nothing; BEGIN and the two SELECTs.
ReadForSnapshot(r) ==
    /\ pc[r] = "snapshot"
    /\ \E kept \in Recent(EventsOf(target[r], closedTurn[r])) :
          seen' = [seen EXCEPT ![r] = kept]
    /\ Goto(r, "opening")
    /\ UNCHANGED <<tables, held, target, closedTurn, pending, reply>>

\* Mutant of OpenNextTurn: INSERT ... ON CONFLICT DO NOTHING, and the row moves
\* one turn on from wherever it is.
OpenNextTurnIncrements(r) ==
    /\ pc[r] = "opening"
    /\ snapshots' = snapshots \cup
         {[scenario |-> target[r], turn |-> closedTurn[r], events |-> seen[r]]}
    /\ current_turn' = [current_turn EXCEPT ![target[r]] = @ + 1]
    /\ turn_state' = [turn_state EXCEPT ![target[r]] = "open"]
    /\ Answer(r, "done", "200")
    /\ UNCHANGED <<rows, events, locals>>

\* Mutant of OpenNextTurn: INSERT ... ON CONFLICT DO NOTHING.
OpenNextTurnAnyway(r) ==
    /\ pc[r] = "opening"
    /\ snapshots' = IF SnapshotsOf(target[r], closedTurn[r]) # {} THEN snapshots
                    ELSE snapshots \cup {[scenario |-> target[r],
                           turn |-> closedTurn[r], events |-> seen[r]]}
    /\ current_turn' = [current_turn EXCEPT ![target[r]] = closedTurn[r] + 1]
    /\ turn_state' = [turn_state EXCEPT ![target[r]] = "open"]
    /\ Answer(r, "done", "200")
    /\ UNCHANGED <<rows, events, locals>>

\* Steps 4 to 6: INSERT the snapshot, move the row to the next turn, COMMIT;
\* the notification that follows can only throw.
OpenNextTurn(r) ==
    /\ pc[r] = "opening"
    /\ SnapshotsOf(target[r], closedTurn[r]) = {}
    /\ snapshots' = snapshots \cup
         {[scenario |-> target[r], turn |-> closedTurn[r], events |-> seen[r]]}
    /\ current_turn' = [current_turn EXCEPT ![target[r]] = closedTurn[r] + 1]
    /\ turn_state' = [turn_state EXCEPT ![target[r]] = "open"]
    /\ Answer(r, "done", "200") \/ Throw(r, "500")
    /\ UNCHANGED <<rows, events, locals>>

\* turn_snapshots_unique_per_turn refuses a second snapshot of the turn.
DuplicateSnapshot(r) ==
    /\ pc[r] = "opening"
    /\ SnapshotsOf(target[r], closedTurn[r]) # {}
    /\ Throw(r, "500")
    /\ UNCHANGED <<tables, locals>>

\* Another rejected await: a statement the server refuses, the worker's
\* timeout or non-2xx answer, the runner's pool.connect failing to dial.
Rejected(r) ==
    /\ pc[r] \in {"locking"} \cup Running
    /\ pc[r] = "wantconn" => Free
    /\ Throw(r, "500")
    /\ UNCHANGED <<tables, locals>>

\* The catch block: reopen the scenario whoever set it advancing, then rethrow.
Revert(r) ==
    /\ pc[r] = "catch"
    /\ turn_state' = [turn_state EXCEPT ![target[r]] = "open"]
    /\ Answer(r, "done", reply[r])
    /\ UNCHANGED <<rows, current_turn, events, snapshots, locals>>

\* A secondary error of the catch block is swallowed.
RevertFails(r) ==
    /\ pc[r] = "catch"
    /\ Answer(r, "gaveup", reply[r])
    /\ UNCHANGED <<tables, locals>>

\* The process dies and restarts: handlers and their pool are gone, open
\* transactions roll back, committed rows stay.
Crash ==
    /\ \E r \in Request : pc[r] \in InFlight
    /\ pc' = [r \in Request |-> IF pc[r] \in InFlight THEN "dead" ELSE pc[r]]
    /\ held' = {}
    /\ UNCHANGED <<tables, locals, reply>>

-----------------------------------------------------------------------------
\* What the Node process does for one request once it has arrived.
Handle(r) ==
    \/ Connect(r) \/ ConnectFails(r)
    \/ NotFound(r) \/ Conflict(r) \/ Lock(r)
    \/ WorkerAnswers(r) \/ RunnerConnects(r) \/ InsertEvent(r)
    \/ ReadForSnapshot(r) \/ OpenNextTurn(r) \/ DuplicateSnapshot(r)
    \/ Rejected(r) \/ Revert(r) \/ RevertFails(r)

Next ==
    \/ \E s \in Scenario : CreateScenario(s)
    \/ \E r \in Request : Arrive(r) \/ Handle(r)
    \/ Crash

Spec == Init /\ [][Next]_vars

\* The event loop and the database keep serving a handler that can go on, and
\* AbortSignal.timeout bounds the worker's answer; nobody owes us a request,
\* a scenario or a crash.
FairSpec == Spec /\ \A r \in Request : WF_vars(Handle(r))

-----------------------------------------------------------------------------
\* Every variable keeps its type, closed turns are turns, and a handler past
\* step 1 works on a scenario that exists.
TypeOK ==
    /\ rows \subseteq Scenario
    /\ current_turn \in [Scenario -> Nat]
    /\ turn_state \in [Scenario -> {"open", "advancing"}]
    /\ events \subseteq Event
    /\ snapshots \subseteq Snapshot
    /\ held \subseteq Request \X {"controller", "runner"}
    /\ pc \in [Request -> PC]
    /\ target \in [Request -> Scenario]
    /\ closedTurn \in [Request -> Nat \cup {NoTurn}]
    /\ pending \in [Request -> 0 .. MaxEvents]
    /\ seen \in [Request -> SUBSET Event]
    /\ reply \in [Request -> {"none", "200", "404", "409", "500"}]
    /\ \A r \in Request : pc[r] \in Running =>
          closedTurn[r] # NoTurn /\ target[r] \in rows
    /\ \A r \in Request : pc[r] \in {"wantconn", "inserting"} => pending[r] > 0

\* Whatever overlaps, fails or crashes, a scenario in turn n has exactly one
\* snapshot of each turn 0 .. n-1 and none of a later one: steps 4 and 5 never
\* skip, repeat or take back a turn, even from a stale closedTurn.
SnapshotsMatchTurn ==
    /\ \A s \in Scenario :
          {x.turn : x \in {y \in snapshots : y.scenario = s}}
             = 0 .. current_turn[s] - 1
    /\ \A x, y \in snapshots :
          x.scenario = y.scenario /\ x.turn = y.turn => x = y

\* A scenario left in 'advancing' is explained by a handler that set it and has
\* not given it back: still running or reverting, dead, or its revert failed.
\* No path of the handler returns leaving the scenario locked.
AdvancingHasOwner ==
    \A s \in Scenario : turn_state[s] = "advancing" =>
        \E r \in Request :
            /\ target[r] = s
            /\ closedTurn[r] # NoTurn
            /\ pc[r] \in Running \cup {"catch", "gaveup", "dead"}

\* Both finally blocks release: a connection is out exactly while the code
\* between its connect and its release runs, and never more than max are out.
NoConnectionLeak ==
    /\ \A r \in Request :
          /\ Controller(r) \in held <=> pc[r] \in Connected
          /\ Runner(r) \in held <=> pc[r] = "inserting"
    /\ Cardinality(held) <= PoolSize

\* Up to the limit, the snapshot of a turn holds every event of the run that
\* opened that turn: the replay loses nothing a 200 answer announced.
OpeningRunArchived ==
    \A x \in snapshots :
        Cardinality(EventsOf(x.scenario, x.turn)) <= SnapshotLimit =>
            {e \in EventsOf(x.scenario, x.turn) : reply[e.id[1]] = "200"}
               \subseteq x.events

\* No two requests are told that they closed the same turn, and a turn whose
\* closing was announced stays closed, whatever overlaps or gets lost.
AnsweredTurnsDiffer ==
    \A r \in Request : reply[r] = "200" =>
        /\ closedTurn[r] \in 0 .. current_turn[target[r]] - 1
        /\ \A q \in Request \ {r} :
              reply[q] = "200" /\ target[q] = target[r] =>
                  closedTurn[q] # closedTurn[r]

\* The workflow implements the ledger: atomic closes, an append-only log at
\* most one turn ahead, immutable snapshots taken from that log.
Ledger == INSTANCE TurnLedger
            WITH turn <- current_turn, log <- events, archive <- snapshots
LedgerSpec == Ledger!Spec

\* A request that arrived is answered, or dies with the process.
EveryRequestSettles ==
    \A r \in Request : pc[r] = "waiting" ~> pc[r] \in Finished

\* turn-controller.ts:12-15: concurrent advances serialize, so at most one
\* request is between steps 1 and 5 of a scenario.
AdvancesSerialize ==
    \A r1, r2 \in Request :
        target[r1] = target[r2] /\ {pc[r1], pc[r2]} \subseteq Running => r1 = r2

=============================================================================
