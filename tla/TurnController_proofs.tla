------------------------ MODULE TurnController_proofs ------------------------
(***************************************************************************)
(* Machine-checked theorems about TurnController, for every set of         *)
(* requests and scenarios, every pool size and every snapshot limit.       *)
(***************************************************************************)
EXTENDS TurnController, FiniteSetTheorems, TLAPS

-----------------------------------------------------------------------------
\* Type correctness is inductive as it stands.
THEOREM TypeCorrect == Spec => []TypeOK
<1> USE BoundsAssumption
<1>1. Init => TypeOK
  BY DEF Init, TypeOK, PC, Running
<1>2. TypeOK /\ [Next]_vars => TypeOK'
  <2> SUFFICES ASSUME TypeOK, [Next]_vars PROVE TypeOK'
    OBVIOUS
  <2> USE DEF TypeOK, tables, locals, PC, InFlight, Connected, Running,
              Finished, Goto, Controller, Runner
  <2>1. ASSUME NEW s \in Scenario, CreateScenario(s) PROVE TypeOK'
    BY <2>1 DEF CreateScenario
  <2>2. ASSUME NEW r \in Request, Arrive(r) PROVE TypeOK'
    BY <2>2 DEF Arrive
  <2>3. ASSUME NEW r \in Request, Connect(r) PROVE TypeOK'
    BY <2>3 DEF Connect
  <2>4. ASSUME NEW r \in Request, ConnectFails(r) PROVE TypeOK'
    BY <2>4 DEF ConnectFails, Answer
  <2>5. ASSUME NEW r \in Request, NotFound(r) PROVE TypeOK'
    BY <2>5 DEF NotFound, Throw
  <2>6. ASSUME NEW r \in Request, Conflict(r) PROVE TypeOK'
    BY <2>6 DEF Conflict, Throw
  <2>7. ASSUME NEW r \in Request, Lock(r) PROVE TypeOK'
    BY <2>7 DEF Lock, Throw
  <2>8. ASSUME NEW r \in Request, WorkerAnswers(r) PROVE TypeOK'
    BY <2>8 DEF WorkerAnswers
  <2>9. ASSUME NEW r \in Request, RunnerConnects(r) PROVE TypeOK'
    BY <2>9 DEF RunnerConnects
  <2>10. ASSUME NEW r \in Request, InsertEvent(r) PROVE TypeOK'
    <3> DEFINE e == [scenario |-> target[r], turn |-> closedTurn[r] + 1,
                     id |-> <<r, pending[r]>>]
    <3>1. pending[r] \in 1 .. MaxEvents /\ closedTurn[r] \in Nat
      BY <2>10 DEF InsertEvent
    <3>2. e \in Event
      BY <3>1 DEF Event, EventId
    <3>3. events' \subseteq Event
      BY <2>10, <3>2 DEF InsertEvent
    <3>4. pending' \in [Request -> 0 .. MaxEvents]
      BY <2>10, <3>1 DEF InsertEvent
    <3>5. pc' \in [Request -> PC] /\ held' \subseteq held
      BY <2>10 DEF InsertEvent, Throw
    <3>6. \A q \in Request :
             pc'[q] \in {"wantconn", "inserting"} => pending'[q] > 0
      BY <2>10, <3>1 DEF InsertEvent, Throw
    <3>7. \A q \in Request : pc'[q] \in Running =>
             closedTurn'[q] # NoTurn /\ target'[q] \in rows'
      BY <2>10 DEF InsertEvent, Throw
    <3> QED
      BY <2>10, <3>3, <3>4, <3>5, <3>6, <3>7 DEF InsertEvent, Throw
  <2>11. ASSUME NEW r \in Request, ReadForSnapshot(r) PROVE TypeOK'
    <3>1. \A found : \A kept \in Recent(found) : kept \subseteq found
      BY DEF Recent
    <3>2. seen' \in [Request -> SUBSET Event]
      <4>1. EventsOf(target[r], closedTurn[r]) \subseteq Event
        BY DEF EventsOf
      <4> QED
        BY <2>11, <3>1, <4>1 DEF ReadForSnapshot
    <3> QED
      BY <2>11, <3>2 DEF ReadForSnapshot
  <2>12. ASSUME NEW r \in Request, OpenNextTurn(r) PROVE TypeOK'
    <3>1. closedTurn[r] \in Nat
      BY <2>12 DEF OpenNextTurn
    <3>2. [scenario |-> target[r], turn |-> closedTurn[r], events |-> seen[r]]
             \in Snapshot
      BY <3>1 DEF Snapshot
    <3> QED
      BY <2>12, <3>1, <3>2 DEF OpenNextTurn, Answer, Throw
  <2>13. ASSUME NEW r \in Request, DuplicateSnapshot(r) PROVE TypeOK'
    BY <2>13 DEF DuplicateSnapshot, Throw
  <2>14. ASSUME NEW r \in Request, Rejected(r) PROVE TypeOK'
    BY <2>14 DEF Rejected, Throw
  <2>15. ASSUME NEW r \in Request, Revert(r) PROVE TypeOK'
    BY <2>15 DEF Revert, Answer
  <2>16. ASSUME NEW r \in Request, RevertFails(r) PROVE TypeOK'
    BY <2>16 DEF RevertFails, Answer
  <2>17. CASE Crash
    BY <2>17 DEF Crash
  <2>18. CASE UNCHANGED vars
    BY <2>18 DEF vars
  <2> QED
    BY <2>1, <2>2, <2>3, <2>4, <2>5, <2>6, <2>7, <2>8, <2>9, <2>10, <2>11,
       <2>12, <2>13, <2>14, <2>15, <2>16, <2>17, <2>18 DEF Next, Handle
<1> QED
  BY <1>1, <1>2, PTL DEF Spec

-----------------------------------------------------------------------------
(***************************************************************************)
(* The turn counter and its snapshots.  A handler's closedTurn may be      *)
(* stale, so the UNIQUE constraint alone does not make the counter move by *)
(* one: it also takes that a closed turn is never ahead of the counter, and*)
(* that the snapshots on file are those of all the turns behind it.        *)
(***************************************************************************)
NeverAhead ==
    \A r \in Request :
        closedTurn[r] # NoTurn => closedTurn[r] <= current_turn[target[r]]

ArchivedBehind ==
    \A s \in Scenario, t \in Nat : SnapshotsOf(s, t) # {} <=> t < current_turn[s]

OnePerTurn ==
    \A x, y \in snapshots :
        x.scenario = y.scenario /\ x.turn = y.turn => x = y

TurnInv == NeverAhead /\ ArchivedBehind /\ OnePerTurn

\* Which steps touch the counter, the snapshots and the closed turns.
LEMMA CounterSteps ==
    ASSUME [Next]_vars
    PROVE  \/ \E r \in Request : Lock(r)
           \/ \E r \in Request : OpenNextTurn(r)
           \/ UNCHANGED <<snapshots, current_turn, closedTurn, target>>
BY DEF Next, vars, tables, locals, CreateScenario, Arrive, Handle, Connect,
       ConnectFails, NotFound, Conflict, WorkerAnswers, RunnerConnects,
       InsertEvent, ReadForSnapshot, DuplicateSnapshot, Rejected, Revert,
       RevertFails, Crash

\* The turn a committing handler closes is the one the scenario is in.
LEMMA ClosesCurrentTurn ==
    ASSUME TypeOK, TurnInv, NEW r \in Request, OpenNextTurn(r)
    PROVE  /\ closedTurn[r] \in Nat
           /\ target[r] \in Scenario
           /\ closedTurn[r] = current_turn[target[r]]
<1>1. closedTurn[r] \in Nat /\ target[r] \in Scenario /\ closedTurn[r] # NoTurn
  BY BoundsAssumption DEF TypeOK, OpenNextTurn, Running
<1>2. closedTurn[r] <= current_turn[target[r]]
  BY <1>1 DEF TurnInv, NeverAhead
<1>3. ~(closedTurn[r] < current_turn[target[r]])
  BY <1>1 DEF TurnInv, ArchivedBehind, OpenNextTurn
<1>4. current_turn[target[r]] \in Nat
  BY <1>1 DEF TypeOK
<1> QED
  BY <1>1, <1>2, <1>3, <1>4

LEMMA TurnInvStep ==
    ASSUME TypeOK, TurnInv, [Next]_vars
    PROVE  TurnInv'
<1>1. CASE \E r \in Request : Lock(r)
  <2>1. PICK r \in Request : Lock(r)
    BY <1>1
  <2>2. UNCHANGED <<snapshots, current_turn, target>>
    BY <2>1 DEF Lock
  <2>3. NeverAhead'
    BY <2>1, <2>2 DEF Lock, TurnInv, NeverAhead, TypeOK
  <2> QED
    BY <2>2, <2>3 DEF TurnInv, ArchivedBehind, OnePerTurn, SnapshotsOf
<1>2. CASE \E r \in Request : OpenNextTurn(r)
  <2>1. PICK r \in Request : OpenNextTurn(r)
    BY <1>2
  <2> DEFINE s == target[r]
             n == closedTurn[r]
             x == [scenario |-> s, turn |-> n, events |-> seen[r]]
  <2>2. n \in Nat /\ s \in Scenario /\ n = current_turn[s]
    BY <2>1, ClosesCurrentTurn
  <2>3. /\ snapshots' = snapshots \cup {x}
        /\ current_turn' = [current_turn EXCEPT ![s] = n + 1]
        /\ UNCHANGED <<closedTurn, target>>
        /\ SnapshotsOf(s, n) = {}
    BY <2>1 DEF OpenNextTurn, locals
  <2>4. NeverAhead'
    <3> SUFFICES ASSUME NEW q \in Request, closedTurn[q] # NoTurn
                 PROVE  closedTurn[q] <= current_turn'[target[q]]
      BY <2>3 DEF NeverAhead
    <3>1. closedTurn[q] \in Nat /\ closedTurn[q] <= current_turn[target[q]]
      BY DEF TypeOK, TurnInv, NeverAhead
    <3>2. current_turn[target[q]] \in Nat /\ target[q] \in Scenario
      BY DEF TypeOK
    <3> QED
      BY <2>2, <2>3, <3>1, <3>2 DEF TypeOK
  <2>5. ArchivedBehind'
    <3> SUFFICES ASSUME NEW u \in Scenario, NEW t \in Nat
                 PROVE  SnapshotsOf(u, t)' # {} <=> t < current_turn'[u]
      BY DEF ArchivedBehind
    <3>1. SnapshotsOf(u, t)' =
             SnapshotsOf(u, t) \cup (IF u = s /\ t = n THEN {x} ELSE {})
      BY <2>3 DEF SnapshotsOf
    <3>2. SnapshotsOf(u, t) # {} <=> t < current_turn[u]
      BY DEF TurnInv, ArchivedBehind
    <3>3. current_turn'[u] = IF u = s THEN n + 1 ELSE current_turn[u]
      BY <2>3 DEF TypeOK
    <3>4. CASE u = s /\ t = n
      <4>1. x \in SnapshotsOf(u, t)'
        BY <3>1, <3>4
      <4>2. t < current_turn'[u]
        BY <2>2, <3>3, <3>4
      <4> QED
        BY <4>1, <4>2
    <3>5. CASE ~(u = s /\ t = n)
      BY <2>2, <3>1, <3>2, <3>3, <3>5
    <3> QED
      BY <3>4, <3>5
  <2>6. OnePerTurn'
    BY <2>3 DEF TurnInv, OnePerTurn, SnapshotsOf
  <2> QED
    BY <2>4, <2>5, <2>6 DEF TurnInv
<1>3. CASE UNCHANGED <<snapshots, current_turn, closedTurn, target>>
  BY <1>3 DEF TurnInv, NeverAhead, ArchivedBehind, OnePerTurn, SnapshotsOf
<1> QED
  BY <1>1, <1>2, <1>3, CounterSteps

LEMMA TurnInvariant == Spec => []TurnInv
<1>1. Init => TurnInv
  BY DEF Init, TurnInv, NeverAhead, ArchivedBehind, OnePerTurn, SnapshotsOf
<1>2. TypeOK /\ TurnInv /\ [Next]_vars => TurnInv'
  BY TurnInvStep
<1> QED
  BY <1>1, <1>2, TypeCorrect, PTL DEF Spec

\* A scenario in turn n has exactly one snapshot of each of 0 .. n-1.
THEOREM OneSnapshotPerClosedTurn == Spec => []SnapshotsMatchTurn
<1>1. TypeOK /\ TurnInv => SnapshotsMatchTurn
  <2> SUFFICES ASSUME TypeOK, TurnInv, NEW s \in Scenario
               PROVE  {x.turn : x \in {y \in snapshots : y.scenario = s}}
                         = 0 .. current_turn[s] - 1
    BY DEF SnapshotsMatchTurn, TurnInv, OnePerTurn
  <2>1. ASSUME NEW x \in snapshots, x.scenario = s
        PROVE  x.turn \in 0 .. current_turn[s] - 1
    <3>1. x.turn \in Nat /\ x \in SnapshotsOf(s, x.turn)
      BY <2>1 DEF TypeOK, Snapshot, SnapshotsOf
    <3>2. x.turn < current_turn[s] /\ current_turn[s] \in Nat
      BY <3>1 DEF TurnInv, ArchivedBehind, TypeOK
    <3> QED
      BY <3>1, <3>2
  <2>2. ASSUME NEW t \in 0 .. current_turn[s] - 1
        PROVE  \E x \in snapshots : x.scenario = s /\ x.turn = t
    <3>1. t \in Nat /\ t < current_turn[s]
      BY DEF TypeOK
    <3> QED
      BY <3>1 DEF TurnInv, ArchivedBehind, SnapshotsOf
  <2> QED
    BY <2>1, <2>2
<1> QED
  BY <1>1, TypeCorrect, TurnInvariant, PTL

-----------------------------------------------------------------------------
(***************************************************************************)
(* The refinement.  Only two kinds of step show in the ledger; a commit    *)
(* archives what its handler read, which is still in the append-only log.  *)
(***************************************************************************)
SeenIsLogged ==
    \A r \in Request : pc[r] = "opening" =>
        seen[r] \subseteq EventsOf(target[r], closedTurn[r])

\* Steps that neither read nor write events, snapshots, counter or closed turn,
\* and bring no handler to its commit or to a 200 answer.
Quiet ==
    /\ UNCHANGED <<events, snapshots, current_turn, closedTurn, target, seen>>
    /\ \A r \in Request :
          /\ pc'[r] = "opening" => pc[r] = "opening"
          /\ pc'[r] \in {"idle", "waiting", "locking"} =>
                pc[r] \in {"idle", "waiting", "locking"}
          /\ reply'[r] = "200" => reply[r] = "200"
          /\ pc[r] = "done" => pc'[r] = "done"

LEMMA LedgerSteps ==
    ASSUME TypeOK, [Next]_vars
    PROVE  \/ \E r \in Request : Lock(r)
           \/ \E r \in Request : InsertEvent(r)
           \/ \E r \in Request : ReadForSnapshot(r)
           \/ \E r \in Request : OpenNextTurn(r)
           \/ Quiet
<1> USE DEF Quiet, TypeOK, tables, locals, Goto
<1>1. ASSUME NEW s \in Scenario, CreateScenario(s) PROVE Quiet
  BY <1>1 DEF CreateScenario
<1>2. ASSUME NEW r \in Request,
             \/ Arrive(r) \/ Connect(r) \/ WorkerAnswers(r) \/ RunnerConnects(r)
      PROVE  Quiet
  BY <1>2 DEF Arrive, Connect, WorkerAnswers, RunnerConnects
<1>3. ASSUME NEW r \in Request,
             ConnectFails(r) \/ Revert(r) \/ RevertFails(r)
      PROVE  Quiet
  BY <1>3 DEF ConnectFails, Revert, RevertFails, Answer
<1>4. ASSUME NEW r \in Request,
             NotFound(r) \/ Conflict(r) \/ DuplicateSnapshot(r) \/ Rejected(r)
      PROVE  Quiet
  BY <1>4 DEF NotFound, Conflict, DuplicateSnapshot, Rejected, Throw, Running
<1>5. CASE Crash
  BY <1>5 DEF Crash, InFlight, Connected, Running
<1>6. CASE UNCHANGED vars
  BY <1>6 DEF vars
<1> QED
  BY <1>1, <1>2, <1>3, <1>4, <1>5, <1>6 DEF Next, Handle

LEMMA SeenIsLoggedStep ==
    ASSUME TypeOK, SeenIsLogged, [Next]_vars
    PROVE  SeenIsLogged'
<1>1. ASSUME NEW r \in Request, Lock(r) PROVE SeenIsLogged'
  <2> SUFFICES ASSUME NEW q \in Request, pc'[q] = "opening"
               PROVE  seen'[q] \subseteq EventsOf(target[q], closedTurn[q])'
    BY DEF SeenIsLogged
  <2>1. q # r /\ pc[q] = "opening"
    BY <1>1 DEF Lock, Throw, Goto, TypeOK
  <2> QED
    BY <1>1, <2>1 DEF Lock, SeenIsLogged, EventsOf, TypeOK
<1>2. ASSUME NEW r \in Request, InsertEvent(r) PROVE SeenIsLogged'
  <2>1. events \subseteq events' /\ UNCHANGED <<target, closedTurn, seen>>
    BY <1>2 DEF InsertEvent
  <2>2. \A q \in Request : pc'[q] = "opening" => pc[q] = "opening"
    BY <1>2 DEF InsertEvent, Throw, Goto, TypeOK
  <2> QED
    BY <2>1, <2>2 DEF SeenIsLogged, EventsOf
<1>3. ASSUME NEW r \in Request, ReadForSnapshot(r) PROVE SeenIsLogged'
  <2>1. PICK kept \in Recent(EventsOf(target[r], closedTurn[r])) :
           seen' = [seen EXCEPT ![r] = kept]
    BY <1>3 DEF ReadForSnapshot
  <2>2. kept \subseteq EventsOf(target[r], closedTurn[r])
    BY <2>1 DEF Recent
  <2>3. \A q \in Request :
           pc'[q] = "opening" => pc[q] = "opening" \/ q = r
    BY <1>3 DEF ReadForSnapshot, Goto, TypeOK
  <2>4. UNCHANGED <<events, target, closedTurn>>
    BY <1>3 DEF ReadForSnapshot, tables
  <2> QED
    BY <2>1, <2>2, <2>3, <2>4 DEF SeenIsLogged, EventsOf, TypeOK
<1>4. ASSUME NEW r \in Request, OpenNextTurn(r) PROVE SeenIsLogged'
  <2>1. \A q \in Request : pc'[q] = "opening" => pc[q] = "opening"
    BY <1>4 DEF OpenNextTurn, Answer, Throw, Goto, TypeOK
  <2> QED
    BY <1>4, <2>1 DEF OpenNextTurn, locals, SeenIsLogged, EventsOf
<1>5. CASE Quiet
  BY <1>5 DEF Quiet, SeenIsLogged, EventsOf
<1> QED
  BY <1>1, <1>2, <1>3, <1>4, <1>5, LedgerSteps

LEMMA SeenInvariant == Spec => []SeenIsLogged
<1>1. Init => SeenIsLogged
  BY DEF Init, SeenIsLogged
<1> QED
  BY <1>1, SeenIsLoggedStep, TypeCorrect, PTL DEF Spec

\* A step of the workflow is a step of the ledger, or leaves it alone.
LEMMA StepRefines ==
    ASSUME TypeOK, TurnInv, SeenIsLogged, [Next]_vars
    PROVE  [Ledger!Next]_Ledger!ledger
<1>1. ASSUME NEW r \in Request, InsertEvent(r) PROVE Ledger!Next
  <2> DEFINE s == target[r]
             t == closedTurn[r] + 1
             id == <<r, pending[r]>>
  <2>1. closedTurn[r] \in Nat /\ pending[r] \in 1 .. MaxEvents /\ s \in Scenario
    BY <1>1, BoundsAssumption DEF InsertEvent, TypeOK, Running
  <2>2. closedTurn[r] <= current_turn[s] /\ current_turn[s] \in Nat
    BY <2>1, BoundsAssumption DEF TurnInv, NeverAhead, TypeOK
  <2>3. t \in 0 .. current_turn[s] + 1 /\ id \in EventId
    BY <2>1, <2>2 DEF EventId
  <2>4. Ledger!Record(s)
    BY <1>1, <2>3 DEF InsertEvent, Ledger!Record
  <2> QED
    BY <2>1, <2>4 DEF Ledger!Next
<1>2. ASSUME NEW r \in Request, OpenNextTurn(r) PROVE Ledger!Next
  <2> DEFINE s == target[r]
  <2>1. s \in Scenario /\ closedTurn[r] = current_turn[s]
    BY <1>2, ClosesCurrentTurn
  <2>2. seen[r] \in SUBSET Ledger!Of(events, s, current_turn[s])
    BY <1>2, <2>1 DEF OpenNextTurn, SeenIsLogged, EventsOf, Ledger!Of
  <2>3. Ledger!Close(s)
    <3>1. snapshots' = snapshots \cup {[scenario |-> s,
                            turn |-> current_turn[s], events |-> seen[r]]}
      BY <1>2, <2>1 DEF OpenNextTurn
    <3>2. current_turn' = [current_turn EXCEPT ![s] = @ + 1]
      BY <1>2, <2>1 DEF OpenNextTurn
    <3>3. UNCHANGED events
      BY <1>2 DEF OpenNextTurn
    <3> QED
      BY <2>2, <3>1, <3>2, <3>3 DEF Ledger!Close
  <2> QED
    BY <2>1, <2>3 DEF Ledger!Next
<1>3. ASSUME NEW r \in Request, Lock(r) \/ ReadForSnapshot(r)
      PROVE  UNCHANGED Ledger!ledger
  BY <1>3 DEF Lock, ReadForSnapshot, tables, Ledger!ledger
<1>4. CASE Quiet
  BY <1>4 DEF Quiet, Ledger!ledger
<1> QED
  BY <1>1, <1>2, <1>3, <1>4, LedgerSteps

\* The turn-advance workflow implements the turn ledger.
THEOREM ImplementsLedger == Spec => LedgerSpec
<1>1. Init => Ledger!Init
  BY DEF Init, Ledger!Init
<1> QED
  BY <1>1, StepRefines, TypeCorrect, TurnInvariant, SeenInvariant, PTL
     DEF Spec, LedgerSpec, Ledger!Spec

-----------------------------------------------------------------------------
\* The handler r has locked a turn and has not given the scenario back.
Owns(r) == /\ closedTurn[r] # NoTurn
           /\ pc[r] \in Running \cup {"catch", "gaveup", "dead"}

\* An owner stays one until it reopens its scenario.
LEMMA OwnerStays ==
    ASSUME TypeOK, [Next]_vars, NEW q \in Request, Owns(q),
           turn_state'[target[q]] = "advancing"
    PROVE  Owns(q)' /\ target'[q] = target[q]
<1> USE BoundsAssumption DEF TypeOK, tables, locals, Goto, Running, Owns
<1>1. ASSUME NEW s \in Scenario, CreateScenario(s) PROVE Owns(q)'
  BY <1>1 DEF CreateScenario
<1>2. ASSUME NEW r \in Request,
             Arrive(r) \/ Connect(r) \/ WorkerAnswers(r) \/ RunnerConnects(r)
      PROVE  Owns(q)'
  BY <1>2 DEF Arrive, Connect, WorkerAnswers, RunnerConnects
<1>3. ASSUME NEW r \in Request, Lock(r) PROVE Owns(q)'
  BY <1>3 DEF Lock, Throw
<1>4. ASSUME NEW r \in Request, InsertEvent(r) \/ ReadForSnapshot(r)
      PROVE  Owns(q)'
  BY <1>4 DEF InsertEvent, ReadForSnapshot, Throw
<1>5. ASSUME NEW r \in Request, OpenNextTurn(r) \/ Revert(r) PROVE Owns(q)'
  <2>1. turn_state'[target[r]] = "open"
    BY <1>5 DEF OpenNextTurn, Revert
  <2>2. q # r
    BY <2>1
  <2> QED
    BY <1>5, <2>2 DEF OpenNextTurn, Revert, Answer, Throw
<1>6. ASSUME NEW r \in Request, ConnectFails(r) \/ RevertFails(r)
      PROVE  Owns(q)'
  BY <1>6 DEF ConnectFails, RevertFails, Answer
<1>7. ASSUME NEW r \in Request,
             NotFound(r) \/ Conflict(r) \/ DuplicateSnapshot(r) \/ Rejected(r)
      PROVE  Owns(q)'
  BY <1>7 DEF NotFound, Conflict, DuplicateSnapshot, Rejected, Throw
<1>8. CASE Crash
  BY <1>8 DEF Crash, InFlight, Connected
<1>9. CASE UNCHANGED vars
  BY <1>9 DEF vars
<1>10. UNCHANGED target
  BY DEF Next, vars, CreateScenario, Arrive, Handle, Connect, ConnectFails,
         NotFound, Conflict, Lock, WorkerAnswers, RunnerConnects, InsertEvent,
         ReadForSnapshot, OpenNextTurn, DuplicateSnapshot, Rejected, Revert,
         RevertFails, Crash
<1>11. Owns(q)'
  BY <1>1, <1>2, <1>3, <1>4, <1>5, <1>6, <1>7, <1>8, <1>9 DEF Next, Handle
<1> QED
  BY <1>10, <1>11

\* Only step 1 sets a scenario advancing.
LEMMA OnlyLockLocks ==
    ASSUME TypeOK, [Next]_vars, NEW s \in Scenario,
           turn_state'[s] = "advancing", turn_state[s] # "advancing"
    PROVE  \E r \in Request : Lock(r) /\ target[r] = s
<1>1. \/ \E r \in Request : Lock(r)
      \/ \E r \in Request :
            turn_state' = [turn_state EXCEPT ![target[r]] = "open"]
      \/ UNCHANGED turn_state
  BY DEF Next, vars, tables, CreateScenario, Arrive, Handle, Connect,
         ConnectFails, NotFound, Conflict, WorkerAnswers, RunnerConnects,
         InsertEvent, ReadForSnapshot, OpenNextTurn, DuplicateSnapshot,
         Rejected, Revert, RevertFails, Crash
<1> QED
  BY <1>1 DEF Lock, TypeOK

\* Every path of the handler that leaves a scenario locked leaves a witness.
THEOREM LockHasOwner == Spec => []AdvancingHasOwner
<1>1. Init => AdvancingHasOwner
  BY DEF Init, AdvancingHasOwner
<1>2. TypeOK /\ AdvancingHasOwner /\ [Next]_vars => AdvancingHasOwner'
  <2> SUFFICES ASSUME TypeOK, AdvancingHasOwner, [Next]_vars,
                      NEW s \in Scenario, turn_state'[s] = "advancing"
               PROVE  \E r \in Request : target'[r] = s /\ Owns(r)'
    BY DEF AdvancingHasOwner, Owns
  <2>1. CASE turn_state[s] = "advancing"
    <3>1. PICK q \in Request : target[q] = s /\ Owns(q)
      BY <2>1 DEF AdvancingHasOwner, Owns
    <3> QED
      BY <3>1, OwnerStays
  <2>2. CASE turn_state[s] # "advancing"
    <3>1. PICK q \in Request : Lock(q) /\ target[q] = s
      BY <2>2, OnlyLockLocks
    <3>2. /\ closedTurn'[q] # NoTurn
          /\ pc'[q] \in {"agents", "catch"}
          /\ target'[q] = s
      BY <3>1, BoundsAssumption DEF Lock, Throw, Goto, TypeOK
    <3> QED
      BY <3>2 DEF Owns, Running
  <2> QED
    BY <2>1, <2>2
<1> QED
  BY <1>1, <1>2, TypeCorrect, PTL DEF Spec

-----------------------------------------------------------------------------
\* Adding at most one element, and only when there is room, keeps a bound.
LEMMA BoundKept ==
    ASSUME NEW S, NEW T, NEW bound \in Nat, NEW c,
           IsFiniteSet(S), Cardinality(S) <= bound,
           T \subseteq S \/ (T = S \cup {c} /\ Cardinality(S) < bound)
    PROVE  IsFiniteSet(T) /\ Cardinality(T) <= bound
<1>1. CASE T \subseteq S
  <2>1. T \in SUBSET S
    BY <1>1
  <2>2. IsFiniteSet(T) /\ Cardinality(T) <= Cardinality(S)
    BY <2>1, FS_Subset
  <2>3. Cardinality(T) \in Nat /\ Cardinality(S) \in Nat
    BY <2>2, FS_CardinalityType
  <2> QED
    BY <2>2, <2>3
<1>2. CASE T = S \cup {c} /\ Cardinality(S) < bound
  <2>1. /\ IsFiniteSet(T)
        /\ Cardinality(T) = IF c \in S THEN Cardinality(S)
                                      ELSE Cardinality(S) + 1
    BY <1>2, FS_AddElement
  <2>2. Cardinality(S) \in Nat
    BY FS_CardinalityType
  <2> QED
    BY <1>2, <2>1, <2>2
<1> QED
  BY <1>1, <1>2

HeldByCode ==
    \A r \in Request :
        /\ Controller(r) \in held <=> pc[r] \in Connected
        /\ Runner(r) \in held <=> pc[r] = "inserting"

HeldBounded == IsFiniteSet(held) /\ Cardinality(held) <= PoolSize

\* The two connections of two requests are four different ones.
LEMMA ConnectionsDiffer ==
    ASSUME NEW q, NEW r
    PROVE  /\ Controller(q) = Controller(r) <=> q = r
           /\ Runner(q) = Runner(r) <=> q = r
           /\ Controller(q) # Runner(r)
BY DEF Controller, Runner

\* Each step keeps "held exactly while the code between connect and release".
LEMMA HeldByCodeStep ==
    ASSUME TypeOK, HeldByCode, [Next]_vars
    PROVE  HeldByCode'
<1> USE ConnectionsDiffer
        DEF TypeOK, tables, locals, Goto, HeldByCode, Connected, Running
<1>1. ASSUME NEW s \in Scenario, CreateScenario(s) PROVE HeldByCode'
  BY <1>1 DEF CreateScenario
<1>2. ASSUME NEW r \in Request, Arrive(r) \/ Lock(r) \/ WorkerAnswers(r)
      PROVE  HeldByCode'
  BY <1>2 DEF Arrive, Lock, WorkerAnswers, Throw
<1>3. ASSUME NEW r \in Request, Connect(r) PROVE HeldByCode'
  BY <1>3 DEF Connect
<1>10. ASSUME NEW r \in Request, RunnerConnects(r) PROVE HeldByCode'
  BY <1>10 DEF RunnerConnects
<1>4. ASSUME NEW r \in Request, InsertEvent(r) PROVE HeldByCode'
  BY <1>4 DEF InsertEvent, Throw
<1>5. ASSUME NEW r \in Request, ReadForSnapshot(r) PROVE HeldByCode'
  BY <1>5 DEF ReadForSnapshot
<1>6. ASSUME NEW r \in Request,
             \/ ConnectFails(r) \/ Revert(r) \/ RevertFails(r)
             \/ OpenNextTurn(r)
      PROVE  HeldByCode'
  BY <1>6 DEF ConnectFails, Revert, RevertFails, OpenNextTurn, Answer, Throw
<1>7. ASSUME NEW r \in Request,
             NotFound(r) \/ Conflict(r) \/ DuplicateSnapshot(r) \/ Rejected(r)
      PROVE  HeldByCode'
  BY <1>7 DEF NotFound, Conflict, DuplicateSnapshot, Rejected, Throw
<1>8. CASE Crash
  BY <1>8 DEF Crash, InFlight
<1>9. CASE UNCHANGED vars
  BY <1>9 DEF vars
<1> QED
  BY <1>1, <1>2, <1>3, <1>4, <1>5, <1>6, <1>7, <1>8, <1>9,
     <1>10 DEF Next, Handle

\* The connections out never exceed the pool's maximum.
LEMMA HeldBoundedStep ==
    ASSUME HeldBounded, [Next]_vars
    PROVE  HeldBounded'
<1>1. \/ held' \subseteq held
      \/ \E c : held' = held \cup {c} /\ Cardinality(held) < PoolSize
  BY DEF Next, vars, CreateScenario, Arrive, Handle, Connect, ConnectFails,
         NotFound, Conflict, Lock, WorkerAnswers, RunnerConnects, InsertEvent,
         ReadForSnapshot, OpenNextTurn, DuplicateSnapshot, Rejected, Revert,
         RevertFails, Crash, Answer, Throw, Free
<1> QED
  BY <1>1, BoundKept, BoundsAssumption DEF HeldBounded

\* A connection is out exactly while its code runs, and at most max are out.
THEOREM ConnectionsReleased == Spec => []NoConnectionLeak
<1>1. Init => HeldByCode /\ HeldBounded
  BY FS_EmptySet, BoundsAssumption
     DEF Init, HeldByCode, HeldBounded, Connected, Running
<1>2. TypeOK /\ HeldByCode /\ HeldBounded /\ [Next]_vars
         => HeldByCode' /\ HeldBounded'
  BY HeldByCodeStep, HeldBoundedStep
<1>3. HeldByCode /\ HeldBounded => NoConnectionLeak
  BY DEF HeldByCode, HeldBounded, NoConnectionLeak
<1> QED
  BY <1>1, <1>2, <1>3, TypeCorrect, PTL DEF Spec

-----------------------------------------------------------------------------
(***************************************************************************)
(* The archive keeps the run that opened the turn.  A run's events all     *)
(* carry the turn after its closedTurn; once it answers 200 it inserts no  *)
(* more, and its turn is still ahead of every snapshot and every reader.   *)
(***************************************************************************)
EventsOfRuns ==
    \A e \in events :
        /\ closedTurn[e.id[1]] # NoTurn
        /\ e.scenario = target[e.id[1]]
        /\ e.turn = closedTurn[e.id[1]] + 1

OneShot ==
    \A r \in Request :
        /\ pc[r] \in {"idle", "waiting", "locking"} => closedTurn[r] = NoTurn
        /\ reply[r] = "200" => pc[r] = "done"

Small(s, t) == Cardinality(EventsOf(s, t)) <= SnapshotLimit
Won(s, t) == {e \in EventsOf(s, t) : reply[e.id[1]] = "200"}

ReaderKeepsWon ==
    \A r \in Request : pc[r] = "opening" =>
        (Small(target[r], closedTurn[r]) =>
            Won(target[r], closedTurn[r]) \subseteq seen[r])

ArchiveInv ==
    /\ EventsOfRuns
    /\ OneShot
    /\ IsFiniteSet(events)
    /\ ReaderKeepsWon
    /\ OpeningRunArchived

\* The log's rows of a turn only grow, so what is small now was small before.
LEMMA SmallBefore ==
    ASSUME NEW s, NEW t, IsFiniteSet(events'), events \subseteq events',
           SnapshotLimit \in Nat, Small(s, t)'
    PROVE  Small(s, t)
<1>1. EventsOf(s, t) \in SUBSET EventsOf(s, t)'
  BY DEF EventsOf
<1>2. EventsOf(s, t)' \in SUBSET events'
  BY DEF EventsOf
<1>3. IsFiniteSet(EventsOf(s, t)')
  BY <1>2, FS_Subset
<1>4. /\ IsFiniteSet(EventsOf(s, t))
      /\ Cardinality(EventsOf(s, t)) <= Cardinality(EventsOf(s, t)')
  BY <1>1, <1>3, FS_Subset
<1>5. /\ Cardinality(EventsOf(s, t)) \in Nat
      /\ Cardinality(EventsOf(s, t)') \in Nat
  BY <1>3, <1>4, FS_CardinalityType
<1>6. Cardinality(EventsOf(s, t)') <= SnapshotLimit
  BY DEF Small, EventsOf
<1> QED
  BY <1>4, <1>5, <1>6 DEF Small

\* The bookkeeping parts of the invariant, step by step.
LEMMA RunsStep ==
    ASSUME TypeOK, EventsOfRuns, OneShot, IsFiniteSet(events), [Next]_vars
    PROVE  EventsOfRuns' /\ OneShot' /\ IsFiniteSet(events')
<1> USE BoundsAssumption
<1>0. \A e \in events : e.id[1] \in Request
  BY DEF TypeOK, Event, EventId
<1>1. ASSUME NEW r \in Request, Lock(r)
      PROVE  EventsOfRuns' /\ OneShot' /\ IsFiniteSet(events')
  <2>1. closedTurn[r] = NoTurn /\ reply[r] # "200"
    BY <1>1 DEF Lock, OneShot
  <2>2. EventsOfRuns'
    BY <1>0, <1>1, <2>1 DEF Lock, EventsOfRuns, TypeOK
  <2>3. OneShot'
    BY <1>1, <2>1 DEF Lock, Throw, OneShot, TypeOK, Goto
  <2> QED
    BY <1>1, <2>2, <2>3 DEF Lock
<1>2. ASSUME NEW r \in Request, InsertEvent(r)
      PROVE  EventsOfRuns' /\ OneShot' /\ IsFiniteSet(events')
  <2> DEFINE e == [scenario |-> target[r], turn |-> closedTurn[r] + 1,
                   id |-> <<r, pending[r]>>]
  <2>1. /\ events' = events \cup {e}
        /\ closedTurn[r] # NoTurn
        /\ UNCHANGED <<target, closedTurn>>
    BY <1>2 DEF InsertEvent, TypeOK, Running
  <2>2. EventsOfRuns'
    BY <2>1 DEF EventsOfRuns
  <2>3. OneShot'
    BY <1>2, <2>1 DEF InsertEvent, Throw, OneShot, TypeOK, Goto
  <2> QED
    BY <2>1, <2>2, <2>3, FS_AddElement
<1>3. ASSUME NEW r \in Request, ReadForSnapshot(r)
      PROVE  EventsOfRuns' /\ OneShot' /\ IsFiniteSet(events')
  BY <1>3 DEF ReadForSnapshot, tables, EventsOfRuns, OneShot, TypeOK, Goto
<1>4. ASSUME NEW r \in Request, OpenNextTurn(r)
      PROVE  EventsOfRuns' /\ OneShot' /\ IsFiniteSet(events')
  BY <1>4 DEF OpenNextTurn, Answer, Throw, locals, EventsOfRuns, OneShot, TypeOK,
              Goto
<1>5. CASE Quiet
  BY <1>5 DEF Quiet, EventsOfRuns, OneShot
<1> QED
  BY <1>1, <1>2, <1>3, <1>4, <1>5, LedgerSteps

\* The winners' rows of a turn: unchanged when no handler wins.
LEMMA WonShrinks ==
    ASSUME TypeOK, NEW s, NEW t, events' = events,
           \A r \in Request : reply'[r] = "200" => reply[r] = "200"
    PROVE  Won(s, t)' \subseteq Won(s, t)
BY DEF Won, EventsOf, TypeOK, Event, EventId

\* A handler about to commit or a snapshot on file misses no winner's event.
LEMMA KeepsStep ==
    ASSUME TypeOK, TurnInv, ArchiveInv, [Next]_vars
    PROVE  ReaderKeepsWon' /\ OpeningRunArchived'
<1> USE BoundsAssumption
<1>0. \A e \in events : e.id[1] \in Request
  BY DEF TypeOK, Event, EventId
<1>a. \A x \in snapshots :
         Small(x.scenario, x.turn) => Won(x.scenario, x.turn) \subseteq x.events
  BY DEF ArchiveInv, OpeningRunArchived, Small, Won
<1>b. ASSUME \A x \in snapshots' : Small(x.scenario, x.turn)' =>
                Won(x.scenario, x.turn)' \subseteq x.events
      PROVE  OpeningRunArchived'
  BY <1>b DEF OpeningRunArchived, Small, Won, EventsOf
<1>1. ASSUME NEW r \in Request, Lock(r)
      PROVE  ReaderKeepsWon' /\ OpeningRunArchived'
  <2>1. \A q \in Request : pc'[q] = "opening" => pc[q] = "opening" /\ q # r
    BY <1>1 DEF Lock, Throw, Goto, TypeOK
  <2>2. /\ UNCHANGED <<events, snapshots, target, seen>>
        /\ \A q \in Request : q # r => closedTurn'[q] = closedTurn[q]
        /\ \A q \in Request : reply'[q] = "200" => reply[q] = "200"
    BY <1>1 DEF Lock, Throw, TypeOK
  <2>3. \A s, t : Won(s, t)' \subseteq Won(s, t)
    BY <2>2, WonShrinks
  <2>4. ReaderKeepsWon'
    BY <2>1, <2>2, <2>3 DEF ArchiveInv, ReaderKeepsWon, Small, Won, EventsOf
  <2>5. OpeningRunArchived'
    BY <1>a, <1>b, <2>2, <2>3 DEF Small, EventsOf
  <2> QED
    BY <2>4, <2>5
<1>2. ASSUME NEW r \in Request, InsertEvent(r)
      PROVE  ReaderKeepsWon' /\ OpeningRunArchived'
  <2>1. /\ events \subseteq events'
        /\ IsFiniteSet(events')
        /\ UNCHANGED <<snapshots, target, closedTurn, seen>>
    BY <1>2, RunsStep DEF InsertEvent, ArchiveInv
  <2>2. /\ reply[r] # "200" /\ reply'[r] # "200"
        /\ \A q \in Request : q # r => reply'[q] = reply[q]
    BY <1>2 DEF InsertEvent, Throw, ArchiveInv, OneShot, TypeOK
  <2>3. \A s, t : Won(s, t)' = Won(s, t)
    BY <1>0, <1>2, <2>2 DEF InsertEvent, Won, EventsOf
  <2>4. \A s, t : Small(s, t)' => Small(s, t)
    BY <2>1, SmallBefore
  <2>5. \A q \in Request : pc'[q] = "opening" => pc[q] = "opening"
    BY <1>2 DEF InsertEvent, Throw, Goto, TypeOK
  <2>7. ReaderKeepsWon'
    <3> SUFFICES ASSUME NEW q \in Request, pc'[q] = "opening",
                        NEW s, NEW t, s = target[q], t = closedTurn[q],
                        Small(s, t)'
                 PROVE  Won(s, t)' \subseteq seen[q]
      BY <2>1 DEF ReaderKeepsWon, Small, Won, EventsOf
    <3>1. Small(s, t) /\ Won(s, t)' = Won(s, t) /\ pc[q] = "opening"
      BY <2>3, <2>4, <2>5
    <3> QED
      BY <3>1 DEF ArchiveInv, ReaderKeepsWon
  <2>8. OpeningRunArchived'
    BY <1>a, <1>b, <2>1, <2>3, <2>4
  <2> QED
    BY <2>7, <2>8
<1>3. ASSUME NEW r \in Request, ReadForSnapshot(r)
      PROVE  ReaderKeepsWon' /\ OpeningRunArchived'
  <2>1. UNCHANGED <<events, snapshots, target, closedTurn, reply>>
    BY <1>3 DEF ReadForSnapshot, tables
  <2>2. \A q \in Request : q # r =>
           seen'[q] = seen[q] /\ (pc'[q] = "opening" => pc[q] = "opening")
    BY <1>3 DEF ReadForSnapshot, Goto, TypeOK
  <2>3. Small(target[r], closedTurn[r]) =>
           seen'[r] = EventsOf(target[r], closedTurn[r])
    BY <1>3 DEF ReadForSnapshot, Recent, Small, TypeOK
  <2>4. ReaderKeepsWon'
    <3> SUFFICES ASSUME NEW q \in Request, pc'[q] = "opening",
                        Small(target[q], closedTurn[q])
                 PROVE  Won(target[q], closedTurn[q]) \subseteq seen'[q]
      BY <2>1 DEF ReaderKeepsWon, Small, Won, EventsOf
    <3>1. CASE q = r
      BY <2>3, <3>1 DEF Won
    <3>2. CASE q # r
      BY <2>2, <3>2 DEF ArchiveInv, ReaderKeepsWon
    <3> QED
      BY <3>1, <3>2
  <2> QED
    BY <2>1, <2>4 DEF ArchiveInv, OpeningRunArchived, EventsOf
<1>4. ASSUME NEW r \in Request, OpenNextTurn(r)
      PROVE  ReaderKeepsWon' /\ OpeningRunArchived'
  <2>0. PICK s \in Scenario, n \in Nat :
           s = target[r] /\ n = closedTurn[r]
    BY <1>4, ClosesCurrentTurn
  <2> DEFINE x == [scenario |-> s, turn |-> n, events |-> seen[r]]
  <2>1. n = current_turn[s]
    BY <1>4, <2>0, ClosesCurrentTurn
  <2>2. /\ snapshots' = snapshots \cup {x}
        /\ UNCHANGED <<events, target, closedTurn, seen>>
        /\ \A q \in Request : reply'[q] = "200" => reply[q] = "200" \/ q = r
        /\ \A q \in Request : pc'[q] = "opening" => pc[q] = "opening"
        /\ pc[r] = "opening"
    BY <1>4, <2>0 DEF OpenNextTurn, Answer, Throw, Goto, locals, TypeOK
  <2>3. \A e \in events : e.id[1] = r => e.scenario = s /\ e.turn = n + 1
    BY <2>0 DEF ArchiveInv, EventsOfRuns
  <2>4. ASSUME NEW u \in Scenario, NEW t \in Nat, u = s => t <= n
        PROVE  Won(u, t)' \subseteq Won(u, t)
    <3>1. \A e \in EventsOf(u, t) : e.id[1] # r
      BY <2>1, <2>3, <2>4 DEF EventsOf
    <3> QED
      BY <1>0, <2>2, <3>1 DEF Won, EventsOf
  <2>5. ASSUME NEW q \in Request, pc'[q] = "opening"
        PROVE  /\ closedTurn[q] \in Nat
               /\ target[q] \in Scenario
               /\ target[q] = s => closedTurn[q] <= n
    BY <2>1, <2>2, <2>5 DEF TypeOK, Running, TurnInv, NeverAhead
  <2>6. ReaderKeepsWon'
    <3> SUFFICES ASSUME NEW q \in Request, pc'[q] = "opening",
                        Small(target[q], closedTurn[q])
                 PROVE  Won(target[q], closedTurn[q])' \subseteq seen[q]
      BY <2>2 DEF ReaderKeepsWon, Small, Won, EventsOf
    <3>1. Won(target[q], closedTurn[q]) \subseteq seen[q]
      BY <2>2 DEF ArchiveInv, ReaderKeepsWon
    <3>2. Won(target[q], closedTurn[q])' \subseteq Won(target[q], closedTurn[q])
      BY <2>2, <2>4, <2>5 DEF Won, EventsOf
    <3> QED
      BY <3>1, <3>2
  <2>7. ASSUME NEW y \in snapshots', Small(y.scenario, y.turn)'
        PROVE  Won(y.scenario, y.turn)' \subseteq y.events
    <3>1. Small(y.scenario, y.turn)
      BY <2>2, <2>7 DEF Small, EventsOf
    <3>2. CASE y = x
      <4>1. Won(s, n)' \subseteq Won(s, n)
        BY <2>1, <2>4
      <4>2. Won(s, n) \subseteq seen[r]
        BY <2>0, <2>2, <3>1, <3>2 DEF ArchiveInv, ReaderKeepsWon
      <4> QED
        BY <2>0, <3>2, <4>1, <4>2
    <3>3. CASE y \in snapshots
      <4>1. y.scenario \in Scenario /\ y.turn \in Nat
        BY <3>3 DEF TypeOK, Snapshot
      <4>2. y \in SnapshotsOf(y.scenario, y.turn)
        BY <3>3 DEF SnapshotsOf
      <4>3. y.turn < current_turn[y.scenario]
        BY <4>1, <4>2 DEF TurnInv, ArchivedBehind
      <4>4. y.scenario = s => y.turn <= n
        BY <2>1, <4>1, <4>3
      <4>5. Won(y.scenario, y.turn)' \subseteq Won(y.scenario, y.turn)
        BY <2>4, <4>1, <4>4
      <4> QED
        BY <1>a, <3>1, <3>3, <4>5
    <3> QED
      BY <2>2, <2>7, <3>2, <3>3
  <2> QED
    BY <1>b, <2>6, <2>7
<1>5. ASSUME Quiet
      PROVE  ReaderKeepsWon' /\ OpeningRunArchived'
  <2>1. \A s, t : Won(s, t)' \subseteq Won(s, t)
    BY <1>5, WonShrinks DEF Quiet
  <2>2. ReaderKeepsWon'
    BY <1>5, <2>1 DEF Quiet, ArchiveInv, ReaderKeepsWon, Small, Won, EventsOf
  <2>3. OpeningRunArchived'
    BY <1>a, <1>b, <1>5, <2>1 DEF Quiet, Small, EventsOf
  <2> QED
    BY <2>2, <2>3
<1> QED
  BY <1>1, <1>2, <1>3, <1>4, <1>5, LedgerSteps

\* Up to the limit, the snapshot of a turn keeps every event of the run whose
\* 200 answer opened that turn.
THEOREM ArchiveKeepsOpeningRun == Spec => []OpeningRunArchived
<1>1. Init => ArchiveInv
  BY FS_EmptySet DEF Init, ArchiveInv, EventsOfRuns, OneShot, ReaderKeepsWon,
                     OpeningRunArchived
<1>2. TypeOK /\ TurnInv /\ ArchiveInv /\ [Next]_vars => ArchiveInv'
  BY RunsStep, KeepsStep DEF ArchiveInv
<1>3. ArchiveInv => OpeningRunArchived
  BY DEF ArchiveInv
<1> QED
  BY <1>1, <1>2, <1>3, TypeCorrect, TurnInvariant, PTL DEF Spec

-----------------------------------------------------------------------------
(***************************************************************************)
(* Whom a closed turn is announced to.  Once a handler has closed a turn   *)
(* its closedTurn is behind the counter, and no other handler can close a  *)
(* turn that is behind the counter.                                        *)
(***************************************************************************)
AnswerInv == OneShot /\ AnsweredTurnsDiffer

\* A 200 answer is the last thing a request gets, and only OpenNextTurn gives it.
LEMMA AnswerInvStep ==
    ASSUME TypeOK, TurnInv, AnswerInv, [Next]_vars, OneShot'
    PROVE  AnsweredTurnsDiffer'
<1> USE BoundsAssumption
<1>0. \A q \in Request : /\ target[q] \in Scenario
                         /\ current_turn[target[q]] \in Nat
  BY DEF TypeOK
<1>1. ASSUME NEW r \in Request, Lock(r) PROVE AnsweredTurnsDiffer'
  <2>1. /\ UNCHANGED <<current_turn, target>>
        /\ \A q \in Request : reply'[q] = "200" => reply[q] = "200" /\ q # r
        /\ \A q \in Request : q # r => closedTurn'[q] = closedTurn[q]
    BY <1>1 DEF Lock, Throw, TypeOK, AnswerInv, OneShot
  <2> QED
    BY <2>1 DEF AnswerInv, AnsweredTurnsDiffer
<1>2. ASSUME NEW r \in Request, InsertEvent(r) \/ ReadForSnapshot(r)
      PROVE  AnsweredTurnsDiffer'
  <2>1. /\ UNCHANGED <<current_turn, target, closedTurn>>
        /\ \A q \in Request : reply'[q] = "200" => reply[q] = "200"
    BY <1>2 DEF InsertEvent, ReadForSnapshot, Throw, tables, TypeOK
  <2> QED
    BY <2>1 DEF AnswerInv, AnsweredTurnsDiffer
<1>3. ASSUME NEW r \in Request, OpenNextTurn(r) PROVE AnsweredTurnsDiffer'
  <2>1. closedTurn[r] \in Nat /\ closedTurn[r] = current_turn[target[r]]
    BY <1>3, ClosesCurrentTurn
  <2>2. /\ current_turn' = [current_turn EXCEPT ![target[r]] = closedTurn[r] + 1]
        /\ UNCHANGED <<target, closedTurn>>
        /\ \A q \in Request : reply'[q] = "200" => reply[q] = "200" \/ q = r
    BY <1>3 DEF OpenNextTurn, Answer, Throw, locals, TypeOK
  <2>3. \A q \in Request : target[q] = target[r] =>
           current_turn'[target[q]] = closedTurn[r] + 1
    BY <1>0, <2>2 DEF TypeOK
  <2>4. \A q \in Request : target[q] # target[r] =>
           current_turn'[target[q]] = current_turn[target[q]]
    BY <1>0, <2>2 DEF TypeOK
  <2>5. \A q \in Request : reply[q] = "200" =>
           closedTurn[q] \in 0 .. current_turn[target[q]] - 1
    BY DEF AnswerInv, AnsweredTurnsDiffer
  <2>6. ASSUME NEW q \in Request, reply'[q] = "200"
        PROVE  closedTurn'[q] \in 0 .. current_turn'[target'[q]] - 1
    <3>1. CASE q = r
      BY <2>1, <2>2, <2>3, <3>1
    <3>2. CASE q # r
      <4>1. closedTurn[q] \in 0 .. current_turn[target[q]] - 1
        BY <2>2, <2>5, <2>6, <3>2
      <4>2. current_turn'[target[q]] >= current_turn[target[q]]
        BY <1>0, <2>1, <2>3, <2>4
      <4>3. current_turn'[target[q]] \in Nat
        BY <1>0, <2>1, <2>3, <2>4
      <4> QED
        BY <1>0, <2>2, <4>1, <4>2, <4>3
    <3> QED
      BY <3>1, <3>2
  <2>7. ASSUME NEW p \in Request, NEW q \in Request, p # q,
               reply'[p] = "200", reply'[q] = "200", target[p] = target[q]
        PROVE  closedTurn[p] # closedTurn[q]
    <3>1. CASE p = r
      BY <1>0, <2>1, <2>2, <2>5, <2>7, <3>1
    <3>2. CASE q = r
      BY <1>0, <2>1, <2>2, <2>5, <2>7, <3>2
    <3>3. CASE p # r /\ q # r
      BY <2>2, <2>7, <3>3 DEF AnswerInv, AnsweredTurnsDiffer
    <3> QED
      BY <3>1, <3>2, <3>3
  <2> QED
    BY <2>2, <2>6, <2>7 DEF AnsweredTurnsDiffer
<1>4. CASE Quiet
  BY <1>4 DEF Quiet, AnswerInv, AnsweredTurnsDiffer
<1> QED
  BY <1>1, <1>2, <1>3, <1>4, LedgerSteps

\* Whatever overlaps, fails or crashes, a 200 answer names a turn that this
\* request alone was told it closed.
THEOREM AnswersNameDifferentTurns == Spec => []AnsweredTurnsDiffer
<1>1. Init => OneShot /\ AnsweredTurnsDiffer
  BY DEF Init, OneShot, AnsweredTurnsDiffer
<1>2. Init => ArchiveInv
  BY FS_EmptySet DEF Init, ArchiveInv, EventsOfRuns, OneShot, ReaderKeepsWon,
                     OpeningRunArchived
<1>3. TypeOK /\ TurnInv /\ ArchiveInv /\ AnsweredTurnsDiffer /\ [Next]_vars
         => ArchiveInv' /\ AnsweredTurnsDiffer'
  BY RunsStep, KeepsStep, AnswerInvStep DEF ArchiveInv, AnswerInv
<1> QED
  BY <1>1, <1>2, <1>3, TypeCorrect, TurnInvariant, PTL DEF Spec

-----------------------------------------------------------------------------
(***************************************************************************)
(* What it takes for advances not to serialize, and for the pool to wait   *)
(* for itself.                                                             *)
(***************************************************************************)

\* A request of the scenario was answered with an error.
ErrorAnswered(s) ==
    \E q \in Request : target[q] = s /\ pc[q] = "done" /\ reply[q] # "200"

\* At most one handler of the scenario runs, and the row says that it does.
RunsAlone(s) ==
    \A r \in Request : target[r] = s /\ pc[r] \in Running =>
        /\ turn_state[s] = "advancing"
        /\ \A q \in Request : target[q] = s /\ pc[q] \in Running => q = r

OverlapInv ==
    /\ \A s \in Scenario : ErrorAnswered(s) \/ RunsAlone(s)
    /\ \A r \in Request : pc[r] = "catch" => reply[r] # "200"

\* An error that was answered stays answered.
LEMMA ErrorsStay ==
    ASSUME TypeOK, [Next]_vars, NEW s \in Scenario, ErrorAnswered(s)
    PROVE  ErrorAnswered(s)'
<1> PICK q \in Request : target[q] = s /\ pc[q] = "done" /\ reply[q] # "200"
  BY DEF ErrorAnswered
<1> SUFFICES target'[q] = target[q] /\ pc'[q] = "done" /\ reply'[q] = reply[q]
  BY DEF ErrorAnswered
<1> USE DEF TypeOK, tables, locals, Goto, Running
<1>1. ASSUME NEW x \in Scenario, CreateScenario(x)
      PROVE  target'[q] = target[q] /\ pc'[q] = "done" /\ reply'[q] = reply[q]
  BY <1>1 DEF CreateScenario
<1>2. ASSUME NEW r \in Request,
             Arrive(r) \/ Connect(r) \/ WorkerAnswers(r) \/ RunnerConnects(r)
      PROVE  target'[q] = target[q] /\ pc'[q] = "done" /\ reply'[q] = reply[q]
  BY <1>2 DEF Arrive, Connect, WorkerAnswers, RunnerConnects
<1>3. ASSUME NEW r \in Request,
             Lock(r) \/ InsertEvent(r) \/ ReadForSnapshot(r) \/ OpenNextTurn(r)
      PROVE  target'[q] = target[q] /\ pc'[q] = "done" /\ reply'[q] = reply[q]
  BY <1>3 DEF Lock, InsertEvent, ReadForSnapshot, OpenNextTurn, Throw, Answer
<1>4. ASSUME NEW r \in Request, ConnectFails(r) \/ Revert(r) \/ RevertFails(r)
      PROVE  target'[q] = target[q] /\ pc'[q] = "done" /\ reply'[q] = reply[q]
  BY <1>4 DEF ConnectFails, Revert, RevertFails, Answer
<1>5. ASSUME NEW r \in Request,
             NotFound(r) \/ Conflict(r) \/ DuplicateSnapshot(r) \/ Rejected(r)
      PROVE  target'[q] = target[q] /\ pc'[q] = "done" /\ reply'[q] = reply[q]
  BY <1>5 DEF NotFound, Conflict, DuplicateSnapshot, Rejected, Throw
<1>6. CASE Crash
  BY <1>6 DEF Crash, InFlight, Connected
<1>7. CASE UNCHANGED vars
  BY <1>7 DEF vars
<1> QED
  BY <1>1, <1>2, <1>3, <1>4, <1>5, <1>6, <1>7 DEF Next, Handle

\* A step after which nobody new runs in the scenario, and which leaves its state
\* alone, lets nobody run beside another.
LEMMA NobodyBegins ==
    ASSUME NEW s \in Scenario, RunsAlone(s), UNCHANGED target,
           turn_state'[s] = turn_state[s],
           \A r \in Request :
              target[r] = s /\ pc'[r] \in Running => pc[r] \in Running
    PROVE  RunsAlone(s)'
BY DEF RunsAlone

\* A handler that locks is alone; the one that opens the next turn was, and leaves
\* nobody behind; and a scenario is reopened only by a request that is then
\* answered with an error.
LEMMA OverlapStep ==
    ASSUME TypeOK, OverlapInv, [Next]_vars
    PROVE  OverlapInv'
<1> USE DEF TypeOK, tables, locals, Goto
<1>1. ASSUME NEW s \in Scenario, RunsAlone(s)
      PROVE  ErrorAnswered(s)' \/ RunsAlone(s)'
  <2>1. ASSUME NEW x \in Scenario, CreateScenario(x) PROVE RunsAlone(s)'
    BY <1>1, <2>1, NobodyBegins DEF CreateScenario
  <2>2. ASSUME NEW r \in Request,
               Arrive(r) \/ Connect(r) \/ WorkerAnswers(r) \/ RunnerConnects(r)
        PROVE  RunsAlone(s)'
    BY <1>1, <2>2, NobodyBegins
       DEF Arrive, Connect, WorkerAnswers, RunnerConnects, Running
  <2>3. ASSUME NEW r \in Request, InsertEvent(r) \/ ReadForSnapshot(r)
        PROVE  RunsAlone(s)'
    BY <1>1, <2>3, NobodyBegins DEF InsertEvent, ReadForSnapshot, Throw, Running
  <2>4. ASSUME NEW r \in Request, ConnectFails(r) \/ RevertFails(r)
        PROVE  RunsAlone(s)'
    BY <1>1, <2>4, NobodyBegins DEF ConnectFails, RevertFails, Answer, Running
  <2>5. ASSUME NEW r \in Request,
               NotFound(r) \/ Conflict(r) \/ DuplicateSnapshot(r) \/ Rejected(r)
        PROVE  RunsAlone(s)'
    BY <1>1, <2>5, NobodyBegins
       DEF NotFound, Conflict, DuplicateSnapshot, Rejected, Throw, Running
  <2>6. CASE Crash
    BY <1>1, <2>6, NobodyBegins DEF Crash, Running
  <2>7. CASE UNCHANGED vars
    BY <1>1, <2>7, NobodyBegins DEF vars
  <2>8. ASSUME NEW r \in Request, Lock(r) PROVE RunsAlone(s)'
    <3>1. CASE target[r] = s
      <4>1. \A q \in Request : target[q] = s => pc[q] \notin Running
        BY <1>1, <2>8, <3>1 DEF Lock, RunsAlone
      <4>2. UNCHANGED target /\ turn_state'[s] = "advancing"
            /\ \A q \in Request \ {r} : pc'[q] = pc[q]
        BY <2>8, <3>1 DEF Lock, Throw
      <4> QED
        BY <4>1, <4>2 DEF RunsAlone
    <3>2. CASE target[r] # s
      <4>1. UNCHANGED target /\ turn_state'[s] = turn_state[s]
            /\ \A q \in Request \ {r} : pc'[q] = pc[q]
        BY <2>8, <3>2 DEF Lock, Throw
      <4> QED
        BY <1>1, <3>2, <4>1, NobodyBegins
    <3> QED
      BY <3>1, <3>2
  <2>9. ASSUME NEW r \in Request, OpenNextTurn(r) PROVE RunsAlone(s)'
    <3>1. /\ UNCHANGED target /\ pc[r] \in Running /\ pc'[r] \in {"done", "catch"}
          /\ \A q \in Request \ {r} : pc'[q] = pc[q]
      BY <2>9 DEF OpenNextTurn, Answer, Throw, Running
    <3>2. CASE target[r] = s
      <4>1. \A q \in Request : target[q] = s => pc'[q] \notin Running
        BY <1>1, <3>1, <3>2 DEF RunsAlone, Running
      <4> QED
        BY <3>1, <4>1 DEF RunsAlone
    <3>3. CASE target[r] # s
      <4>1. turn_state'[s] = turn_state[s]
        BY <2>9, <3>3 DEF OpenNextTurn
      <4> QED
        BY <1>1, <3>1, <3>3, <4>1, NobodyBegins
    <3> QED
      BY <3>2, <3>3
  <2>10. ASSUME NEW r \in Request, Revert(r) PROVE ErrorAnswered(s)' \/ RunsAlone(s)'
    <3>1. /\ UNCHANGED target /\ pc[r] = "catch" /\ pc'[r] = "done"
          /\ reply'[r] = reply[r] /\ reply[r] # "200"
          /\ \A q \in Request \ {r} : pc'[q] = pc[q]
      BY <2>10 DEF Revert, Answer, OverlapInv
    <3>2. CASE target[r] = s
      BY <3>1, <3>2 DEF ErrorAnswered
    <3>3. CASE target[r] # s
      <4>1. turn_state'[s] = turn_state[s]
        BY <2>10, <3>3 DEF Revert
      <4> QED
        BY <1>1, <3>1, <3>3, <4>1, NobodyBegins
    <3> QED
      BY <3>2, <3>3
  <2> QED
    BY <2>1, <2>2, <2>3, <2>4, <2>5, <2>6, <2>7, <2>8, <2>9, <2>10 DEF Next, Handle
<1>2. ASSUME NEW q \in Request, pc'[q] = "catch" PROVE reply'[q] # "200"
  <2> USE <1>2 DEF OverlapInv
  <2>1. ASSUME NEW r \in Request,
               \/ Lock(r) \/ InsertEvent(r) \/ ReadForSnapshot(r) \/ OpenNextTurn(r)
               \/ NotFound(r) \/ Conflict(r) \/ DuplicateSnapshot(r) \/ Rejected(r)
        PROVE  reply'[q] # "200"
    BY <2>1 DEF Lock, InsertEvent, ReadForSnapshot, OpenNextTurn, NotFound,
                Conflict, DuplicateSnapshot, Rejected, Throw, Answer
  <2>2. ASSUME NEW r \in Request,
               Arrive(r) \/ Connect(r) \/ WorkerAnswers(r) \/ RunnerConnects(r)
        PROVE  reply'[q] # "200"
    BY <2>2 DEF Arrive, Connect, WorkerAnswers, RunnerConnects
  <2>3. ASSUME NEW r \in Request, ConnectFails(r) \/ Revert(r) \/ RevertFails(r)
        PROVE  reply'[q] # "200"
    BY <2>3 DEF ConnectFails, Revert, RevertFails, Answer
  <2>4. CASE Crash
    BY <2>4 DEF Crash
  <2>5. ASSUME NEW x \in Scenario, CreateScenario(x) PROVE reply'[q] # "200"
    BY <2>5 DEF CreateScenario
  <2>6. CASE UNCHANGED vars
    BY <2>6 DEF vars
  <2> QED
    BY <2>1, <2>2, <2>3, <2>4, <2>5, <2>6 DEF Next, Handle
<1> QED
  BY <1>1, <1>2, ErrorsStay DEF OverlapInv

\* turn-controller.ts:185-196: two advances of a scenario run at once only after a
\* third one was answered with an error, whose catch block may have reopened the
\* scenario.  Without errors advances do serialize.
THEOREM OverlapsNeedAnError ==
    Spec => [](\A q, r \in Request :
                  q # r /\ target[q] = target[r] /\ {pc[q], pc[r]} \subseteq Running
                     => ErrorAnswered(target[r]))
<1>1. Init => OverlapInv
  BY DEF Init, OverlapInv, RunsAlone, Running
<1>2. TypeOK /\ OverlapInv =>
         \A q, r \in Request :
            q # r /\ target[q] = target[r] /\ {pc[q], pc[r]} \subseteq Running
               => ErrorAnswered(target[r])
  BY DEF TypeOK, OverlapInv, RunsAlone
<1>3. TypeOK /\ OverlapInv /\ [Next]_vars => OverlapInv'
  BY OverlapStep
<1> QED
  BY <1>1, <1>2, <1>3, TypeCorrect, PTL DEF Spec

\* The deadlock of the nested check-out: no connection is free, and everybody who
\* holds one waits for a second.
PoolDeadlocked ==
    /\ ~Free
    /\ \A r \in Request : pc[r] \in Connected => pc[r] = "wantconn"

\* Handlers that hold one connection and wait for a second one.
Waiters == {r \in Request : pc[r] = "wantconn"}

\* There are as many of them as there are connections they hold.
LEMMA WaitersHoldOneEach ==
    ASSUME TypeOK, HeldByCode, HeldBounded
    PROVE  LET theirs == {Controller(r) : r \in Waiters}
           IN  /\ theirs \in SUBSET held
               /\ IsFiniteSet(Waiters)
               /\ Cardinality(Waiters) = Cardinality(theirs)
<1> DEFINE theirs == {Controller(r) : r \in Waiters}
           who == [c \in theirs |-> c[1]]
<1>1. \A r \in Waiters : Controller(r) \in held
  BY DEF HeldByCode, Waiters, Connected, Running
<1>2. theirs \in SUBSET held
  BY <1>1
<1>3. IsFiniteSet(theirs)
  BY <1>2, FS_Subset DEF HeldBounded
<1>4. who \in Bijection(theirs, Waiters)
  <2>1. \A r : Controller(r)[1] = r
    BY DEF Controller
  <2>2. \A c \in theirs : who[c] \in Waiters /\ c = Controller(who[c])
    BY <2>1
  <2>3. \A r \in Waiters : Controller(r) \in theirs /\ who[Controller(r)] = r
    BY <2>1
  <2>4. who \in [theirs -> Waiters]
    BY <2>2
  <2> HIDE DEF who, theirs
  <2> QED
    BY <2>2, <2>3, <2>4 DEF Bijection, Injection, Surjection, IsInjective
<1> HIDE DEF theirs, who
<1>5. IsFiniteSet(Waiters) /\ Cardinality(Waiters) = Cardinality(theirs)
  BY <1>3, <1>4, FS_Bijection DEF ExistsBijection
<1> QED
  BY <1>2, <1>5 DEF theirs

\* agent-runtime.ts:79, db.ts:6: the pool deadlocks exactly when as many handlers
\* as it has connections have come to their second check-out: fewer waiting ones
\* leave a connection free or in the hands of somebody who goes on and returns it.
THEOREM DeadlockNeedsFullPool ==
    Spec => [](PoolDeadlocked <=> Cardinality(Waiters) = PoolSize)
<1> DEFINE theirs == {Controller(r) : r \in Waiters}
<1>1. TypeOK /\ HeldByCode /\ HeldBounded /\ PoolDeadlocked
         => Cardinality(Waiters) = PoolSize
  <2> SUFFICES ASSUME TypeOK, HeldByCode, HeldBounded, PoolDeadlocked
               PROVE  Cardinality(Waiters) = PoolSize
    OBVIOUS
  <2>1. held = theirs
    <3>1. \A c \in held : c \in theirs
      <4> SUFFICES ASSUME NEW c \in held PROVE c \in theirs
        OBVIOUS
      <4>1. PICK r \in Request, user \in {"controller", "runner"} : c = <<r, user>>
        BY DEF TypeOK
      <4>2. pc[r] # "inserting"
        BY DEF PoolDeadlocked, Connected, Running
      <4>3. c = Controller(r) /\ r \in Waiters
        BY <4>1, <4>2
           DEF HeldByCode, PoolDeadlocked, Controller, Runner, Waiters
      <4> QED
        BY <4>3
    <3>2. theirs \in SUBSET held
      BY WaitersHoldOneEach
    <3> QED
      BY <3>1, <3>2
  <2>2. Cardinality(Waiters) = Cardinality(held)
    BY <2>1, WaitersHoldOneEach
  <2>3. Cardinality(held) \in Nat /\ Cardinality(held) <= PoolSize
    BY FS_CardinalityType DEF HeldBounded
  <2>4. ~(Cardinality(held) < PoolSize)
    BY DEF PoolDeadlocked, Free
  <2> QED
    BY <2>2, <2>3, <2>4, BoundsAssumption
<1>2. TypeOK /\ HeldByCode /\ HeldBounded /\ Cardinality(Waiters) = PoolSize
         => PoolDeadlocked
  <2> SUFFICES ASSUME TypeOK, HeldByCode, HeldBounded,
                      Cardinality(Waiters) = PoolSize
               PROVE  PoolDeadlocked
    OBVIOUS
  <2>1. theirs \in SUBSET held /\ Cardinality(theirs) = PoolSize
    BY WaitersHoldOneEach
  <2>2. /\ Cardinality(theirs) <= Cardinality(held)
        /\ Cardinality(held) = Cardinality(theirs) => held = theirs
    BY <2>1, FS_Subset DEF HeldBounded
  <2>3. Cardinality(held) \in Nat /\ Cardinality(held) <= PoolSize
    BY FS_CardinalityType DEF HeldBounded
  <2>4. Cardinality(held) = PoolSize
    BY <2>1, <2>2, <2>3, BoundsAssumption
  <2>5. held = theirs
    BY <2>1, <2>2, <2>4
  <2>6. ASSUME NEW r \in Request, pc[r] \in Connected PROVE pc[r] = "wantconn"
    <3>1. Controller(r) \in theirs
      BY <2>5, <2>6 DEF HeldByCode
    <3>2. PICK q \in Waiters : Controller(r) = Controller(q)
      BY <3>1
    <3> QED
      BY <3>2, ConnectionsDiffer DEF Waiters
  <2>7. ~Free
    BY <2>3, <2>4 DEF Free
  <2> QED
    BY <2>6, <2>7 DEF PoolDeadlocked
<1>3. Init => HeldByCode /\ HeldBounded
  BY FS_EmptySet, BoundsAssumption
     DEF Init, HeldByCode, HeldBounded, Connected, Running
<1>4. TypeOK /\ HeldByCode /\ HeldBounded /\ [Next]_vars
         => HeldByCode' /\ HeldBounded'
  BY HeldByCodeStep, HeldBoundedStep
<1> QED
  BY <1>1, <1>2, <1>3, <1>4, TypeCorrect, PTL DEF Spec

\* pool.connect has no timeout: in the deadlock no handler ever takes a step,
\* more requests may arrive and wait too, and only a crash ends it.
THEOREM OnlyCrashEndsDeadlock ==
    Spec => [][PoolDeadlocked =>
                 /\ \A r \in Request : ~Handle(r)
                 /\ PoolDeadlocked' \/ Crash]_vars
<1>1. TypeOK /\ PoolDeadlocked => \A r \in Request : ~Handle(r)
  <2> SUFFICES ASSUME TypeOK, PoolDeadlocked, NEW r \in Request PROVE ~Handle(r)
    OBVIOUS
  <2>1. ~Free /\ (pc[r] \in Connected => pc[r] = "wantconn")
    BY DEF PoolDeadlocked
  <2>2. ~Connect(r) /\ ~ConnectFails(r) /\ ~RunnerConnects(r) /\ ~Rejected(r)
    BY <2>1 DEF Connect, ConnectFails, RunnerConnects, Rejected,
                Connected, Running
  <2>3. /\ ~NotFound(r) /\ ~Conflict(r) /\ ~Lock(r)
        /\ ~Revert(r) /\ ~RevertFails(r)
    BY <2>1 DEF NotFound, Conflict, Lock, Revert, RevertFails,
                Connected, Running
  <2>4. /\ ~WorkerAnswers(r) /\ ~InsertEvent(r)
        /\ ~ReadForSnapshot(r) /\ ~OpenNextTurn(r) /\ ~DuplicateSnapshot(r)
    BY <2>1 DEF WorkerAnswers, InsertEvent, ReadForSnapshot, OpenNextTurn,
                DuplicateSnapshot, Connected, Running
  <2> QED
    BY <2>2, <2>3, <2>4 DEF Handle
<1>2. TypeOK /\ PoolDeadlocked /\ [Next]_vars => PoolDeadlocked' \/ Crash
  <2> SUFFICES ASSUME TypeOK, PoolDeadlocked, [Next]_vars, ~Crash
               PROVE  PoolDeadlocked'
    OBVIOUS
  <2>1. ASSUME NEW s \in Scenario, CreateScenario(s) PROVE PoolDeadlocked'
    BY <2>1 DEF CreateScenario, PoolDeadlocked
  <2>2. ASSUME NEW r \in Request, Arrive(r) PROVE PoolDeadlocked'
    BY <2>2 DEF Arrive, Goto, PoolDeadlocked, Free, TypeOK, Connected, Running
  <2>3. CASE UNCHANGED vars
    BY <2>3 DEF vars, PoolDeadlocked, Free
  <2> QED
    BY <1>1, <2>1, <2>2, <2>3 DEF Next
<1> QED
  BY <1>1, <1>2, TypeCorrect, PTL DEF Spec

\* A pool with a connection more than there are requests never deadlocks, and
\* when it is used up somebody is inserting, with both connections in hand.
THEOREM SpareConnectionSuffices ==
    ASSUME IsFiniteSet(Request), Cardinality(Request) < PoolSize
    PROVE  Spec => [](~PoolDeadlocked
                      /\ (~Free => \E r \in Request : pc[r] = "inserting"))
<1>1. TypeOK /\ HeldByCode /\ HeldBounded /\ ~Free
         => \E r \in Request : pc[r] = "inserting"
  <2> SUFFICES ASSUME TypeOK, HeldByCode, HeldBounded, ~Free,
                      \A r \in Request : pc[r] # "inserting"
               PROVE  FALSE
    OBVIOUS
  <2> DEFINE all == {Controller(r) : r \in Request}
             of == [r \in Request |-> Controller(r)]
  <2>1. of \in Bijection(Request, all)
    <3>1. \A q, r \in Request : of[q] = of[r] => q = r
      BY ConnectionsDiffer
    <3>2. of \in [Request -> all] /\ \A c \in all : \E r \in Request : of[r] = c
      OBVIOUS
    <3> HIDE DEF of, all
    <3> QED
      BY <3>1, <3>2 DEF Bijection, Injection, Surjection, IsInjective
  <2>2. held \in SUBSET all
    <3> SUFFICES ASSUME NEW c \in held PROVE c \in all
      OBVIOUS
    <3>1. PICK r \in Request, user \in {"controller", "runner"} : c = <<r, user>>
      BY DEF TypeOK
    <3>2. c = Controller(r)
      BY <3>1 DEF HeldByCode, Controller, Runner
    <3> QED
      BY <3>2
  <2> HIDE DEF of, all
  <2>3. IsFiniteSet(all) /\ Cardinality(all) = Cardinality(Request)
    BY <2>1, FS_Bijection DEF ExistsBijection
  <2>4. Cardinality(held) <= Cardinality(Request)
    BY <2>2, <2>3, FS_Subset
  <2>5. Cardinality(held) \in Nat /\ Cardinality(Request) \in Nat
    BY FS_CardinalityType DEF HeldBounded
  <2> QED
    BY <2>4, <2>5, BoundsAssumption DEF Free
<1>2. TypeOK /\ HeldByCode /\ HeldBounded => ~PoolDeadlocked
  BY <1>1 DEF PoolDeadlocked, Connected, Running
<1>3. Init => HeldByCode /\ HeldBounded
  BY FS_EmptySet, BoundsAssumption
     DEF Init, HeldByCode, HeldBounded, Connected, Running
<1>4. TypeOK /\ HeldByCode /\ HeldBounded /\ [Next]_vars
         => HeldByCode' /\ HeldBounded'
  BY HeldByCodeStep, HeldBoundedStep
<1> QED
  BY <1>1, <1>2, <1>3, <1>4, TypeCorrect, PTL DEF Spec

=============================================================================
