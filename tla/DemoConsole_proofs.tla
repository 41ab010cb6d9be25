------------------------- MODULE DemoConsole_proofs -------------------------
(***************************************************************************)
(* Machine-checked theorems about DemoConsole, for every number of         *)
(* requests, polls under way and rows a list may have.                     *)
(***************************************************************************)
EXTENDS DemoConsole, TurnController_proofs

\* The console only clicks and reads: whatever it does is a step of the turn
\* controller, or none, so all that is proved of the controller holds behind it.
LEMMA ConsoleSteps == [ConsoleNext]_consoleVars => [Next]_vars
<1>1. Click => Next
  BY DEF Click, Next
<1> QED
  BY <1>1 DEF ConsoleNext, ControlPlane, Settle, Tick, Serve, Deliver, Draw,
              FetchLost, consoleVars

\* Demo.tsx drives the control plane of TurnController, and nothing else.
THEOREM ConsoleRunsController == ConsoleSpec => Spec
<1>1. ConsoleInit => Init
  BY DEF ConsoleInit
<1> QED
  BY <1>1, ConsoleSteps, PTL DEF ConsoleSpec, Spec

-----------------------------------------------------------------------------
(***************************************************************************)
(* Why an answered run stays on the screen: the handler of the request the *)
(* console was told of is done, so its run inserts nothing any more; and   *)
(* the polls of the present generation were all asked for after that, for  *)
(* the answer began a new one.  What they bring is all of the run, or as   *)
(* many rows as a list may have.                                           *)
(***************************************************************************)
Whole(r, list) ==
    RunOf(r, Rows) \subseteq list.rows \/ Cardinality(list.rows) = ListLimit

ConsoleInv ==
    /\ ConsoleTypeOK
    /\ told # Nobody => pc[told] = "done"
    /\ screen.rows \subseteq Rows
    /\ \A list \in answers : list.rows \subseteq Rows
    /\ told # Nobody =>
          \A list \in answers : list.by = poll => Whole(told, list)

\* A list of the database's is part of its rows, all of them or as many as fit.
LEMMA OldestOf ==
    ASSUME NEW found, NEW kept \in Oldest(found)
    PROVE  kept \subseteq found /\ (kept = found \/ Cardinality(kept) = ListLimit)
BY DEF Oldest

\* The events of a scenario's runs are never taken back, and those of a handler
\* that is done are complete.
LEMMA RowsGrow ==
    ASSUME TypeOK, [Next]_vars
    PROVE  /\ Rows \subseteq Rows'
           /\ \A r \in Request : pc[r] = "done" =>
                 pc'[r] = "done" /\ RunOf(r, Rows)' = RunOf(r, Rows)
<1> USE DEF TypeOK, tables, locals, Goto, Rows, RunOf
<1>1. ASSUME NEW r \in Request, InsertEvent(r)
      PROVE  /\ Rows \subseteq Rows'
             /\ \A q \in Request : pc[q] = "done" =>
                   pc'[q] = "done" /\ RunOf(q, Rows)' = RunOf(q, Rows)
  <2>1. PICK e : e.id[1] = r /\ events' = events \cup {e}
    BY <1>1 DEF InsertEvent
  <2>2. pc[r] = "inserting" /\ \A q \in Request : q # r => pc'[q] = pc[q]
    BY <1>1 DEF InsertEvent, Throw
  <2> QED
    BY <2>1, <2>2
<1>2. ASSUME events' = events,
             \A q \in Request : pc[q] = "done" => pc'[q] = "done"
      PROVE  /\ Rows \subseteq Rows'
             /\ \A q \in Request : pc[q] = "done" =>
                   pc'[q] = "done" /\ RunOf(q, Rows)' = RunOf(q, Rows)
  BY <1>2
<1>3. ASSUME NEW r \in Request,
             \/ Arrive(r) \/ Connect(r) \/ ConnectFails(r) \/ NotFound(r)
             \/ Conflict(r) \/ Lock(r) \/ WorkerAnswers(r) \/ RunnerConnects(r)
      PROVE  events' = events /\ \A q \in Request : pc[q] = "done" => pc'[q] = "done"
  BY <1>3 DEF Arrive, Connect, ConnectFails, NotFound, Conflict, Lock,
     WorkerAnswers, RunnerConnects, Answer, Throw
<1>4. ASSUME NEW r \in Request,
             \/ ReadForSnapshot(r) \/ OpenNextTurn(r) \/ DuplicateSnapshot(r)
             \/ Rejected(r) \/ Revert(r) \/ RevertFails(r)
      PROVE  events' = events /\ \A q \in Request : pc[q] = "done" => pc'[q] = "done"
  BY <1>4 DEF ReadForSnapshot, OpenNextTurn, DuplicateSnapshot, Rejected, Revert,
     RevertFails, Answer, Throw, Running
<1>5. ASSUME \/ \E s \in Scenario : CreateScenario(s)
             \/ Crash \/ UNCHANGED vars
      PROVE  events' = events /\ \A q \in Request : pc[q] = "done" => pc'[q] = "done"
  BY <1>5 DEF CreateScenario, Crash, vars, InFlight, Connected, Running
<1> QED
  BY <1>1, <1>2, <1>3, <1>4, <1>5 DEF Next, Handle

\* A step of the control plane behind a console that does nothing.
LEMMA BehindConsole ==
    ASSUME TypeOK, TypeOK', ConsoleInv, [Next]_vars, UNCHANGED console
    PROVE  ConsoleInv'
<1>1. /\ posting' = posting /\ told' = told /\ poll' = poll /\ asked' = asked
      /\ answers' = answers /\ screen' = screen
  BY DEF console
<1>2. Rows \subseteq Rows'
  BY RowsGrow
<1>3. told # Nobody => told \in Request /\ pc[told] = "done"
  BY DEF ConsoleInv, ConsoleTypeOK
<1>4. told # Nobody => pc'[told] = "done" /\ RunOf(told, Rows)' = RunOf(told, Rows)
  BY <1>1, <1>3, RowsGrow
<1>5. ConsoleTypeOK'
  BY <1>1 DEF ConsoleInv, ConsoleTypeOK, List
<1> QED
  BY <1>1, <1>2, <1>4, <1>5 DEF ConsoleInv, Whole

\* A new generation: no list of it is on its way yet.
LEMMA NewGeneration ==
    ASSUME ConsoleInv, TypeOK, poll' = poll + 1, UNCHANGED <<asked, answers, screen>>,
           events' = events, posting' \in Request \cup {Nobody},
           told' \in Request \cup {Nobody}, told' # Nobody => pc'[told'] = "done"
    PROVE  ConsoleInv'
<1>1. poll \in Nat /\ poll' \in Nat /\ Rows' = Rows
  BY DEF ConsoleInv, ConsoleTypeOK, Rows
<1>2. 0 .. poll \subseteq 0 .. poll'
  BY <1>1
<1>3. \A list \in answers : list \in List /\ list.by # poll'
  BY <1>1 DEF ConsoleInv, ConsoleTypeOK, List
<1>4. \A list \in List : list \in List'
  BY <1>2 DEF List
<1>5. ConsoleTypeOK'
  BY <1>1, <1>2, <1>3, <1>4 DEF ConsoleInv, ConsoleTypeOK
<1> QED
  BY <1>1, <1>3, <1>5 DEF ConsoleInv, Whole

\* Every step of console and controller keeps the invariant.
LEMMA ConsoleStep ==
    ASSUME TypeOK, TypeOK', ConsoleInv, [ConsoleNext]_consoleVars
    PROVE  ConsoleInv'
<1>0. [Next]_vars
  BY ConsoleSteps
<1>1. CASE ControlPlane
  BY <1>0, <1>1, BehindConsole DEF ControlPlane
<1>2. CASE UNCHANGED consoleVars
  BY <1>0, <1>2, BehindConsole DEF consoleVars
<1>3. CASE Click
  <2>1. PICK r \in Request : Arrive(r) /\ posting' = r
    BY <1>3 DEF Click
  <2>2. /\ poll' = poll + 1 /\ told' = told
        /\ UNCHANGED <<asked, answers, screen>> /\ events' = events
    BY <1>3, <2>1 DEF Click, Arrive, tables
  <2>3. told # Nobody => told \in Request /\ pc[told] = "done"
    BY DEF ConsoleInv, ConsoleTypeOK
  <2>4. told # Nobody => pc'[told] = "done"
    BY <1>0, <2>3, RowsGrow
  <2>5. told' \in Request \cup {Nobody}
    BY <2>2 DEF ConsoleInv, ConsoleTypeOK
  <2> QED
    BY <2>1, <2>2, <2>4, <2>5, NewGeneration
<1>4. CASE Settle
  <2>1. /\ poll' = poll + 1 /\ posting' = Nobody
        /\ UNCHANGED <<asked, answers, screen>>
        /\ events' = events /\ pc' = pc
        /\ \/ told' = told
           \/ told' = posting /\ pc[posting] = "done"
    BY <1>4 DEF Settle, vars, tables
  <2>2. told' \in Request \cup {Nobody} /\ (told' # Nobody => pc'[told'] = "done")
    BY <2>1 DEF ConsoleInv, ConsoleTypeOK
  <2> QED
    BY <2>1, <2>2, NewGeneration
<1>5. CASE Tick
  <2>1. /\ UNCHANGED <<posting, told, poll, answers, screen>>
        /\ events' = events /\ pc' = pc /\ asked' \subseteq asked \cup {poll}
    BY <1>5 DEF Tick, Asks, vars, tables
  <2>2. asked' \subseteq 0 .. poll'
    BY <2>1 DEF ConsoleInv, ConsoleTypeOK
  <2>3. ConsoleTypeOK'
    BY <2>1, <2>2 DEF ConsoleInv, ConsoleTypeOK, List
  <2> QED
    BY <2>1, <2>3 DEF ConsoleInv, Whole, Rows
<1>6. CASE Serve
  <2>1. PICK g \in asked, kept \in Oldest(Rows) :
           /\ asked' = asked \ {g}
           /\ answers' = answers \cup {[by |-> g, rows |-> kept]}
    BY <1>6 DEF Serve
  <2>2. UNCHANGED <<posting, told, poll, screen>> /\ events' = events /\ pc' = pc
    BY <1>6 DEF Serve, vars, tables
  <2>3. kept \subseteq Rows /\ (kept = Rows \/ Cardinality(kept) = ListLimit)
    BY OldestOf
  <2>4. Rows \subseteq Event
    BY DEF TypeOK, Rows
  <2>5. [by |-> g, rows |-> kept] \in List
    BY <2>3, <2>4 DEF ConsoleInv, ConsoleTypeOK, List
  <2>6. ConsoleTypeOK'
    BY <2>1, <2>2, <2>5 DEF ConsoleInv, ConsoleTypeOK, List
  <2>7. Rows' = Rows
    BY <2>2 DEF Rows
  <2>8. \A list \in answers' : list.rows \subseteq Rows
    BY <2>1, <2>3 DEF ConsoleInv
  <2>9. \A r : Whole(r, [by |-> g, rows |-> kept])
    BY <2>3 DEF Whole, RunOf
  <2>10. told # Nobody => \A list \in answers' : list.by = poll => Whole(told, list)
    BY <2>1, <2>9 DEF ConsoleInv
  <2> QED
    BY <2>2, <2>6, <2>7, <2>8, <2>10 DEF ConsoleInv, Whole
<1>7. CASE Deliver
  <2>1. PICK list \in answers : Draw(list)
    BY <1>7 DEF Deliver
  <2>2. /\ UNCHANGED <<posting, told, poll, asked>> /\ events' = events /\ pc' = pc
        /\ answers' = answers \ {list} /\ screen' \in {list, screen}
    BY <2>1 DEF Draw, vars, tables
  <2>3. ConsoleTypeOK'
    <3>1. screen' \in List /\ screen'.rows \subseteq Rows
      BY <2>2 DEF ConsoleInv, ConsoleTypeOK
    <3> QED
      BY <2>2, <3>1 DEF ConsoleInv, ConsoleTypeOK, List, Rows
  <2> QED
    BY <2>2, <2>3 DEF ConsoleInv, Whole, Rows
<1>8. CASE FetchLost
  <2>1. /\ UNCHANGED <<posting, told, poll, screen>> /\ events' = events /\ pc' = pc
        /\ asked' \subseteq asked /\ answers' \subseteq answers
    BY <1>8 DEF FetchLost, vars, tables
  <2>2. ConsoleTypeOK'
    BY <2>1 DEF ConsoleInv, ConsoleTypeOK, List
  <2> QED
    BY <2>1, <2>2 DEF ConsoleInv, Whole, Rows
<1> QED
  BY <1>1, <1>2, <1>3, <1>4, <1>5, <1>6, <1>7, <1>8 DEF ConsoleNext

\* So it holds for ever.
LEMMA ConsoleInvariant == ConsoleSpec => []ConsoleInv
<1>1. ConsoleInit => ConsoleInv
  BY ConsoleAssumption
     DEF ConsoleInit, ConsoleInv, ConsoleTypeOK, Asks, List, Init
<1>2. ConsoleSpec => []TypeOK
  BY ConsoleRunsController, TypeCorrect, PTL
<1> QED
  BY <1>1, <1>2, ConsoleStep, PTL DEF ConsoleSpec

\* Demo.tsx: the console's variables keep their types, and what is on the screen
\* is of the scenario the console is opened on.
THEOREM ConsoleTyped == ConsoleSpec => []ConsoleTypeOK
<1>1. ConsoleInv => ConsoleTypeOK
  BY DEF ConsoleInv
<1> QED
  BY <1>1, ConsoleInvariant, PTL

\* Demo.tsx:78-102: once a 200 answer released the button, no answer to a poll,
\* however late and in whatever order, takes an event of that run off the screen.
THEOREM AnsweredRunsStay == ConsoleSpec => AnsweredRunStays
<1> DEFINE Stays == told # Nobody /\ told' = told /\ screen'.by # 0 =>
                       \/ RunOf(told, screen.rows) \subseteq screen'.rows
                       \/ Cardinality(screen'.rows) = ListLimit
<1>1. ASSUME ConsoleInv, [ConsoleNext]_consoleVars PROVE [Stays]_consoleVars
  <2> SUFFICES ASSUME told # Nobody, told' = told, screen'.by # 0
               PROVE  \/ RunOf(told, screen.rows) \subseteq screen'.rows
                      \/ Cardinality(screen'.rows) = ListLimit
    OBVIOUS
  <2>1. CASE screen' = screen
    BY <2>1 DEF RunOf
  <2>2. CASE screen' # screen
    <3>1. PICK list \in answers : screen' = list /\ list.by \in {0, poll}
      BY <1>1, <2>2 DEF ConsoleNext, ControlPlane, console, consoleVars, Click,
         Settle, Tick, Serve, Deliver, Draw, Drawn, FetchLost
    <3>2. Whole(told, list)
      BY <3>1, <1>1 DEF ConsoleInv
    <3>3. RunOf(told, screen.rows) \subseteq RunOf(told, Rows)
      BY <1>1 DEF ConsoleInv, RunOf
    <3> QED
      BY <3>1, <3>2, <3>3 DEF Whole
  <2> QED
    BY <2>1, <2>2
<1> QED
  BY <1>1, ConsoleInvariant, PTL DEF ConsoleSpec, AnsweredRunStays

=============================================================================
