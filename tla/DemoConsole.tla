----------------------------- MODULE DemoConsole ----------------------------
(***************************************************************************)
(* The demo console (web/renderer/src/routes/Demo.tsx) in front of the     *)
(* turn controller: a button that POSTs a turn advance and an event log    *)
(* filled by polling GET .../events (control-plane routes/events.ts).      *)
(*                                                                         *)
(* Every answer replaces the whole list on the screen.  A change of        *)
(* `advancing` or `pollUntil` runs the polling effect's cleanup and then   *)
(* the effect: a new generation of polls, whose number is `poll`.  Answers *)
(* may overtake each other; those of a generation that was cleaned up are  *)
(* dropped, the initial load (generation 0) is never cleaned up.           *)
(***************************************************************************)
EXTENDS TurnController

CONSTANTS BaseUrl,      \* what VITE_CONTROL_PLANE_URL makes of the API's base
          Shown,        \* the scenario the console is opened on
          ListLimit,    \* LIMIT of the list, 5000
          MaxInFlight,  \* bound: GETs under way at once
          Nobody        \* no POST under way, no answer yet

ASSUME ConsoleAssumption ==
    /\ BaseUrl \in {"absolute", "path"}
    /\ Shown \in Scenario
    /\ ListLimit \in Nat /\ MaxInFlight \in Nat \ {0}
    /\ Nobody \notin Request

VARIABLES posting,  \* the request whose answer the button waits for
          told,     \* the last request the console had a 200 answer of
          poll,     \* generation of the polling effect, 0: not polling
          asked,    \* the generations whose GETs are on their way
          answers,  \* the lists on their way back: generation and rows
          screen    \* the list shown, and the generation that fetched it

console == <<posting, told, poll, asked, answers, screen>>
consoleVars == <<vars, console>>

Rows == {e \in events : e.scenario = Shown}

\* ORDER BY ts ASC LIMIT n.  ts is NOW() at each INSERT (agent-runtime.ts:93),
\* and a run's INSERTs come one after the other (pending counts down); how those
\* of two runs interleave is left open.
Older(e, f) == e.id[1] = f.id[1] /\ e.id[2] > f.id[2]
Oldest(found) ==
    IF Cardinality(found) <= ListLimit THEN {found}
    ELSE {kept \in SUBSET found :
            /\ Cardinality(kept) = ListLimit
            /\ \A f \in kept, e \in found : Older(e, f) => e \in kept}

-----------------------------------------------------------------------------
\* fetchEvents: new URL(...) throws when the base is only a path, and its
\* callers swallow what it throws.
Asks(generation) == IF BaseUrl = "path" THEN {} ELSE {generation}

ConsoleInit ==
    /\ Init
    /\ posting = Nobody /\ told = Nobody /\ poll = 0
    /\ asked = Asks(0) /\ answers = {}
    /\ screen = [by |-> 0, rows |-> {}]

\* The button: disabled while it waits for an answer.
Click ==
    /\ posting = Nobody
    /\ \E r \in Request : target[r] = Shown /\ Arrive(r) /\ posting' = r
    /\ poll' = poll + 1
    /\ UNCHANGED <<told, asked, answers, screen>>

\* Mutant of Settle: the answer ends the polling.
SettleStops ==
    /\ posting # Nobody
    /\ \/ reply[posting] = "200" /\ pc[posting] = "done" /\ told' = posting
       \/ UNCHANGED told
    /\ posting' = Nobody
    /\ poll' = 0
    /\ UNCHANGED <<vars, asked, answers, screen>>

\* The finally block, whatever the answer was; the answer may also get lost
\* while the handler is still at work.
Settle ==
    /\ posting # Nobody
    /\ \/ reply[posting] = "200" /\ pc[posting] = "done" /\ told' = posting
       \/ UNCHANGED told
    /\ posting' = Nobody
    /\ poll' = poll + 1
    /\ UNCHANGED <<vars, asked, answers, screen>>

\* Mutant of Tick: once Date.now() has passed pollUntil, the polling ends.
TickInTime ==
    /\ poll > 0
    /\ Cardinality(asked) + Cardinality(answers) < MaxInFlight
    /\ \/ asked' = asked \cup Asks(poll) /\ UNCHANGED poll
       \/ posting = Nobody /\ poll' = 0 /\ UNCHANGED asked
    /\ UNCHANGED <<vars, posting, told, answers, screen>>

\* One tick of the interval.  Only a new generation clears it: that Date.now()
\* has passed pollUntil makes nobody render.
Tick ==
    /\ poll > 0
    /\ Cardinality(asked) + Cardinality(answers) < MaxInFlight
    /\ asked' = asked \cup Asks(poll)
    /\ UNCHANGED <<vars, posting, told, poll, answers, screen>>

\* The events route: one SELECT on a connection of the pool.
Serve ==
    /\ Free
    /\ \E g \in asked, kept \in Oldest(Rows) :
          /\ asked' = asked \ {g}
          /\ answers' = answers \cup {[by |-> g, rows |-> kept]}
    /\ UNCHANGED <<vars, posting, told, poll, screen>>

\* Mutant of Drawn: an answer is drawn whichever generation asked for it.
DrawnAlways(list) == TRUE
\* The cancelled flag.
Drawn(list) == list.by \in {0, poll}

Draw(list) ==
    /\ answers' = answers \ {list}
    /\ screen' = IF Drawn(list) THEN list ELSE screen
    /\ UNCHANGED <<vars, posting, told, poll, asked>>
Deliver == \E list \in answers : Draw(list)

\* A GET that fails is forgotten.
FetchLost ==
    /\ \/ \E g \in asked : asked' = asked \ {g} /\ UNCHANGED answers
       \/ \E list \in answers : answers' = answers \ {list} /\ UNCHANGED asked
    /\ UNCHANGED <<vars, posting, told, poll, screen>>

ControlPlane == Next /\ UNCHANGED console

ConsoleNext ==
    \/ ControlPlane
    \/ Click \/ Settle \/ Tick \/ Serve \/ Deliver \/ FetchLost

ConsoleSpec == ConsoleInit /\ [][ConsoleNext]_consoleVars

\* The interval fires, a GET ends one way or the other, and of a browser that
\* asks again and again neither every request nor every answer gets lost.
Refresh == \E list \in answers : list.by = poll /\ Draw(list)
ConsoleFairSpec ==
    /\ ConsoleSpec
    /\ \A r \in Request : WF_vars(Handle(r))
    /\ WF_consoleVars(Tick) /\ WF_consoleVars(Deliver \/ FetchLost)
    /\ SF_consoleVars(Serve) /\ SF_consoleVars(Refresh)

-----------------------------------------------------------------------------
List == [by : 0 .. poll, rows : SUBSET Event]

\* Values of the console, and a list is of the console's own scenario.
ConsoleTypeOK ==
    /\ posting \in Request \cup {Nobody}
    /\ told \in Request \cup {Nobody}
    /\ poll \in Nat
    /\ asked \subseteq 0 .. poll /\ answers \subseteq List
    /\ screen \in List
    /\ \A e \in screen.rows : e.scenario = Shown

RunOf(r, list) == {e \in list : e.id[1] = r}

\* Once the button was released by a 200 answer, the events of that run stay on
\* the screen, however the answers to the polls overtake each other; only the
\* initial load, which nothing cancels, can still take them away.
AnsweredRunStays ==
    [][told # Nobody /\ told' = told /\ screen'.by # 0 =>
          \/ RunOf(told, screen.rows) \subseteq screen'.rows
          \/ Cardinality(screen'.rows) = ListLimit]_consoleVars

\* Demo.tsx:10-14, "the EventLog populates as Postgres receives writes": once
\* the button was pressed, the screen ends up showing the oldest events of the
\* table for good, also when the POST's answer was lost or the process died.
EventLogPopulates == poll > 0 ~> [](screen.rows \in Oldest(Rows))

=============================================================================
