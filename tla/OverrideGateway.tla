--------------------------- MODULE OverrideGateway --------------------------
(***************************************************************************)
(* The override gateway of the control plane                               *)
(* (services/control-plane/src/override-gateway.ts): white-cell operators  *)
(* author and revoke policies and rule on events by hand, evaluateEvent    *)
(* looks up the policy that decides an event and appends to the audit log, *)
(* while scenarios move from turn to turn.                                 *)
(*                                                                         *)
(* A Call is one request or one evaluation.  Every pool.query is its own   *)
(* transaction: a handler with two of them is two actions.                 *)
(***************************************************************************)
EXTENDS Integers, Sequences, FiniteSets

CONSTANTS Scenario, Agent, EventId, Call,
          Action,      \* the actions policies are authored with
          Ttl,         \* the ttl_turns policies are authored with
          TargetTurn,  \* the target_turn they are authored with
          MaxTurn,     \* bound: turns a scenario is advanced to
          MaxInt,      \* largest value of the int columns, 2^31 - 1
          NoPolicy     \* policy_id of a decision no policy made

ACTION_TO_OUTCOME == [a \in {"auto-approve", "auto-block", "review"} |->
                        IF a = "review" THEN "review-pending" ELSE a]

ASSUME GatewayAssumption ==
    /\ Action \subseteq DOMAIN ACTION_TO_OUTCOME
    /\ MaxTurn \in Nat /\ MaxInt \in Nat
    /\ Ttl \subseteq 0 .. MaxInt /\ TargetTurn \subseteq 0 .. MaxInt
    /\ NoPolicy \notin Nat

VARIABLES current_turn,  \* scenarios.current_turn
          events,        \* the events agents have emitted
          policies,      \* override_policies in created_at order; index = id
          revoked,       \* the ids with status 'revoked'
          decisions,     \* override_decisions, one row per deciding call
          pc,            \* where each call stands
          job,           \* what each call asks for and has read so far
          reply          \* what each call is answered

tables == <<current_turn, events, policies, revoked, decisions>>
vars == <<tables, pc, job, reply>>

Turn == 0 .. MaxTurn + 1
Nothing == [policy |-> NoPolicy]
Manual == {"review-approved", "review-blocked"}

Event == [id : EventId, scenario : Scenario, agent : Agent, turn : Turn]
Target == ({"per-event"} \X EventId)
          \cup ({"per-agent-per-turn"} \X Agent \X TargetTurn)
          \cup ({"per-turn"} \X TargetTurn)
Draft == [scenario : Scenario, target : Target, action : Action,
          ttl_turns : Ttl, created_in_turn : 0 .. MaxTurn]

\* The lookup chain: what a policy of priority 1, 2, 3 must be aimed at.
Chain(e) == << <<"per-event", e.id>>,
               <<"per-agent-per-turn", e.agent, e.turn>>,
               <<"per-turn", e.turn>> >>

Priority(p, e) == CHOOSE k \in 1 .. 3 : Chain(e)[k] = policies[p].target

\* Mutant of Aimed: the namespace columns are not compared.
AimedAnywhere(e) ==
    {p \in DOMAIN policies \ revoked :
        \E k \in 1 .. 3 : policies[p].target = Chain(e)[k]}
\* Active policies of the event's scenario aimed at it, whatever their age.
Aimed(e) ==
    {p \in DOMAIN policies \ revoked :
        /\ policies[p].scenario = e.scenario
        /\ \E k \in 1 .. 3 : policies[p].target = Chain(e)[k]}

InForce(p, turn) ==
    turn \in policies[p].created_in_turn
             .. policies[p].created_in_turn + policies[p].ttl_turns

\* created_in_turn + ttl_turns is int4 arithmetic; the server evaluates it once
\* the other conditions hold, and raises "integer out of range".
Overflows(e) ==
    \E p \in Aimed(e) :
        /\ policies[p].created_in_turn <= e.turn
        /\ policies[p].created_in_turn + policies[p].ttl_turns > MaxInt

\* Mutant of FindMatchingPolicy: ORDER BY ... created_at ASC.
FindOldestPolicy(e) ==
    LET candidates == {p \in Aimed(e) : InForce(p, e.turn)}
    IN  IF candidates = {} THEN NoPolicy
        ELSE CHOOSE p \in candidates : \A q \in candidates :
                \/ Priority(p, e) < Priority(q, e)
                \/ Priority(p, e) = Priority(q, e) /\ p <= q

\* ORDER BY priority ASC, created_at DESC LIMIT 1.
FindMatchingPolicy(e) ==
    LET candidates == {p \in Aimed(e) : InForce(p, e.turn)}
    IN  IF candidates = {} THEN NoPolicy
        ELSE CHOOSE p \in candidates : \A q \in candidates :
                \/ Priority(p, e) < Priority(q, e)
                \/ Priority(p, e) = Priority(q, e) /\ p >= q

-----------------------------------------------------------------------------
Init ==
    /\ current_turn = [s \in Scenario |-> 0]
    /\ events = {}
    /\ policies = <<>>
    /\ revoked = {}
    /\ decisions = {}
    /\ pc = [c \in Call |-> "idle"]
    /\ job = [c \in Call |-> Nothing]
    /\ reply = [c \in Call |-> "none"]

\* The call goes on to its second query with what it has read.
Await(c, label, read) ==
    /\ pc[c] = "idle"
    /\ pc' = [pc EXCEPT ![c] = label]
    /\ job' = [job EXCEPT ![c] = read]
    /\ UNCHANGED <<tables, reply>>

\* Answer the call; of what it asked for, keep what the answer is about.
Finish(c, answer, about) ==
    /\ pc' = [pc EXCEPT ![c] = "done"]
    /\ reply' = [reply EXCEPT ![c] = answer]
    /\ job' = [job EXCEPT ![c] = about]

\* The statement has committed; the connection or the process may be gone
\* before that is known.
Committed(c, answer, about) ==
    \/ Finish(c, answer, about)
    \/ Finish(c, "500", about)

\* The second statement of a call is refused, or the process dies before it.
Fail(c) ==
    /\ pc[c] \in {"authoring", "evaluating", "ruling"}
    /\ Finish(c, "500", Nothing)
    /\ UNCHANGED tables

\* Steps 4 and 5 of the turn controller.
AdvanceTurn(s) ==
    /\ current_turn[s] < MaxTurn
    /\ current_turn' = [current_turn EXCEPT ![s] = @ + 1]
    /\ UNCHANGED <<events, policies, revoked, decisions, pc, job, reply>>

\* The agents of the coming turn emit an event under a fresh id.
EmitEvent(s) ==
    /\ \E id \in EventId \ {e.id : e \in events}, a \in Agent :
          events' = events \cup {[id |-> id, scenario |-> s, agent |-> a,
                                  turn |-> current_turn[s] + 1]}
    /\ UNCHANGED <<current_turn, policies, revoked, decisions, pc, job, reply>>

\* Mutant of ReadStamp: the policy is stamped with the turn to come.
ReadNextTurn(c) ==
    \E s \in Scenario, target \in Target, action \in Action, ttl \in Ttl :
        Await(c, "authoring",
              [scenario |-> s, target |-> target, action |-> action,
               ttl_turns |-> ttl, created_in_turn |-> current_turn[s] + 1])

\* createPolicy: SELECT current_turn, the stamp of the policy ...
ReadStamp(c) ==
    \E s \in Scenario, target \in Target, action \in Action, ttl \in Ttl :
        Await(c, "authoring",
              [scenario |-> s, target |-> target, action |-> action,
               ttl_turns |-> ttl, created_in_turn |-> current_turn[s]])

\* ... and INSERT.
InsertPolicy(c) ==
    /\ pc[c] = "authoring"
    /\ policies' = Append(policies, job[c])
    /\ Committed(c, "201", Nothing)
    /\ UNCHANGED <<current_turn, events, revoked, decisions>>

\* Mutant of RevokePolicy: the UPDATE does not ask for status = 'active'.
RevokeAgain(c) ==
    /\ pc[c] = "idle"
    /\ \E p \in DOMAIN policies :
          /\ revoked' = revoked \cup {p}
          /\ Committed(c, "200", [revokes |-> p])
    /\ UNCHANGED <<current_turn, events, policies, decisions>>

\* revokePolicy: one UPDATE ... WHERE status = 'active'.
RevokePolicy(c) ==
    /\ pc[c] = "idle"
    /\ \E p \in DOMAIN policies \ revoked :
          /\ revoked' = revoked \cup {p}
          /\ Committed(c, "200", [revokes |-> p])
    /\ UNCHANGED <<current_turn, events, policies, decisions>>

\* PolicyNotFoundError when the policy is revoked already or not there, and
\* EventNotFoundError for an unknown scenario or event.
NotFound(c) ==
    /\ pc[c] = "idle"
    /\ Finish(c, "404", Nothing)
    /\ UNCHANGED tables

\* evaluateEvent: the lookup, in one query ...
LookUp(c) ==
    \E e \in events :
        /\ ~Overflows(e)
        /\ Await(c, "evaluating", [event |-> e, policy |-> FindMatchingPolicy(e)])

LookUpOverflows(c) ==
    /\ pc[c] = "idle"
    /\ \E e \in events : Overflows(e)
    /\ Finish(c, "error", Nothing)
    /\ UNCHANGED tables

\* ... and the audit row, whatever has happened to the policy since.
RecordEvaluation(c) ==
    /\ pc[c] = "evaluating"
    /\ LET p == job[c].policy
           outcome == IF p = NoPolicy THEN "default-review"
                      ELSE ACTION_TO_OUTCOME[policies[p].action]
       IN  /\ decisions' = decisions \cup
                 {[call |-> c, event |-> job[c].event, policy |-> p,
                   outcome |-> outcome]}
           /\ Committed(c, outcome, job[c])
    /\ UNCHANGED <<current_turn, events, policies, revoked>>

\* Mutant of RecordManual: an event that has been decided keeps that decision.
RecordManualOnce(c) ==
    /\ pc[c] = "ruling"
    /\ decisions' = IF \E d \in decisions : d.event = job[c].event
                    THEN decisions
                    ELSE decisions \cup
                      {[call |-> c, event |-> job[c].event, policy |-> NoPolicy,
                        outcome |-> job[c].outcome]}
    /\ Committed(c, "201", job[c])
    /\ UNCHANGED <<current_turn, events, policies, revoked>>

\* manualDecision: the event must exist; its turn is read ...
FindEvent(c) ==
    \E e \in events, ruling \in Manual :
        Await(c, "ruling", [event |-> e, outcome |-> ruling])

\* ... and the ruling appended beside whatever was decided before.
RecordManual(c) ==
    /\ pc[c] = "ruling"
    /\ decisions' = decisions \cup
          {[call |-> c, event |-> job[c].event, policy |-> NoPolicy,
            outcome |-> job[c].outcome]}
    /\ Committed(c, "201", job[c])
    /\ UNCHANGED <<current_turn, events, policies, revoked>>

Next ==
    \/ \E s \in Scenario : AdvanceTurn(s) \/ EmitEvent(s)
    \/ \E c \in Call :
          \/ ReadStamp(c) \/ InsertPolicy(c)
          \/ RevokePolicy(c) \/ NotFound(c)
          \/ LookUp(c) \/ LookUpOverflows(c) \/ RecordEvaluation(c)
          \/ FindEvent(c) \/ RecordManual(c) \/ Fail(c)

Spec == Init /\ [][Next]_vars

-----------------------------------------------------------------------------
\* Every variable keeps its type, and a decision cites a policy that exists.
TypeOK ==
    /\ current_turn \in [Scenario -> 0 .. MaxTurn]
    /\ events \subseteq Event
    /\ policies \in Seq(Draft)
    /\ revoked \subseteq DOMAIN policies
    /\ decisions \subseteq
         [call : Call, event : events, policy : {NoPolicy} \cup DOMAIN policies,
          outcome : {"auto-approve", "auto-block", "review-pending",
                     "default-review"} \cup Manual]
    /\ pc \in [Call -> {"idle", "authoring", "evaluating", "ruling", "done"}]

\* Of any number of operators who revoke a policy, one does: nobody else is
\* told so, and a revoked policy is some call's doing.
RevokedOnce ==
    \A p \in DOMAIN policies :
        Cardinality({c \in Call : /\ pc[c] = "done" /\ "revokes" \in DOMAIN job[c]
                                  /\ job[c].revokes = p})
            = IF p \in revoked THEN 1 ELSE 0

\* A verdict in the audit log cites a policy of the event's own scenario, aimed
\* at it and in force in its turn, also when turns advance and policies are
\* revoked between the lookup and the row.
CitedPolicyApplied ==
    \A d \in decisions : d.policy # NoPolicy =>
        /\ policies[d.policy].scenario = d.event.scenario
        /\ \E k \in 1 .. 3 : policies[d.policy].target = Chain(d.event)[k]
        /\ d.event.turn - policies[d.policy].created_in_turn
              \in 0 .. policies[d.policy].ttl_turns

\* The log holds one row of every evaluation or ruling whose caller was told an
\* outcome, with that outcome and the event asked about, whatever else the event
\* has been given; a call whose event or policy was not found leaves none, and
\* one that failed leaves at most one.
AnswersAudited ==
    \A c \in Call : LET rows == {d \in decisions : d.call = c} IN
        /\ Cardinality(rows) <= 1
        /\ reply[c] \in {"404", "error"} => rows = {}
        /\ reply[c] # "500" /\ pc[c] = "done" /\ "event" \in DOMAIN job[c] =>
              \E d \in rows :
                  /\ d.event = job[c].event
                  /\ reply[c] = IF d.outcome \in Manual THEN "201" ELSE d.outcome

\* services/control-plane/README.md:123: every evaluation leaves a row in the
\* audit log, regardless of outcome.
EvaluationAudited ==
    \A c \in Call : reply[c] = "error" => \E d \in decisions : d.call = c

=============================================================================
