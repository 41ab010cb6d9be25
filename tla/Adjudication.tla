---------------------------- MODULE Adjudication ----------------------------
(***************************************************************************)
(* The white-cell adjudicator (agents/white-cell) over the events that     *)
(* officers commit: while a batch grows, is annotated by its call site and *)
(* is adjudicated again, each event gets a stake, is held for a human or   *)
(* approved, and is told the events that contest it.  And run_white_crew,  *)
(* which in this version adjudicates a batch it makes up itself.           *)
(***************************************************************************)
EXTENDS OfficerVerbs, Sequences, FiniteSets

CONSTANTS Entity,      \* entities that events are aimed at
          Profile,     \* the officers' capability profiles
          Call,        \* tool calls the officers make
          MaxEvents,   \* bound: events in a batch
          MaxMarks,    \* bound: annotations in a batch
          MaxTurn      \* bound: turns

ASSUME AdjudicationAssumption ==
    /\ NoTarget \notin Entity
    /\ \A call \in Call : /\ call.verb \in STRING
                           /\ call.target \in Entity \cup {NoTarget}

VARIABLES turn,        \* the turn officers commit in
          batch,       \* the events handed to adjudicate_events
          decisions,   \* what it last answered, a decision for each event
          report       \* the decisions of the last run_white_crew

vars == <<turn, batch, decisions, report>>

\* What a call site can add to a payload: an explicit contested marker (as
\* contested or adjudication_state), or that the target is neutral, civilian, a
\* population center or a civilian band.
Annotation == {"contested", "sensitive"}
Event == [id : Nat, turn : Nat, verb : STRING,
          target : Entity \cup {NoTarget}, marks : SUBSET ({"high"} \cup Annotation)]
Decision == [id : Nat, stake : {"low", "medium", "high"},
             outcome : {"auto-approve", "review-pending"},
             human_required : BOOLEAN, contested : BOOLEAN,
             conflicts_with : SUBSET Nat]

-----------------------------------------------------------------------------
StakeLevel(event) ==
    IF \/ event.verb = "destroy"
       \/ "high" \in event.marks
       \/ /\ event.verb \in {"engage", "disable", "jam"}
          /\ "sensitive" \in event.marks
    THEN "high"
    ELSE IF event.verb \in {"engage", "suppress", "jam", "disable"}
    THEN "medium"
    ELSE "low"

\* Another event aimed at the same entity in the same turn.
Rivals(event, other) ==
    /\ other.id # event.id
    /\ event.target # NoTarget
    /\ other.target = event.target
    /\ other.turn = event.turn

\* Mutant of Conflicts: only earlier events.
ConflictsEarlier(event, events) ==
    {events[i].id : i \in {j \in DOMAIN events :
        Rivals(event, events[j]) /\ events[j].id < event.id}}
\* _conflicts_for.
Conflicts(event, events) ==
    {events[i].id : i \in {j \in DOMAIN events : Rivals(event, events[j])}}

\* _default_contested_predicate.
Contested(event, events) ==
    \/ "contested" \in event.marks
    \/ \E i \in DOMAIN events : Rivals(event, events[i])

\* Mutant of Decide: a contested event is settled by its rivals.
DecideByRivals(event, events) ==
    LET stake == StakeLevel(event)
        held == stake = "high" /\ ~Contested(event, events)
    IN  [id |-> event.id, stake |-> stake,
         outcome |-> IF held THEN "review-pending" ELSE "auto-approve",
         human_required |-> held, contested |-> Contested(event, events),
         conflicts_with |-> Conflicts(event, events)]
Decide(event, events) ==
    LET stake == StakeLevel(event)
        held == stake = "high"
    IN  [id |-> event.id, stake |-> stake,
         outcome |-> IF held THEN "review-pending" ELSE "auto-approve",
         human_required |-> held, contested |-> Contested(event, events),
         conflicts_with |-> Conflicts(event, events)]

\* adjudicate_events: one decision for each event, in the events' order.
AdjudicateEvents(events) ==
    [i \in DOMAIN events |-> Decide(events[i], events)]

\* _synthetic_events: three routine events, two engagements of one entity, a
\* destroy in a population center.
Synthetic(t) ==
    LET MadeUp(id, verb, target, marks) ==
            [id |-> id, turn |-> t, verb |-> verb,
             target |-> target, marks |-> marks]
    IN  <<MadeUp(1, "detect", NoTarget, {}), MadeUp(2, "move_to", NoTarget, {}),
          MadeUp(3, "send", NoTarget, {}),
          MadeUp(4, "engage", "contested_target", {}),
          MadeUp(5, "engage", "contested_target", {}),
          MadeUp(6, "destroy", "civilian_pop_center", {"high", "sensitive"})>>

-----------------------------------------------------------------------------
Init ==
    /\ turn = 0
    /\ batch = <<>>
    /\ decisions = <<>>
    /\ report = <<>>

\* An officer's tool call commits an event; a call that is refused leaves no
\* trace.
Commit(profile, call) ==
    /\ Len(batch) < MaxEvents
    /\ Performs(profile, call)
    /\ batch' = Append(batch, [id |-> Len(batch) + 1, turn |-> turn,
                               verb |-> call.verb, target |-> TargetOf(call),
                               marks |-> Stamps(call)])
    /\ UNCHANGED <<turn, decisions, report>>

\* The call site learns something about an event's target.
Annotate(i, mark) ==
    /\ Cardinality({n \in (DOMAIN batch) \X Annotation :
                        n[2] \in batch[n[1]].marks}) < MaxMarks
    /\ mark \notin batch[i].marks
    /\ batch' = [batch EXCEPT ![i].marks = @ \cup {mark}]
    /\ UNCHANGED <<turn, decisions, report>>

Adjudicate ==
    /\ decisions' = AdjudicateEvents(batch)
    /\ UNCHANGED <<turn, batch, report>>

RunWhiteCrew ==
    /\ report' = AdjudicateEvents(Synthetic(turn))
    /\ UNCHANGED <<turn, batch, decisions>>

AdvanceTurn ==
    /\ turn < MaxTurn
    /\ turn' = turn + 1
    /\ UNCHANGED <<batch, decisions, report>>

Next ==
    \/ \E profile \in Profile, call \in Call : Commit(profile, call)
    \/ \E i \in DOMAIN batch, mark \in Annotation : Annotate(i, mark)
    \/ Adjudicate
    \/ RunWhiteCrew
    \/ AdvanceTurn

Spec == Init /\ [][Next]_vars

-----------------------------------------------------------------------------
\* Decisions are about events of the batch, and an event without an entity
\* (an engagement of a coordinate, say) has no target that could be compared.
TypeOK ==
    /\ turn \in Nat
    /\ batch \in Seq(Event)
    /\ decisions \in Seq(Decision) /\ Len(decisions) <= Len(batch)
    /\ report \in Seq(Decision)

\* Whom the conflict lists put together.
ContestedSet(d) == {d.id} \cup d.conflicts_with
SetsAgree(ds) ==
    \A i, j \in DOMAIN ds :
        ds[j].id \in ds[i].conflicts_with =>
            /\ ds[i].contested /\ ds[j].contested
            /\ ContestedSet(ds[i]) = ContestedSet(ds[j])

\* The flag and the conflict lists, which are computed by two functions over
\* the whole batch, agree: whoever is listed is contested, lists its rival in
\* turn, and names the same set of rivals, so that a review can show each
\* contested set as one.
ContestedSetsAgree == SetsAgree(decisions) /\ SetsAgree(report)

\* Adjudicating a batch that has grown, been annotated or is carried into a
\* later turn never takes back a hold, nor a conflict an event was shown with.
HoldsStand ==
    [][\A i \in DOMAIN decisions :
        /\ i \in DOMAIN decisions' /\ decisions'[i].id = decisions[i].id
        /\ decisions[i].human_required => decisions'[i].human_required
        /\ decisions[i].contested => decisions'[i].contested
        /\ decisions[i].conflicts_with \subseteq decisions'[i].conflicts_with]_vars

=============================================================================
