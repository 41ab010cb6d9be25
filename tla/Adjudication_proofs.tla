------------------------ MODULE Adjudication_proofs -------------------------
(***************************************************************************)
(* Machine-checked theorems about Adjudication, for all entities, profiles *)
(* and calls, and batches of any length.                                   *)
(***************************************************************************)
EXTENDS Adjudication, TLAPS

DistinctIds(events) ==
    \A i, j \in DOMAIN events : events[i].id = events[j].id => i = j

(***************************************************************************)
(* The rivals of an event and itself are the events aimed at its entity in *)
(* its turn: one set for all of them, which is why their lists agree.      *)
(***************************************************************************)
AimedAt(events, target, t) ==
    {events[k].id : k \in {j \in DOMAIN events :
        events[j].target = target /\ events[j].turn = t}}

LEMMA RivalsAreAimedAlike ==
    ASSUME NEW events, NEW i \in DOMAIN events, events[i].target # NoTarget
    PROVE  {events[i].id} \cup Conflicts(events[i], events)
            = AimedAt(events, events[i].target, events[i].turn)
BY DEF Conflicts, Rivals, AimedAt

\* What a decision says of its event.
LEMMA DecisionFields ==
    ASSUME NEW event, NEW events
    PROVE  /\ Decide(event, events).id = event.id
           /\ Decide(event, events).human_required <=> StakeLevel(event) = "high"
           /\ Decide(event, events).contested <=> Contested(event, events)
           /\ Decide(event, events).conflicts_with = Conflicts(event, events)
BY DEF Decide

\* adjudicate_events answers with one decision for each event.
LEMMA OneDecisionEach ==
    ASSUME NEW events, NEW i \in DOMAIN events
    PROVE  /\ DOMAIN AdjudicateEvents(events) = DOMAIN events
           /\ AdjudicateEvents(events)[i] = Decide(events[i], events)
BY DEF AdjudicateEvents

\* Contested sets agree in whatever is adjudicated at once, if no two events
\* have the same id.
LEMMA AdjudicatedSetsAgree ==
    ASSUME NEW events, DistinctIds(events)
    PROVE  SetsAgree(AdjudicateEvents(events))
<1> DEFINE ds == AdjudicateEvents(events)
<1>1. DOMAIN ds = DOMAIN events
  BY DEF AdjudicateEvents
<1>2. \A i \in DOMAIN events :
        /\ ds[i].id = events[i].id
        /\ ds[i].contested = Contested(events[i], events)
        /\ ds[i].conflicts_with = Conflicts(events[i], events)
  <2> TAKE i \in DOMAIN events
  <2>1. ds[i] = Decide(events[i], events)
    BY OneDecisionEach
  <2> QED
    BY <2>1 DEF Decide
<1> SUFFICES ASSUME NEW i \in DOMAIN events, NEW j \in DOMAIN events,
                    ds[j].id \in ds[i].conflicts_with
             PROVE  /\ ds[i].contested /\ ds[j].contested
                    /\ ContestedSet(ds[i]) = ContestedSet(ds[j])
  BY <1>1 DEF SetsAgree
<1> HIDE DEF ds
<1>3. Rivals(events[i], events[j])
  <2>1. PICK k \in DOMAIN events :
            events[k].id = events[j].id /\ Rivals(events[i], events[k])
    BY <1>2 DEF Conflicts
  <2>2. k = j
    BY <2>1 DEF DistinctIds
  <2> QED
    BY <2>1, <2>2
<1>4. Rivals(events[j], events[i])
  BY <1>3 DEF Rivals
<1>5. ds[i].contested /\ ds[j].contested
  BY <1>2, <1>3, <1>4 DEF Contested
<1>6. ContestedSet(ds[i]) = ContestedSet(ds[j])
  <2>1. /\ events[i].target # NoTarget /\ events[j].target # NoTarget
        /\ events[j].target = events[i].target /\ events[j].turn = events[i].turn
    BY <1>3, <1>4 DEF Rivals
  <2>2. ContestedSet(ds[i])
            = AimedAt(events, events[i].target, events[i].turn)
    BY <1>2, <2>1, RivalsAreAimedAlike DEF ContestedSet
  <2>3. ContestedSet(ds[j])
            = AimedAt(events, events[j].target, events[j].turn)
    BY <1>2, <2>1, RivalsAreAimedAlike DEF ContestedSet
  <2> QED
    BY <2>1, <2>2, <2>3
<1> QED
  BY <1>5, <1>6

\* The batch that run_white_crew makes up has six events, with ids of its own.
LEMMA SyntheticIds ==
    ASSUME NEW t
    PROVE  /\ DOMAIN Synthetic(t) = 1..6
           /\ \A i \in 1..6 : Synthetic(t)[i].id = i
<1>1. Synthetic(t)[1].id = 1 /\ Synthetic(t)[2].id = 2 /\ Synthetic(t)[3].id = 3
  BY DEF Synthetic
<1>2. Synthetic(t)[4].id = 4 /\ Synthetic(t)[5].id = 5 /\ Synthetic(t)[6].id = 6
  BY DEF Synthetic
<1>3. DOMAIN Synthetic(t) = 1..6
  BY DEF Synthetic
<1> QED
  BY <1>1, <1>2, <1>3

\* A decision is well typed, and holds what is high.
LEMMA DecisionTyped ==
    ASSUME NEW n \in Nat, NEW events, DOMAIN events = 1..n,
           \A i \in 1..n : events[i].id \in Nat
    PROVE  AdjudicateEvents(events) \in Seq(Decision)
<1>1. \A i \in 1..n : Decide(events[i], events) \in Decision
  <2> TAKE i \in 1..n
  <2>1. Conflicts(events[i], events) \in SUBSET Nat
    BY DEF Conflicts
  <2>2. StakeLevel(events[i]) \in {"low", "medium", "high"}
    BY DEF StakeLevel
  <2>3. Contested(events[i], events) \in BOOLEAN
    BY DEF Contested
  <2> QED
    BY <2>1, <2>2, <2>3 DEF Decide, Decision
<1>2. AdjudicateEvents(events) \in [1..n -> Decision]
  BY <1>1 DEF AdjudicateEvents
<1> QED
  BY <1>2

-----------------------------------------------------------------------------
(***************************************************************************)
(* The inductive invariant.  Neither property is inductive: a decision may *)
(* be older than the batch, and a step that adjudicates again is compared  *)
(* with it.  Stands says what makes the old one safe: it is about the same *)
(* event, and what it says for holding it still holds of the batch, which  *)
(* only grows.                                                             *)
(***************************************************************************)
Numbered == \A i \in DOMAIN batch : batch[i].id = i

Stands(d, event, events) ==
    /\ d.id = event.id
    /\ d.human_required => StakeLevel(event) = "high"
    /\ d.contested => Contested(event, events)
    /\ d.conflicts_with \subseteq Conflicts(event, events)

DecisionsStand ==
    \A i \in DOMAIN decisions : Stands(decisions[i], batch[i], batch)

AdjInv == TypeOK /\ Numbered /\ DecisionsStand /\ ContestedSetsAgree

\* More events with the same or more marks: what a decision says still stands.
Grown(old, new) ==
    /\ DOMAIN old \subseteq DOMAIN new
    /\ \A i \in DOMAIN old :
          /\ new[i].id = old[i].id /\ new[i].turn = old[i].turn
          /\ new[i].verb = old[i].verb /\ new[i].target = old[i].target
          /\ old[i].marks \subseteq new[i].marks

LEMMA StandsInGrown ==
    ASSUME NEW old, NEW new, Grown(old, new), NEW i \in DOMAIN old, NEW d,
           Stands(d, old[i], old)
    PROVE  Stands(d, new[i], new)
<1>1. \A j \in DOMAIN old :
        Rivals(old[i], old[j]) => Rivals(new[i], new[j])
  BY DEF Grown, Rivals
<1>2. Conflicts(old[i], old) \subseteq Conflicts(new[i], new)
  <2> SUFFICES ASSUME NEW c \in Conflicts(old[i], old)
               PROVE  c \in Conflicts(new[i], new)
    OBVIOUS
  <2>1. PICK j \in DOMAIN old : c = old[j].id /\ Rivals(old[i], old[j])
    BY DEF Conflicts
  <2>2. j \in DOMAIN new /\ c = new[j].id /\ Rivals(new[i], new[j])
    BY <1>1, <2>1 DEF Grown
  <2> QED
    BY <2>2 DEF Conflicts
<1>3. Contested(old[i], old) => Contested(new[i], new)
  BY <1>1 DEF Contested, Grown
<1>4. StakeLevel(old[i]) = "high" => StakeLevel(new[i]) = "high"
  BY DEF StakeLevel, Grown
<1>5. new[i].id = old[i].id
  BY DEF Grown
<1> QED
  BY <1>2, <1>3, <1>4, <1>5 DEF Stands

LEMMA InitEstablishesAdjInv == Init => AdjInv
<1> SUFFICES ASSUME Init PROVE AdjInv
  OBVIOUS
<1>1. DOMAIN batch = {} /\ DOMAIN decisions = {} /\ DOMAIN report = {}
  BY DEF Init
<1>2. TypeOK
  BY DEF Init, TypeOK
<1> QED
  BY <1>1, <1>2 DEF AdjInv, Numbered, DecisionsStand, ContestedSetsAgree, SetsAgree

\* A step that only lets the batch grow keeps the invariant.
LEMMA GrowthKeepsAdjInv ==
    ASSUME AdjInv, Grown(batch, batch'), batch' \in Seq(Event), Numbered',
           Len(batch) <= Len(batch'), UNCHANGED <<turn, decisions, report>>
    PROVE  AdjInv'
<1>1. TypeOK'
  BY DEF AdjInv, TypeOK
<1>2. DecisionsStand'
  <2> SUFFICES ASSUME NEW i \in DOMAIN decisions
               PROVE  Stands(decisions[i], batch'[i], batch')
    BY DEF DecisionsStand
  <2>1. i \in DOMAIN batch
    BY DEF AdjInv, TypeOK
  <2> QED
    BY <2>1, StandsInGrown DEF AdjInv, DecisionsStand
<1>3. ContestedSetsAgree'
  BY DEF AdjInv, ContestedSetsAgree
<1> QED
  BY <1>1, <1>2, <1>3 DEF AdjInv

LEMMA CommitKeepsAdjInv ==
    ASSUME AdjInv, NEW profile \in Profile, NEW call \in Call,
           Commit(profile, call)
    PROVE  AdjInv'
<1> DEFINE event == [id |-> Len(batch) + 1, turn |-> turn, verb |-> call.verb,
                     target |-> TargetOf(call), marks |-> Stamps(call)]
<1>1. batch \in Seq(Event) /\ turn \in Nat
  BY DEF AdjInv, TypeOK
<1>2. event \in Event
  <2>1. TargetOf(call) \in Entity \cup {NoTarget}
    BY AdjudicationAssumption DEF TargetOf
  <2>2. Stamps(call) \in SUBSET ({"high"} \cup Annotation)
    BY DEF Stamps
  <2> QED
    BY <1>1, <2>1, <2>2, AdjudicationAssumption DEF Event
<1>3. batch' = Append(batch, event) /\ UNCHANGED <<turn, decisions, report>>
  BY DEF Commit
<1>4. event.id = Len(batch) + 1
  OBVIOUS
<1> HIDE DEF event
<1>5. batch' \in Seq(Event) /\ Len(batch') = Len(batch) + 1
  BY <1>1, <1>2, <1>3
<1>6. \A i \in DOMAIN batch : batch'[i] = batch[i]
  BY <1>1, <1>2, <1>3
<1>7. batch'[Len(batch) + 1] = event
  BY <1>1, <1>2, <1>3
<1>8. Grown(batch, batch')
  BY <1>1, <1>5, <1>6 DEF Grown
<1>9. Numbered'
  BY <1>1, <1>4, <1>5, <1>6, <1>7 DEF AdjInv, Numbered
<1> QED
  BY <1>1, <1>3, <1>5, <1>8, <1>9, GrowthKeepsAdjInv

LEMMA AnnotateKeepsAdjInv ==
    ASSUME AdjInv, NEW i \in DOMAIN batch, NEW mark \in Annotation,
           Annotate(i, mark)
    PROVE  AdjInv'
<1>1. batch \in Seq(Event)
  BY DEF AdjInv, TypeOK
<1>2. /\ batch' = [batch EXCEPT ![i].marks = @ \cup {mark}]
      /\ UNCHANGED <<turn, decisions, report>>
  BY DEF Annotate
<1>3. batch[i] \in Event
  BY <1>1
<1>4. [batch[i] EXCEPT !.marks = @ \cup {mark}] \in Event
  BY <1>3 DEF Event
<1>5. batch' \in Seq(Event) /\ Len(batch') = Len(batch)
  BY <1>1, <1>2, <1>4
<1>6. \A j \in DOMAIN batch :
        batch'[j] = IF j = i THEN [batch[i] EXCEPT !.marks = @ \cup {mark}]
                    ELSE batch[j]
  BY <1>1, <1>2
<1>7. Grown(batch, batch')
  <2>1. DOMAIN batch' = DOMAIN batch
    BY <1>1, <1>2
  <2>2. ASSUME NEW j \in DOMAIN batch
        PROVE  /\ batch'[j].id = batch[j].id /\ batch'[j].turn = batch[j].turn
               /\ batch'[j].verb = batch[j].verb
               /\ batch'[j].target = batch[j].target
               /\ batch[j].marks \subseteq batch'[j].marks
    <3>1. CASE j = i
      BY <1>3, <1>6, <3>1 DEF Event
    <3>2. CASE j # i
      BY <1>6, <3>2
    <3> QED
      BY <3>1, <3>2
  <2> QED
    BY <2>1, <2>2 DEF Grown
<1>8. Numbered'
  BY <1>1, <1>5, <1>7 DEF Grown, AdjInv, Numbered
<1> QED
  BY <1>1, <1>2, <1>5, <1>7, <1>8, GrowthKeepsAdjInv

LEMMA AdjudicateKeepsAdjInv == ASSUME AdjInv, Adjudicate PROVE AdjInv'
<1>1. /\ decisions' = AdjudicateEvents(batch)
      /\ UNCHANGED <<turn, batch, report>>
  BY DEF Adjudicate
<1>2. batch \in Seq(Event) /\ Numbered
  BY DEF AdjInv, TypeOK
<1>3. Len(batch) \in Nat /\ DOMAIN batch = 1..Len(batch)
  BY <1>2
<1>4. \A i \in 1..Len(batch) : batch[i].id = i
  BY <1>2, <1>3 DEF Numbered
<1>5. decisions' \in Seq(Decision) /\ DOMAIN decisions' = DOMAIN batch
  <2>1. decisions' \in Seq(Decision)
    BY <1>1, <1>3, <1>4, DecisionTyped
  <2> QED
    BY <2>1, <1>1 DEF AdjudicateEvents
<1>6. TypeOK'
  BY <1>1, <1>3, <1>5 DEF AdjInv, TypeOK
<1>7. DecisionsStand'
  <2> SUFFICES ASSUME NEW i \in DOMAIN batch
               PROVE  Stands(Decide(batch[i], batch), batch[i], batch)
    BY <1>1, <1>5, OneDecisionEach DEF DecisionsStand
  <2> QED
    BY DEF Stands, Decide
<1>8. ContestedSetsAgree'
  <2>1. DistinctIds(batch)
    BY <1>3, <1>4 DEF DistinctIds
  <2> QED
    BY <1>1, <2>1, AdjudicatedSetsAgree DEF AdjInv, ContestedSetsAgree
<1> QED
  BY <1>1, <1>2, <1>6, <1>7, <1>8 DEF AdjInv, Numbered

LEMMA RunWhiteCrewKeepsAdjInv == ASSUME AdjInv, RunWhiteCrew PROVE AdjInv'
<1>1. /\ report' = AdjudicateEvents(Synthetic(turn))
      /\ UNCHANGED <<turn, batch, decisions>>
  BY DEF RunWhiteCrew
<1>2. report' \in Seq(Decision)
  <2>1. /\ DOMAIN Synthetic(turn) = 1..6
        /\ \A i \in 1..6 : Synthetic(turn)[i].id \in Nat
    BY SyntheticIds
  <2>2. 6 \in Nat
    OBVIOUS
  <2> QED
    BY <1>1, <2>1, <2>2, DecisionTyped
<1>3. SetsAgree(report')
  <2>1. DistinctIds(Synthetic(turn))
    BY SyntheticIds DEF DistinctIds
  <2> QED
    BY <1>1, <2>1, AdjudicatedSetsAgree
<1> QED
  BY <1>1, <1>2, <1>3
  DEF AdjInv, TypeOK, Numbered, DecisionsStand, ContestedSetsAgree

\* Every step keeps the invariant.
LEMMA NextKeepsAdjInv == AdjInv /\ [Next]_vars => AdjInv'
<1> SUFFICES ASSUME AdjInv, [Next]_vars PROVE AdjInv'
  OBVIOUS
<1>1. ASSUME NEW profile \in Profile, NEW call \in Call, Commit(profile, call)
      PROVE  AdjInv'
  BY <1>1, CommitKeepsAdjInv
<1>2. ASSUME NEW i \in DOMAIN batch, NEW mark \in Annotation, Annotate(i, mark)
      PROVE  AdjInv'
  BY <1>2, AnnotateKeepsAdjInv
<1>3. CASE Adjudicate
  BY <1>3, AdjudicateKeepsAdjInv
<1>4. CASE RunWhiteCrew
  BY <1>4, RunWhiteCrewKeepsAdjInv
<1>5. CASE AdvanceTurn
  BY <1>5
  DEF AdvanceTurn, AdjInv, TypeOK, Numbered, DecisionsStand, ContestedSetsAgree
<1>6. CASE UNCHANGED vars
  BY <1>6 DEF vars, AdjInv, TypeOK, Numbered, DecisionsStand, ContestedSetsAgree
<1> QED
  BY <1>1, <1>2, <1>3, <1>4, <1>5, <1>6 DEF Next

\* Every reachable state is well typed; no decision is about an event that is
\* not in the batch.
THEOREM AdjudicationTyped == Spec => []TypeOK
<1>1. AdjInv => TypeOK
  BY DEF AdjInv
<1> QED
  BY <1>1, InitEstablishesAdjInv, NextKeepsAdjInv, PTL DEF Spec

\* In every adjudicated batch, and in every report of the white crew, flags and
\* conflict lists agree on one contested set for each target and turn.
THEOREM ContestedSetsAreOne == Spec => []ContestedSetsAgree
<1>1. AdjInv => ContestedSetsAgree
  BY DEF AdjInv
<1> QED
  BY <1>1, InitEstablishesAdjInv, NextKeepsAdjInv, PTL DEF Spec

\* A later adjudication never takes back a hold or a conflict (the batch grows
\* and payloads gain marks, and adjudicate_events is monotone in both).
THEOREM HoldsAreNeverTakenBack == Spec => HoldsStand
<1> DEFINE Kept ==
        \A i \in DOMAIN decisions :
          /\ i \in DOMAIN decisions' /\ decisions'[i].id = decisions[i].id
          /\ decisions[i].human_required => decisions'[i].human_required
          /\ decisions[i].contested => decisions'[i].contested
          /\ decisions[i].conflicts_with \subseteq decisions'[i].conflicts_with
<1>1. ASSUME AdjInv, [Next]_vars PROVE [Kept]_vars
  <2>1. CASE decisions' = decisions
    BY <2>1
  <2>2. CASE Adjudicate
    <3> SUFFICES ASSUME NEW i \in DOMAIN decisions
                 PROVE  /\ i \in DOMAIN decisions'
                        /\ decisions'[i].id = decisions[i].id
                        /\ decisions[i].human_required
                             => decisions'[i].human_required
                        /\ decisions[i].contested => decisions'[i].contested
                        /\ decisions[i].conflicts_with
                             \subseteq decisions'[i].conflicts_with
      OBVIOUS
    <3>1. i \in DOMAIN batch
      BY <1>1 DEF AdjInv, TypeOK
    <3>2. i \in DOMAIN decisions' /\ decisions'[i] = Decide(batch[i], batch)
      BY <2>2, <3>1, OneDecisionEach DEF Adjudicate
    <3>3. Stands(decisions[i], batch[i], batch)
      BY <1>1 DEF AdjInv, DecisionsStand
    <3>4. decisions'[i].human_required <=> StakeLevel(batch[i]) = "high"
      BY <3>2, DecisionFields
    <3>5. decisions'[i].contested <=> Contested(batch[i], batch)
      BY <3>2, DecisionFields
    <3>6. /\ decisions'[i].id = batch[i].id
          /\ decisions'[i].conflicts_with = Conflicts(batch[i], batch)
      BY <3>2, DecisionFields
    <3> QED
      BY <3>2, <3>3, <3>4, <3>5, <3>6 DEF Stands
  <2> QED
    BY <1>1, <2>1, <2>2
    DEF Next, vars, Commit, Annotate, RunWhiteCrew, AdvanceTurn
<1>2. Spec => []AdjInv
  BY InitEstablishesAdjInv, NextKeepsAdjInv, PTL DEF Spec
<1> QED
  BY <1>1, <1>2, PTL DEF Spec, HoldsStand

=============================================================================
