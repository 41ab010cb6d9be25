----------------------- MODULE OverrideGateway_proofs -----------------------
(***************************************************************************)
(* Machine-checked theorems about OverrideGateway, for any scenarios,      *)
(* agents, events, policies and number of calls.                           *)
(***************************************************************************)
EXTENDS VerdictHistory, WellFoundedInduction, FiniteSetTheorems, TLAPS

\* A non-empty set of naturals has a least element.
LEMMA MinExists ==
    ASSUME NEW S \in SUBSET Nat, S # {}
    PROVE  \E m \in S : \A k \in S : m <= k
<1> DEFINE R == OpToRel(<, Nat)
<1>1. IsWellFoundedOn(R, Nat)
  BY NatLessThanWellFounded
<1>2. \A x, y \in Nat : x < y => <<x, y>> \in R
  BY DEF OpToRel
<1> HIDE DEF R
<1>3. PICK m \in S : \A k \in S : <<k, m>> \notin R
  BY <1>1, WFMin
<1>4. \A k \in S : ~ (k < m)
  BY <1>2, <1>3
<1> QED
  BY <1>4

\* A non-empty set of ids up to n has a greatest one.
LEMMA MaxExists ==
    ASSUME NEW n \in Nat, NEW S \in SUBSET (1 .. n), S # {}
    PROVE  \E m \in S : \A k \in S : k <= m
<1> DEFINE D == {d \in 0 .. n : n - d \in S}
<1>1. \A k \in S : k \in 1 .. n /\ n - k \in 0 .. n /\ n - (n - k) = k
  OBVIOUS
<1>2. D \in SUBSET Nat /\ \A k \in S : n - k \in D
  BY <1>1
<1>3. PICK d \in D : \A k \in D : d <= k
  <2>1. D # {}
    BY <1>2
  <2> QED
    BY <1>2, <2>1, MinExists
<1>4. \A k \in S : d <= n - k
  BY <1>2, <1>3
<1> QED
  BY <1>1, <1>3, <1>4

-----------------------------------------------------------------------------
\* What a call has read so far, by where it stands.
Lookup == [event : events, policy : {NoPolicy} \cup DOMAIN policies]
Ruling == [event : events, outcome : Manual]
Revocation == [revokes : DOMAIN policies]

JobTyped(c) ==
    /\ pc[c] = "authoring" => job[c] \in Draft
    /\ pc[c] = "evaluating" => job[c] \in Lookup
    /\ pc[c] = "ruling" => job[c] \in Ruling
    /\ pc[c] = "done" => job[c] \in {Nothing} \cup Lookup \cup Ruling \cup Revocation

\* The inductive invariant under TypeOK.
Typed ==
    /\ TypeOK
    /\ DOMAIN job = Call /\ DOMAIN reply = Call
    /\ \A c \in Call : JobTyped(c)

\* The tables that only grow.
Grown ==
    /\ events \subseteq events'
    /\ \A p \in DOMAIN policies : p \in DOMAIN policies' /\ policies'[p] = policies[p]

\* The policy p is of the event's scenario, aimed at it and in force in its turn.
Applies(e, p) ==
    /\ policies[p].scenario = e.scenario
    /\ \E k \in 1 .. 3 : policies[p].target = Chain(e)[k]
    /\ e.turn - policies[p].created_in_turn \in 0 .. policies[p].ttl_turns

\* The rows of override_policies hold naturals.
LEMMA DraftFields ==
    ASSUME Typed, NEW p \in DOMAIN policies
    PROVE  /\ policies[p] \in Draft
           /\ p \in Nat \ {0}
           /\ policies[p].created_in_turn \in Nat
           /\ policies[p].ttl_turns \in Nat
<1>1. policies[p] \in Draft /\ p \in Nat \ {0}
  BY DEF Typed, TypeOK
<1>2. /\ policies[p].created_in_turn \in 0 .. MaxTurn
      /\ policies[p].ttl_turns \in Ttl
  BY <1>1 DEF Draft
<1>3. MaxTurn \in Nat /\ MaxInt \in Nat /\ Ttl \subseteq 0 .. MaxInt
  BY GatewayAssumption
<1>4. policies[p].created_in_turn \in Nat
  BY <1>2, <1>3
<1>5. policies[p].ttl_turns \in Nat
  <2>1. policies[p].ttl_turns \in 0 .. MaxInt
    BY <1>2, <1>3
  <2> QED
    BY <2>1, <1>3
<1> QED
  BY <1>1, <1>4, <1>5

\* What evaluateEvent decides is one of the four outcomes.
LEMMA VerdictOfPolicy ==
    ASSUME Typed, NEW p \in {NoPolicy} \cup DOMAIN policies
    PROVE  (IF p = NoPolicy THEN "default-review"
            ELSE ACTION_TO_OUTCOME[policies[p].action])
               \in {"auto-approve", "auto-block", "review-pending", "default-review"}
<1>1. CASE p = NoPolicy
  BY <1>1
<1>2. CASE p # NoPolicy
  <2>1. policies[p] \in Draft
    BY <1>2, DraftFields
  <2>2. policies[p].action \in {"auto-approve", "auto-block", "review"}
    BY <2>1, GatewayAssumption DEF Draft, ACTION_TO_OUTCOME
  <2> QED
    BY <1>2, <2>2 DEF ACTION_TO_OUTCOME
<1> QED
  BY <1>1, <1>2

\* An event's turn is a natural.
LEMMA EventFields ==
    ASSUME Typed, NEW e \in events
    PROVE  e.turn \in Nat
BY GatewayAssumption DEF Typed, TypeOK, Event, Turn

\* The priority at which an event finds a policy aimed at it is the policy's scope,
\* which does not depend on the event.
LEMMA PriorityIsScope ==
    ASSUME NEW e, NEW p, \E k \in 1 .. 3 : policies[p].target = Chain(e)[k]
    PROVE  /\ Scope(p) \in 1 .. 3
           /\ Priority(p, e) = Scope(p)
<1>1. PICK k \in 1 .. 3 : policies[p].target = Chain(e)[k]
  OBVIOUS
<1>2. /\ Chain(e)[1][1] = SCOPES[1] /\ Chain(e)[2][1] = SCOPES[2]
      /\ Chain(e)[3][1] = SCOPES[3]
  BY DEF Chain, SCOPES
<1>3. Priority(p, e) \in 1 .. 3 /\ policies[p].target = Chain(e)[Priority(p, e)]
  BY <1>1 DEF Priority
<1>4. \A i, j \in 1 .. 3 : SCOPES[i] = SCOPES[j] => i = j
  BY DEF SCOPES
<1>5. \A i \in 1 .. 3 : Chain(e)[i][1] = SCOPES[i]
  BY <1>2
<1>6. PICK n \in 1 .. 3 : n = Priority(p, e) /\ policies[p].target[1] = SCOPES[n]
  BY <1>3, <1>5
<1>7. Scope(p) \in 1 .. 3 /\ SCOPES[Scope(p)] = policies[p].target[1]
  BY <1>6 DEF Scope
<1> QED
  BY <1>4, <1>6, <1>7

\* Where policies in force are aimed at the event, findMatchingPolicy returns one of
\* them, of the narrowest scope, and of that scope the newest.
LEMMA FoundFirst ==
    ASSUME Typed, NEW e \in events,
           NEW r \in Aimed(e), InForce(r, e.turn)
    PROVE  LET p == FindMatchingPolicy(e)
           IN  /\ p \in Aimed(e) /\ InForce(p, e.turn)
               /\ \A q \in Aimed(e) : InForce(q, e.turn) => ComesFirst(p, q)
<1> DEFINE candidates == {p \in Aimed(e) : InForce(p, e.turn)}
           prior == {Priority(p, e) : p \in candidates}
<1>1. candidates # {}
  OBVIOUS
<1>2. \A p \in candidates : /\ p \in DOMAIN policies /\ p \in 1 .. Len(policies)
                            /\ Priority(p, e) \in 1 .. 3
                            /\ Scope(p) = Priority(p, e)
  BY PriorityIsScope DEF Aimed, Typed, TypeOK
<1>3. PICK k \in prior : \A j \in prior : k <= j
  <2>1. prior # {} /\ prior \in SUBSET Nat
    BY <1>1, <1>2
  <2> QED
    BY <2>1, MinExists
<1> DEFINE best == {p \in candidates : Priority(p, e) = k}
<1>4. PICK m \in best : \A p \in best : p <= m
  <2>1. best # {} /\ best \in SUBSET (1 .. Len(policies)) /\ Len(policies) \in Nat
    BY <1>2, <1>3 DEF Typed, TypeOK
  <2> QED
    BY <2>1, MaxExists
<1>5. m \in candidates /\ \A q \in candidates :
          \/ Priority(m, e) < Priority(q, e)
          \/ Priority(m, e) = Priority(q, e) /\ m >= q
  <2> SUFFICES ASSUME NEW q \in candidates
               PROVE  \/ Priority(m, e) < Priority(q, e)
                      \/ Priority(m, e) = Priority(q, e) /\ m >= q
    BY <1>4
  <2>1. m \in candidates /\ Priority(m, e) = k /\ k <= Priority(q, e)
    BY <1>3, <1>4
  <2>2. /\ Priority(m, e) \in Nat /\ Priority(q, e) \in Nat
        /\ m \in Nat /\ q \in Nat
    BY <1>2, <2>1
  <2>3. Priority(q, e) = k => q <= m
    BY <1>4
  <2> QED
    BY <2>1, <2>2, <2>3
<1> DEFINE p == FindMatchingPolicy(e)
<1>6. /\ p \in candidates
      /\ \A q \in candidates : \/ Priority(p, e) < Priority(q, e)
                               \/ Priority(p, e) = Priority(q, e) /\ p >= q
  <2> HIDE DEF candidates
  <2>1. p = CHOOSE x \in candidates : \A q \in candidates :
                \/ Priority(x, e) < Priority(q, e)
                \/ Priority(x, e) = Priority(q, e) /\ x >= q
    BY <1>1 DEF FindMatchingPolicy, candidates
  <2> QED
    BY <1>5, <2>1
<1>7. \A q \in candidates : ComesFirst(p, q)
  BY <1>2, <1>6 DEF ComesFirst
<1> QED
  BY <1>6, <1>7

\* What findMatchingPolicy returns is NoPolicy, when none in force is aimed at the
\* event, or such a policy that comes before the others.
LEMMA Found ==
    ASSUME Typed, NEW e \in events
    PROVE  LET p == FindMatchingPolicy(e)
           IN  \/ p = NoPolicy /\ \A q \in Aimed(e) : ~InForce(q, e.turn)
               \/ /\ p # NoPolicy
                  /\ p \in Aimed(e) /\ InForce(p, e.turn)
                  /\ \A q \in Aimed(e) : InForce(q, e.turn) => ComesFirst(p, q)
<1>1. CASE \A q \in Aimed(e) : ~InForce(q, e.turn)
  BY <1>1 DEF FindMatchingPolicy
<1>2. ASSUME NEW r \in Aimed(e), InForce(r, e.turn)
      PROVE  LET p == FindMatchingPolicy(e)
             IN  /\ p # NoPolicy
                 /\ p \in Aimed(e) /\ InForce(p, e.turn)
                 /\ \A q \in Aimed(e) : InForce(q, e.turn) => ComesFirst(p, q)
  <2> DEFINE p == FindMatchingPolicy(e)
  <2>1. /\ p \in Aimed(e) /\ InForce(p, e.turn)
        /\ \A q \in Aimed(e) : InForce(q, e.turn) => ComesFirst(p, q)
    BY <1>2, FoundFirst
  <2>2. p \in Nat
    BY <2>1 DEF Aimed, Typed, TypeOK
  <2> QED
    BY <2>1, <2>2, GatewayAssumption
<1> QED
  BY <1>1, <1>2

-----------------------------------------------------------------------------
\* No statement deletes or changes a policy or an event, nor takes back a
\* revocation.
LEMMA NextGrows == Typed /\ [Next]_vars => Grown /\ revoked \subseteq revoked'
<1> SUFFICES ASSUME Typed, [Next]_vars
             PROVE  Grown /\ revoked \subseteq revoked'
  OBVIOUS
<1>1. ASSUME NEW s \in Scenario, AdvanceTurn(s) \/ EmitEvent(s)
      PROVE  Grown /\ revoked \subseteq revoked'
  BY <1>1 DEF AdvanceTurn, EmitEvent, Grown
<1>2. ASSUME NEW c \in Call, InsertPolicy(c)
      PROVE  Grown /\ revoked \subseteq revoked'
  <2>1. policies \in Seq(Draft) /\ policies' = Append(policies, job[c])
        /\ UNCHANGED <<events, revoked>>
    BY <1>2 DEF InsertPolicy, Typed, TypeOK
  <2>2. \A p \in DOMAIN policies : p \in DOMAIN policies' /\ policies'[p] = policies[p]
    BY <2>1
  <2> QED
    BY <2>1, <2>2 DEF Grown
<1>3. ASSUME NEW c \in Call, RevokePolicy(c)
      PROVE  Grown /\ revoked \subseteq revoked'
  BY <1>3 DEF RevokePolicy, Grown
<1>4. ASSUME NEW c \in Call, RecordEvaluation(c) \/ RecordManual(c)
      PROVE  Grown /\ revoked \subseteq revoked'
  BY <1>4 DEF RecordEvaluation, RecordManual, Grown
<1>5. ASSUME NEW c \in Call,
             \/ ReadStamp(c) \/ NotFound(c) \/ LookUp(c) \/ LookUpOverflows(c)
             \/ FindEvent(c) \/ Fail(c)
      PROVE  Grown /\ revoked \subseteq revoked'
  BY <1>5 DEF ReadStamp, NotFound, LookUp, LookUpOverflows, FindEvent, Fail,
              Await, tables, Grown
<1>6. CASE UNCHANGED vars
  BY <1>6 DEF vars, tables, Grown
<1> QED
  BY <1>1, <1>2, <1>3, <1>4, <1>5, <1>6 DEF Next

\* A call that does not move keeps a well typed job when the tables grow.
LEMMA JobsStayTyped ==
    ASSUME Typed, Grown, NEW c \in Call,
           \A d \in Call \ {c} : pc'[d] = pc[d] /\ job'[d] = job[d],
           JobTyped(c)'
    PROVE  \A d \in Call : JobTyped(d)'
<1> SUFFICES ASSUME NEW d \in Call, d # c PROVE JobTyped(d)'
  OBVIOUS
<1>1. DOMAIN policies \subseteq DOMAIN policies' /\ events \subseteq events'
  BY DEF Grown
<1>2. Lookup \subseteq Lookup' /\ Ruling \subseteq Ruling'
      /\ Revocation \subseteq Revocation'
  BY <1>1 DEF Lookup, Ruling, Revocation
<1> QED
  BY <1>2 DEF Typed, JobTyped

\* The gateway starts well typed.
LEMMA TypedInit == Init => Typed
BY GatewayAssumption DEF Init, Typed, TypeOK, JobTyped

\* An answered call is well typed.
LEMMA FinishTyped ==
    ASSUME Typed, Grown, NEW c \in Call, NEW answer, NEW about,
           Finish(c, answer, about),
           about \in ({Nothing} \cup Lookup \cup Ruling \cup Revocation)'
    PROVE  /\ DOMAIN job' = Call /\ DOMAIN reply' = Call
           /\ pc' \in [Call -> {"idle", "authoring", "evaluating", "ruling", "done"}]
           /\ \A d \in Call : JobTyped(d)'
<1>1. /\ DOMAIN job = Call /\ DOMAIN reply = Call
      /\ pc \in [Call -> {"idle", "authoring", "evaluating", "ruling", "done"}]
  BY DEF Typed, TypeOK
<1>2. /\ DOMAIN job' = Call /\ DOMAIN reply' = Call
      /\ pc' \in [Call -> {"idle", "authoring", "evaluating", "ruling", "done"}]
      /\ pc'[c] = "done" /\ job'[c] = about
      /\ \A d \in Call \ {c} : pc'[d] = pc[d] /\ job'[d] = job[d]
  BY <1>1 DEF Finish
<1>3. JobTyped(c)'
  BY <1>2 DEF JobTyped
<1> QED
  BY <1>2, <1>3, JobsStayTyped

\* A call that waits for its second query is well typed.
LEMMA AwaitTyped ==
    ASSUME Typed, NEW c \in Call, NEW read,
           NEW label \in {"authoring", "evaluating", "ruling"},
           Await(c, label, read),
           label = "authoring" => read \in Draft,
           label = "evaluating" => read \in Lookup,
           label = "ruling" => read \in Ruling
    PROVE  Typed'
<1>1. /\ DOMAIN job = Call /\ DOMAIN reply = Call
      /\ pc \in [Call -> {"idle", "authoring", "evaluating", "ruling", "done"}]
  BY DEF Typed, TypeOK
<1>2. /\ DOMAIN job' = Call /\ UNCHANGED <<tables, reply>>
      /\ pc' \in [Call -> {"idle", "authoring", "evaluating", "ruling", "done"}]
      /\ pc'[c] = label /\ job'[c] = read
      /\ \A d \in Call \ {c} : pc'[d] = pc[d] /\ job'[d] = job[d]
  BY <1>1 DEF Await
<1>3. JobTyped(c)'
  BY <1>2 DEF JobTyped, Lookup, Ruling, tables
<1>4. Grown
  BY <1>2 DEF Grown, tables
<1>5. \A d \in Call : JobTyped(d)'
  BY <1>2, <1>3, <1>4, JobsStayTyped
<1> QED
  BY <1>1, <1>2, <1>5 DEF Typed, TypeOK, tables

\* Every step keeps the types.
LEMMA TypedStep == Typed /\ [Next]_vars => Typed'
<1> SUFFICES ASSUME Typed, [Next]_vars PROVE Typed'
  OBVIOUS
<1> USE NextGrows
<1>1. ASSUME NEW s \in Scenario, AdvanceTurn(s) PROVE Typed'
  <2>1. current_turn' \in [Scenario -> 0 .. MaxTurn]
    BY <1>1, GatewayAssumption DEF AdvanceTurn, Typed, TypeOK
  <2> QED
    BY <1>1, <2>1 DEF AdvanceTurn, Typed, TypeOK, JobTyped, Lookup, Ruling, Revocation
<1>2. ASSUME NEW s \in Scenario, EmitEvent(s) PROVE Typed'
  <2>1. PICK id \in EventId, a \in Agent :
            events' = events \cup {[id |-> id, scenario |-> s, agent |-> a,
                                    turn |-> current_turn[s] + 1]}
    BY <1>2 DEF EmitEvent
  <2>2. current_turn[s] + 1 \in Turn
    BY GatewayAssumption DEF Typed, TypeOK, Turn
  <2>3. events' \subseteq Event
    BY <2>1, <2>2 DEF Typed, TypeOK, Event
  <2>4. \A c \in Call : JobTyped(c)'
    <3>1. UNCHANGED <<policies, pc, job>>
      BY <1>2 DEF EmitEvent
    <3>2. Lookup \subseteq Lookup' /\ Ruling \subseteq Ruling'
          /\ Revocation = Revocation'
      BY <2>1, <3>1 DEF Lookup, Ruling, Revocation
    <3> QED
      BY <3>1, <3>2 DEF Typed, JobTyped
  <2> QED
    BY <1>2, <2>1, <2>3, <2>4 DEF EmitEvent, Typed, TypeOK
<1>3. ASSUME NEW c \in Call, ReadStamp(c) PROVE Typed'
  <2>1. PICK s \in Scenario, target \in Target, action \in Action, ttl \in Ttl :
            Await(c, "authoring",
                  [scenario |-> s, target |-> target, action |-> action,
                   ttl_turns |-> ttl, created_in_turn |-> current_turn[s]])
    BY <1>3 DEF ReadStamp
  <2>2. current_turn[s] \in 0 .. MaxTurn
    BY DEF Typed, TypeOK
  <2>3. [scenario |-> s, target |-> target, action |-> action,
         ttl_turns |-> ttl, created_in_turn |-> current_turn[s]] \in Draft
    BY <2>2 DEF Draft
  <2> QED
    BY <2>1, <2>3, AwaitTyped
<1>4. ASSUME NEW c \in Call, InsertPolicy(c) PROVE Typed'
  <2>1. job[c] \in Draft
    BY <1>4 DEF InsertPolicy, Typed, JobTyped
  <2>2. policies' \in Seq(Draft)
    BY <1>4, <2>1 DEF InsertPolicy, Typed, TypeOK
  <2>3. Grown
    OBVIOUS
  <2>4. \E answer : Finish(c, answer, Nothing)
    BY <1>4 DEF InsertPolicy, Committed
  <2>5. /\ DOMAIN job' = Call /\ DOMAIN reply' = Call
        /\ pc' \in [Call -> {"idle", "authoring", "evaluating", "ruling", "done"}]
        /\ \A d \in Call : JobTyped(d)'
    BY <2>3, <2>4, FinishTyped
  <2>6. revoked' \subseteq DOMAIN policies'
    BY <1>4, <2>3 DEF InsertPolicy, Grown, Typed, TypeOK
  <2>7. decisions' \subseteq
         [call : Call, event : events', policy : {NoPolicy} \cup DOMAIN policies',
          outcome : {"auto-approve", "auto-block", "review-pending",
                     "default-review"} \cup Manual]
    BY <1>4, <2>3 DEF InsertPolicy, Grown, Typed, TypeOK
  <2> QED
    BY <1>4, <2>2, <2>5, <2>6, <2>7 DEF InsertPolicy, Typed, TypeOK
<1>5. ASSUME NEW c \in Call, RevokePolicy(c) PROVE Typed'
  <2>1. PICK p \in DOMAIN policies \ revoked :
            revoked' = revoked \cup {p} /\ Committed(c, "200", [revokes |-> p])
    BY <1>5 DEF RevokePolicy
  <2>2. [revokes |-> p] \in Revocation'
    BY <1>5 DEF RevokePolicy, Revocation
  <2>3. \E answer : Finish(c, answer, [revokes |-> p])
    BY <2>1 DEF Committed
  <2>4. /\ DOMAIN job' = Call /\ DOMAIN reply' = Call
        /\ pc' \in [Call -> {"idle", "authoring", "evaluating", "ruling", "done"}]
        /\ \A d \in Call : JobTyped(d)'
    BY <2>2, <2>3, FinishTyped
  <2> QED
    BY <1>5, <2>1, <2>4 DEF RevokePolicy, Typed, TypeOK
<1>6. ASSUME NEW c \in Call, NotFound(c) \/ LookUpOverflows(c) \/ Fail(c)
      PROVE  Typed'
  <2>1. UNCHANGED tables /\ \E answer : Finish(c, answer, Nothing)
    BY <1>6 DEF NotFound, LookUpOverflows, Fail
  <2>2. /\ DOMAIN job' = Call /\ DOMAIN reply' = Call
        /\ pc' \in [Call -> {"idle", "authoring", "evaluating", "ruling", "done"}]
        /\ \A d \in Call : JobTyped(d)'
    BY <2>1, FinishTyped
  <2> QED
    BY <2>1, <2>2 DEF Typed, TypeOK, tables
<1>7. ASSUME NEW c \in Call, LookUp(c) PROVE Typed'
  <2>1. PICK e \in events :
            Await(c, "evaluating", [event |-> e, policy |-> FindMatchingPolicy(e)])
    BY <1>7 DEF LookUp
  <2>2. FindMatchingPolicy(e) \in {NoPolicy} \cup DOMAIN policies
    BY Found DEF Aimed
  <2> QED
    BY <2>1, <2>2, AwaitTyped DEF Lookup
<1>8. ASSUME NEW c \in Call, FindEvent(c) PROVE Typed'
  <2>1. PICK e \in events, ruling \in Manual :
            Await(c, "ruling", [event |-> e, outcome |-> ruling])
    BY <1>8 DEF FindEvent
  <2> QED
    BY <2>1, AwaitTyped DEF Ruling
<1>9. ASSUME NEW c \in Call, RecordEvaluation(c) PROVE Typed'
  <2> DEFINE p == job[c].policy
             outcome == IF p = NoPolicy THEN "default-review"
                        ELSE ACTION_TO_OUTCOME[policies[p].action]
             row == [call |-> c, event |-> job[c].event, policy |-> p,
                     outcome |-> outcome]
  <2>1. job[c] \in Lookup
    BY <1>9 DEF RecordEvaluation, Typed, JobTyped
  <2>2. job[c].event \in events /\ p \in {NoPolicy} \cup DOMAIN policies
    BY <2>1 DEF Lookup
  <2>3. outcome \in {"auto-approve", "auto-block", "review-pending", "default-review"}
    BY <2>2, VerdictOfPolicy
  <2>4. decisions' = decisions \cup {row} /\ Committed(c, outcome, job[c])
        /\ UNCHANGED <<current_turn, events, policies, revoked>>
    BY <1>9 DEF RecordEvaluation
  <2> HIDE DEF outcome
  <2>5. row \in [call : Call, event : events, policy : {NoPolicy} \cup DOMAIN policies,
                 outcome : {"auto-approve", "auto-block", "review-pending",
                            "default-review"} \cup Manual]
    BY <2>2, <2>3
  <2>6. \E answer : Finish(c, answer, job[c])
    BY <2>4 DEF Committed
  <2>7. job[c] \in Lookup'
    BY <2>1, <2>4 DEF Lookup
  <2>8. /\ DOMAIN job' = Call /\ DOMAIN reply' = Call
        /\ pc' \in [Call -> {"idle", "authoring", "evaluating", "ruling", "done"}]
        /\ \A d \in Call : JobTyped(d)'
    BY <2>6, <2>7, FinishTyped
  <2> HIDE DEF row
  <2> QED
    BY <2>4, <2>5, <2>8 DEF Typed, TypeOK
<1>10. ASSUME NEW c \in Call, RecordManual(c) PROVE Typed'
  <2> DEFINE row == [call |-> c, event |-> job[c].event, policy |-> NoPolicy,
                     outcome |-> job[c].outcome]
  <2>1. job[c] \in Ruling
    BY <1>10 DEF RecordManual, Typed, JobTyped
  <2>2. decisions' = decisions \cup {row} /\ Committed(c, "201", job[c])
        /\ UNCHANGED <<current_turn, events, policies, revoked>>
    BY <1>10 DEF RecordManual
  <2>3. row \in [call : Call, event : events, policy : {NoPolicy} \cup DOMAIN policies,
                 outcome : {"auto-approve", "auto-block", "review-pending",
                            "default-review"} \cup Manual]
    BY <2>1 DEF Ruling
  <2>4. \E answer : Finish(c, answer, job[c])
    BY <2>2 DEF Committed
  <2>5. job[c] \in Ruling'
    BY <2>1, <2>2 DEF Ruling
  <2>6. /\ DOMAIN job' = Call /\ DOMAIN reply' = Call
        /\ pc' \in [Call -> {"idle", "authoring", "evaluating", "ruling", "done"}]
        /\ \A d \in Call : JobTyped(d)'
    BY <2>4, <2>5, FinishTyped
  <2> HIDE DEF row
  <2> QED
    BY <2>2, <2>3, <2>6 DEF Typed, TypeOK
<1>11. CASE UNCHANGED vars
  BY <1>11 DEF vars, tables, Typed, TypeOK, JobTyped, Lookup, Ruling, Revocation
<1> QED
  BY <1>1, <1>2, <1>3, <1>4, <1>5, <1>6, <1>7, <1>8, <1>9, <1>10, <1>11 DEF Next

-----------------------------------------------------------------------------
\* Every reachable state of the gateway is well typed.
LEMMA TypedInvariant == Spec => []Typed
<1>1. Init => Typed
  BY TypedInit
<1>2. Typed /\ [Next]_vars => Typed'
  BY TypedStep
<1> QED
  BY <1>1, <1>2, PTL DEF Spec

\* Every variable keeps its type, and no decision cites a policy or an event that
\* is not there, for all values of the constants.
THEOREM GatewayTyped == Spec => []TypeOK
<1>1. Typed => TypeOK
  BY DEF Typed
<1> QED
  BY <1>1, TypedInvariant, PTL

-----------------------------------------------------------------------------
\* The policy p, if it is one, applies to the event e.
Rightful(e, p) == p # NoPolicy => Applies(e, p)

\* Verdicts are right in the log, and before they are in it.
Verdicts ==
    /\ \A c \in Call : pc[c] = "evaluating" => Rightful(job[c].event, job[c].policy)
    /\ \A d \in decisions : Rightful(d.event, d.policy)

\* The policy findMatchingPolicy returns applies to the event.
LEMMA FoundRightful ==
    ASSUME Typed, NEW e \in events
    PROVE  Rightful(e, FindMatchingPolicy(e))
<1> DEFINE p == FindMatchingPolicy(e)
<1> SUFFICES ASSUME p # NoPolicy PROVE Applies(e, p)
  BY DEF Rightful
<1> HIDE DEF p
<1>1. p \in Aimed(e) /\ InForce(p, e.turn)
  BY Found DEF p
<1>2. p \in DOMAIN policies
  BY <1>1 DEF Aimed
<1>3. policies[p].created_in_turn \in Nat /\ policies[p].ttl_turns \in Nat
      /\ e.turn \in Nat
  BY <1>2, DraftFields, EventFields
<1>4. e.turn - policies[p].created_in_turn \in 0 .. policies[p].ttl_turns
  BY <1>1, <1>3 DEF InForce
<1> QED
  BY <1>1, <1>4 DEF Applies, Aimed

\* A policy that applies to an event goes on doing so: the turn window is the
\* event's, and a revocation does not change it.
LEMMA StaysRightful ==
    ASSUME Typed, Grown, NEW e,
           NEW p \in {NoPolicy} \cup DOMAIN policies, Rightful(e, p)
    PROVE  Rightful(e, p)'
<1> SUFFICES ASSUME p # NoPolicy PROVE Rightful(e, p)'
  BY DEF Rightful
<1>1. Applies(e, p) /\ policies'[p] = policies[p]
  BY DEF Rightful, Grown
<1> QED
  BY <1>1 DEF Rightful, Applies

\* Only a lookup makes an evaluation.
LEMMA NoNewEvaluation ==
    ASSUME Typed, NEW c \in Call, pc'[c] = "evaluating",
           \/ \E s \in Scenario : AdvanceTurn(s) \/ EmitEvent(s)
           \/ \E k \in Call :
                 \/ ReadStamp(k) \/ FindEvent(k)
                 \/ InsertPolicy(k) \/ RevokePolicy(k) \/ NotFound(k)
                 \/ LookUpOverflows(k) \/ RecordEvaluation(k)
                 \/ RecordManual(k) \/ Fail(k)
           \/ UNCHANGED vars
    PROVE  pc[c] = "evaluating" /\ job'[c] = job[c]
<1>1. ASSUME NEW k \in Call, NEW answer, NEW about, Finish(k, answer, about)
      PROVE  pc[c] = "evaluating" /\ job'[c] = job[c]
  BY <1>1 DEF Finish, Typed, TypeOK
<1>2. ASSUME NEW k \in Call, NEW label, NEW read, Await(k, label, read),
             label # "evaluating"
      PROVE  pc[c] = "evaluating" /\ job'[c] = job[c]
  BY <1>2 DEF Await, Typed, TypeOK
<1>3. ASSUME NEW s \in Scenario, AdvanceTurn(s) \/ EmitEvent(s)
      PROVE  pc[c] = "evaluating" /\ job'[c] = job[c]
  BY <1>3 DEF AdvanceTurn, EmitEvent
<1>4. ASSUME NEW k \in Call, ReadStamp(k) \/ FindEvent(k)
      PROVE  pc[c] = "evaluating" /\ job'[c] = job[c]
  <2>1. CASE ReadStamp(k)
    <3>1. PICK read : Await(k, "authoring", read)
      BY <2>1 DEF ReadStamp
    <3> QED
      BY <1>2, <3>1
  <2>2. CASE FindEvent(k)
    <3>1. PICK read : Await(k, "ruling", read)
      BY <2>2 DEF FindEvent
    <3> QED
      BY <1>2, <3>1
  <2> QED
    BY <1>4, <2>1, <2>2
<1>5. ASSUME NEW k \in Call,
             \/ InsertPolicy(k) \/ RevokePolicy(k) \/ NotFound(k)
             \/ LookUpOverflows(k) \/ RecordEvaluation(k) \/ RecordManual(k)
             \/ Fail(k)
      PROVE  pc[c] = "evaluating" /\ job'[c] = job[c]
  <2>1. \E answer, about : Finish(k, answer, about)
    BY <1>5 DEF InsertPolicy, RevokePolicy, NotFound, LookUpOverflows,
                RecordEvaluation, RecordManual, Fail, Committed
  <2> QED
    BY <1>1, <2>1
<1>6. CASE UNCHANGED vars
  BY <1>6 DEF vars
<1> QED
  BY <1>3, <1>4, <1>5, <1>6

\* A row that is new in the log is a manual ruling's, or cites what its evaluation
\* had found.
LEMMA NewRows ==
    ASSUME Typed, [Next]_vars, NEW d \in decisions', d \notin decisions
    PROVE  \/ d.policy = NoPolicy /\ d.outcome \in Manual
           \/ /\ d.call \in Call /\ pc[d.call] = "evaluating"
              /\ d.event = job[d.call].event /\ d.policy = job[d.call].policy
<1>1. ASSUME NEW c \in Call, RecordEvaluation(c)
      PROVE  /\ d.call \in Call /\ pc[d.call] = "evaluating"
             /\ d.event = job[d.call].event /\ d.policy = job[d.call].policy
  <2>1. d.call = c /\ d.event = job[c].event /\ d.policy = job[c].policy
    BY <1>1 DEF RecordEvaluation
  <2> QED
    BY <1>1, <2>1 DEF RecordEvaluation
<1>2. ASSUME NEW c \in Call, RecordManual(c)
      PROVE  d.policy = NoPolicy /\ d.outcome \in Manual
  BY <1>2 DEF RecordManual, Typed, JobTyped, Ruling
<1>3. ASSUME NEW k \in Call, ReadStamp(k) \/ FindEvent(k) \/ LookUp(k) PROVE FALSE
  BY <1>3 DEF ReadStamp, FindEvent, LookUp, Await, tables
<1>4. ASSUME NEW k \in Call,
             \/ InsertPolicy(k) \/ RevokePolicy(k) \/ NotFound(k)
             \/ LookUpOverflows(k) \/ Fail(k)
      PROVE  FALSE
  BY <1>4 DEF InsertPolicy, RevokePolicy, NotFound, LookUpOverflows, Fail, tables
<1>5. ASSUME NEW s \in Scenario, AdvanceTurn(s) \/ EmitEvent(s) PROVE FALSE
  BY <1>5 DEF AdvanceTurn, EmitEvent
<1>6. CASE UNCHANGED vars
  BY <1>6 DEF vars, tables
<1> QED
  BY <1>1, <1>2, <1>3, <1>4, <1>5, <1>6 DEF Next

\* The lookup of c keeps what it found, and disturbs nothing else.
LEMMA LookUpFinds ==
    ASSUME Typed, NEW c \in Call, LookUp(c)
    PROVE  /\ \E e \in events : job'[c].event = e
                                /\ job'[c].policy = FindMatchingPolicy(e)
           /\ pc[c] = "idle" /\ pc'[c] = "evaluating" /\ UNCHANGED tables
           /\ \A k \in Call \ {c} : pc'[k] = pc[k] /\ job'[k] = job[k]
<1>1. PICK e \in events :
          Await(c, "evaluating", [event |-> e, policy |-> FindMatchingPolicy(e)])
  BY DEF LookUp
<1>2. PICK read : read = [event |-> e, policy |-> FindMatchingPolicy(e)]
  OBVIOUS
<1>3. DOMAIN job = Call /\ DOMAIN pc = Call
  BY DEF Typed, TypeOK
<1>4. /\ job'[c] = read /\ pc[c] = "idle" /\ pc'[c] = "evaluating"
      /\ UNCHANGED tables
      /\ \A k \in Call \ {c} : pc'[k] = pc[k] /\ job'[k] = job[k]
  BY <1>1, <1>2, <1>3 DEF Await
<1> QED
  BY <1>2, <1>4

\* Every step keeps the verdicts, given and under way, right.
LEMMA VerdictsStep == Typed /\ Verdicts /\ [Next]_vars => Verdicts'
<1> SUFFICES ASSUME Typed, Verdicts, [Next]_vars PROVE Verdicts'
  OBVIOUS
<1>1. \A e, p : p \in {NoPolicy} \cup DOMAIN policies /\ Rightful(e, p)
                   => Rightful(e, p)'
  BY NextGrows, StaysRightful
<1>2. ASSUME NEW c \in Call, pc[c] = "evaluating"
      PROVE  \E e, p : /\ e = job[c].event /\ p = job[c].policy
                       /\ Rightful(e, p)'
  <2>1. PICK e, p : e = job[c].event /\ p = job[c].policy
    OBVIOUS
  <2>2. p \in {NoPolicy} \cup DOMAIN policies
    BY <1>2, <2>1 DEF Typed, JobTyped, Lookup
  <2>3. Rightful(e, p)
    BY <1>2, <2>1 DEF Verdicts
  <2> QED
    BY <1>1, <2>1, <2>2, <2>3
<1>3. ASSUME NEW c \in Call, pc'[c] = "evaluating"
      PROVE  Rightful(job[c].event, job[c].policy)'
  <2>1. \E e, p : e = job'[c].event /\ p = job'[c].policy /\ Rightful(e, p)'
    <3>1. CASE LookUp(c)
      <4>1. PICK e \in events : /\ job'[c].event = e
                                /\ job'[c].policy = FindMatchingPolicy(e)
        BY <3>1, LookUpFinds
      <4>2. PICK p : p = FindMatchingPolicy(e)
        OBVIOUS
      <4>3. p \in {NoPolicy} \cup DOMAIN policies /\ Rightful(e, p)
        BY <4>2, Found, FoundRightful DEF Aimed
      <4> QED
        BY <1>1, <4>1, <4>2, <4>3
    <3>2. CASE pc[c] = "evaluating" /\ job'[c] = job[c]
      BY <1>2, <3>2
    <3>3. ASSUME NEW k \in Call, k # c, LookUp(k)
          PROVE  pc[c] = "evaluating" /\ job'[c] = job[c]
      BY <1>3, <3>3, LookUpFinds
    <3> QED
      BY <1>3, <3>1, <3>2, <3>3, NoNewEvaluation DEF Next
  <2> QED
    BY <2>1 DEF Rightful, Applies
<1>4. ASSUME NEW d \in decisions' PROVE Rightful(d.event, d.policy)'
  <2>1. CASE d \in decisions
    <3>1. d.policy \in {NoPolicy} \cup DOMAIN policies
      BY <2>1 DEF Typed, TypeOK
    <3> QED
      BY <1>1, <2>1, <3>1 DEF Verdicts
  <2>2. CASE d.policy = NoPolicy
    BY <2>2 DEF Rightful
  <2>3. CASE /\ d.call \in Call /\ pc[d.call] = "evaluating"
             /\ d.event = job[d.call].event /\ d.policy = job[d.call].policy
    <3>1. PICK e, p : /\ e = d.event /\ p = d.policy
                      /\ Rightful(e, p)'
      BY <1>2, <2>3
    <3> QED
      BY <3>1 DEF Rightful, Applies
  <2> QED
    BY <2>1, <2>2, <2>3, NewRows
<1> QED
  BY <1>3, <1>4 DEF Verdicts

\* In every reachable state the verdicts are right.
LEMMA VerdictsInvariant == Spec => [](Typed /\ Verdicts)
<1>1. Init => Typed /\ Verdicts
  BY TypedInit DEF Init, Verdicts
<1>2. Typed /\ Verdicts /\ [Next]_vars => (Typed /\ Verdicts)'
  BY TypedStep, VerdictsStep
<1> QED
  BY <1>1, <1>2, PTL DEF Spec

\* evaluateEvent: a verdict cites a policy of the event's scenario, aimed at it and
\* in force in its turn, whatever happens between the lookup and the row.
THEOREM VerdictsCiteRightly == Spec => []CitedPolicyApplied
<1>1. Verdicts => CitedPolicyApplied
  BY DEF Verdicts, Rightful, Applies, CitedPolicyApplied
<1> QED
  BY <1>1, VerdictsInvariant, PTL

-----------------------------------------------------------------------------
\* What a call is told of the row d.
Told(d) == IF d.outcome \in Manual THEN "201" ELSE d.outcome

\* The ways a call k can go on.
Waits(k) == pc'[k] # "done" /\ UNCHANGED <<decisions, revoked>>
Refused(k) ==
    pc'[k] = "done" /\ job'[k] = Nothing /\ UNCHANGED <<decisions, revoked>>
Revokes(k) ==
    /\ pc'[k] = "done" /\ decisions' = decisions
    /\ \E p \in DOMAIN policies \ revoked :
          revoked' = revoked \cup {p} /\ job'[k] = [revokes |-> p]
Records(k) ==
    /\ pc'[k] = "done" /\ revoked' = revoked
    /\ job'[k] \in Lookup \cup Ruling
    /\ \E d \in [call : {k}, event : {job'[k].event},
                 policy : {NoPolicy} \cup DOMAIN policies,
                 outcome : {"auto-approve", "auto-block", "review-pending",
                            "default-review"} \cup Manual] :
          decisions' = decisions \cup {d} /\ reply'[k] \in {"500", Told(d)}

Still == UNCHANGED <<pc, job, reply, decisions, revoked>>
Moves(k) ==
    /\ pc[k] # "done"
    /\ \A c \in Call \ {k} : pc'[c] = pc[c] /\ job'[c] = job[c]
                             /\ reply'[c] = reply[c]
    /\ Waits(k) \/ Refused(k) \/ Revokes(k) \/ Records(k)

\* Every step is one call that waits, is refused, revokes or records, or leaves the
\* calls and the log alone.
LEMMA OneCallMoves == Typed /\ [Next]_vars => Still \/ \E k \in Call : Moves(k)
<1> SUFFICES ASSUME Typed, [Next]_vars
             PROVE  Still \/ \E k \in Call : Moves(k)
  OBVIOUS
<1>1. /\ DOMAIN job = Call /\ DOMAIN reply = Call
      /\ pc \in [Call -> {"idle", "authoring", "evaluating", "ruling", "done"}]
  BY DEF Typed, TypeOK
<1>2. ASSUME NEW k \in Call, NEW label, NEW read, Await(k, label, read),
             label # "done"
      PROVE  Moves(k)
  BY <1>1, <1>2 DEF Await, Moves, Waits, tables
<1>3. ASSUME NEW k \in Call, NEW answer, NEW about, Finish(k, answer, about)
      PROVE  /\ pc'[k] = "done" /\ job'[k] = about /\ reply'[k] = answer
             /\ \A c \in Call \ {k} : pc'[c] = pc[c] /\ job'[c] = job[c]
                                      /\ reply'[c] = reply[c]
  BY <1>1, <1>3 DEF Finish
<1>4. ASSUME NEW k \in Call, ReadStamp(k) PROVE Moves(k)
  <2>1. PICK read : Await(k, "authoring", read)
    BY <1>4 DEF ReadStamp
  <2> QED
    BY <1>2, <2>1
<1>5. ASSUME NEW k \in Call, LookUp(k) PROVE Moves(k)
  <2>1. PICK read : Await(k, "evaluating", read)
    BY <1>5 DEF LookUp
  <2> QED
    BY <1>2, <2>1
<1>6. ASSUME NEW k \in Call, FindEvent(k) PROVE Moves(k)
  <2>1. PICK read : Await(k, "ruling", read)
    BY <1>6 DEF FindEvent
  <2> QED
    BY <1>2, <2>1
<1>7. ASSUME NEW k \in Call,
             InsertPolicy(k) \/ NotFound(k) \/ LookUpOverflows(k) \/ Fail(k)
      PROVE  Moves(k)
  <2>1. /\ pc[k] # "done" /\ UNCHANGED <<decisions, revoked>>
        /\ \E answer : Finish(k, answer, Nothing)
    BY <1>7 DEF InsertPolicy, NotFound, LookUpOverflows, Fail, Committed, tables
  <2> QED
    BY <1>3, <2>1 DEF Moves, Refused
<1>8. ASSUME NEW k \in Call, RevokePolicy(k) PROVE Moves(k)
  <2>1. PICK p \in DOMAIN policies \ revoked :
            revoked' = revoked \cup {p} /\ Committed(k, "200", [revokes |-> p])
    BY <1>8 DEF RevokePolicy
  <2>2. /\ pc[k] # "done" /\ decisions' = decisions
        /\ \E answer : Finish(k, answer, [revokes |-> p])
    BY <1>8, <2>1 DEF RevokePolicy, Committed
  <2> QED
    BY <1>3, <2>1, <2>2 DEF Moves, Revokes
<1>9. ASSUME NEW k \in Call, RecordEvaluation(k) PROVE Moves(k)
  <2>1. PICK p : p = job[k].policy
    OBVIOUS
  <2>2. PICK outcome : outcome = IF p = NoPolicy THEN "default-review"
                                 ELSE ACTION_TO_OUTCOME[policies[p].action]
    OBVIOUS
  <2>3. job[k] \in Lookup /\ p \in {NoPolicy} \cup DOMAIN policies
    BY <1>9, <2>1 DEF RecordEvaluation, Typed, JobTyped, Lookup
  <2>4. outcome \in {"auto-approve", "auto-block", "review-pending", "default-review"}
    BY <2>2, <2>3, VerdictOfPolicy
  <2>5. PICK d : d = [call |-> k, event |-> job[k].event, policy |-> p,
                      outcome |-> outcome]
    OBVIOUS
  <2>6. /\ pc[k] # "done" /\ revoked' = revoked
        /\ decisions' = decisions \cup {d}
        /\ Committed(k, outcome, job[k])
    BY <1>9, <2>1, <2>2, <2>5 DEF RecordEvaluation
  <2>7. PICK answer \in {outcome, "500"} : Finish(k, answer, job[k])
    BY <2>6 DEF Committed
  <2>8. Told(d) = outcome
    BY <2>4, <2>5 DEF Told, Manual
  <2>9. /\ pc'[k] = "done" /\ job'[k] = job[k] /\ reply'[k] \in {"500", Told(d)}
        /\ \A c \in Call \ {k} : pc'[c] = pc[c] /\ job'[c] = job[c]
                                 /\ reply'[c] = reply[c]
    BY <1>3, <2>7, <2>8
  <2>10. d \in [call : {k}, event : {job'[k].event},
                policy : {NoPolicy} \cup DOMAIN policies,
                outcome : {"auto-approve", "auto-block", "review-pending",
                           "default-review"} \cup Manual]
    BY <2>3, <2>4, <2>5, <2>9
  <2> QED
    BY <2>3, <2>6, <2>9, <2>10 DEF Moves, Records
<1>10. ASSUME NEW k \in Call, RecordManual(k) PROVE Moves(k)
  <2>1. job[k] \in Ruling
    BY <1>10 DEF RecordManual, Typed, JobTyped
  <2>2. PICK d : d = [call |-> k, event |-> job[k].event, policy |-> NoPolicy,
                      outcome |-> job[k].outcome]
    OBVIOUS
  <2>3. /\ pc[k] # "done" /\ revoked' = revoked
        /\ decisions' = decisions \cup {d}
        /\ Committed(k, "201", job[k])
    BY <1>10, <2>2 DEF RecordManual
  <2>4. PICK answer \in {"201", "500"} : Finish(k, answer, job[k])
    BY <2>3 DEF Committed
  <2>5. Told(d) = "201"
    BY <2>1, <2>2 DEF Told, Ruling
  <2>6. /\ pc'[k] = "done" /\ job'[k] = job[k] /\ reply'[k] \in {"500", Told(d)}
        /\ \A c \in Call \ {k} : pc'[c] = pc[c] /\ job'[c] = job[c]
                                 /\ reply'[c] = reply[c]
    BY <1>3, <2>4, <2>5
  <2>7. d \in [call : {k}, event : {job'[k].event},
               policy : {NoPolicy} \cup DOMAIN policies,
               outcome : {"auto-approve", "auto-block", "review-pending",
                          "default-review"} \cup Manual]
    BY <2>1, <2>2, <2>6 DEF Ruling
  <2> QED
    BY <2>1, <2>3, <2>6, <2>7 DEF Moves, Records
<1>11. ASSUME NEW s \in Scenario, AdvanceTurn(s) \/ EmitEvent(s) PROVE Still
  BY <1>11 DEF AdvanceTurn, EmitEvent, Still
<1>12. CASE UNCHANGED vars
  BY <1>12 DEF vars, tables, Still
<1> QED
  BY <1>4, <1>5, <1>6, <1>7, <1>8, <1>9, <1>10, <1>11, <1>12 DEF Next

\* A row's call is done once it is written, and stays done.
LEMMA DecidersAreDone ==
    ASSUME Typed, [Next]_vars, \A d \in decisions : pc[d.call] = "done",
           NEW d \in decisions'
    PROVE  d.call \in Call /\ pc'[d.call] = "done"
<1>1. \A e \in decisions : e.call \in Call
  BY DEF Typed, TypeOK
<1>2. CASE Still
  BY <1>1, <1>2 DEF Still
<1>3. ASSUME NEW k \in Call, Moves(k) PROVE d.call \in Call /\ pc'[d.call] = "done"
  <2>1. CASE d \in decisions
    BY <1>1, <1>3, <2>1 DEF Moves
  <2>2. CASE d \notin decisions
    BY <1>3, <2>2 DEF Moves, Waits, Refused, Revokes, Records
  <2> QED
    BY <2>1, <2>2
<1> QED
  BY <1>2, <1>3, OneCallMoves

-----------------------------------------------------------------------------
\* The ids a call saw were ids, and p is what the policies then called for.
Heeded(e, p, then) ==
    /\ then.known \subseteq DOMAIN policies
    /\ IF p = NoPolicy THEN Rivals(e, then) = {}
       ELSE p \in Active(then) /\ \A q \in Rivals(e, then) : ComesFirst(p, q)

\* The inductive invariant under VerdictsHeedPolicies: it holds of the evaluations
\* under way, whose call the row will be of, and a call has its row when it is done.
Heeding ==
    /\ DOMAIN asOf = Call
    /\ \A c \in Call : pc[c] = "evaluating" =>
          Heeded(job[c].event, job[c].policy, asOf[c])
    /\ \A d \in decisions :
          /\ pc[d.call] = "done"
          /\ d.outcome \notin Manual => Heeded(d.event, d.policy, asOf[d.call])

\* What is heeded stays heeded: what was known then keeps its scope and window, and
\* what is authored or revoked later was not.
LEMMA HeededStays ==
    ASSUME Typed, Grown, NEW e, NEW p, NEW then, Heeded(e, p, then)
    PROVE  Heeded(e, p, then)'
<1>1. \A q \in then.known : q \in DOMAIN policies' /\ policies'[q] = policies[q]
  BY DEF Heeded, Grown
<1>2. \A q \in then.known : Scope(q)' = Scope(q) /\ InForce(q, e.turn)' = InForce(q, e.turn)
  BY <1>1 DEF Scope, InForce
<1>3. Active(then) \subseteq then.known /\ Rivals(e, then) \subseteq then.known
  BY DEF Active, Rivals
<1>4. Rivals(e, then)' = Rivals(e, then)
  BY <1>1, <1>2, <1>3 DEF Rivals, Active, Chain
<1>5. \A q, r \in then.known : ComesFirst(q, r)' <=> ComesFirst(q, r)
  BY <1>2 DEF ComesFirst
<1>6. CASE p = NoPolicy
  BY <1>1, <1>4, <1>6 DEF Heeded
<1>7. CASE p # NoPolicy
  <2>1. p \in Active(then) /\ \A q \in Rivals(e, then) : ComesFirst(p, q)
    BY <1>7 DEF Heeded
  <2>2. p \in Active(then)' /\ \A q \in Rivals(e, then)' : ComesFirst(p, q)'
    BY <1>3, <1>4, <1>5, <2>1 DEF Active
  <2> QED
    BY <1>1, <1>7, <2>2 DEF Heeded
<1> QED
  BY <1>6, <1>7

\* The lookup heeds the policies it runs over.
LEMMA FoundHeeded ==
    ASSUME Typed, NEW e \in events
    PROVE  Heeded(e, FindMatchingPolicy(e), Now)
<1>1. Now.known = DOMAIN policies /\ Active(Now) = DOMAIN policies \ revoked
  BY DEF Now, Active
<1>2. Rivals(e, Now) = {q \in Aimed(e) : InForce(q, e.turn)}
  <2>1. \A t : t \in {Chain(e)[k] : k \in 1 .. 3} <=> \E k \in 1 .. 3 : t = Chain(e)[k]
    OBVIOUS
  <2> QED
    BY <1>1, <2>1 DEF Rivals, Aimed
<1>3. PICK p : p = FindMatchingPolicy(e)
  OBVIOUS
<1>4. CASE p = NoPolicy /\ \A q \in Aimed(e) : ~InForce(q, e.turn)
  BY <1>1, <1>2, <1>3, <1>4 DEF Heeded
<1>5. CASE /\ p # NoPolicy
           /\ p \in Aimed(e) /\ InForce(p, e.turn)
           /\ \A q \in Aimed(e) : InForce(q, e.turn) => ComesFirst(p, q)
  <2>1. p \in Active(Now)
    BY <1>1, <1>5 DEF Aimed
  <2>2. \A q \in Rivals(e, Now) : ComesFirst(p, q)
    BY <1>2, <1>5
  <2> QED
    BY <1>1, <1>3, <1>5, <2>1, <2>2 DEF Heeded
<1> QED
  BY <1>3, <1>4, <1>5, Found

\* The history adds nothing to the gateway's steps and is written by lookups only.
LEMMA HistorySteps ==
    ASSUME Typed, DOMAIN asOf = Call, [HistoryNext]_<<vars, asOf>>
    PROVE  /\ [Next]_vars /\ DOMAIN asOf' = Call
           /\ \A c \in Call :
                 \/ LookUp(c) /\ asOf'[c] = Now
                 \/ asOf'[c] = asOf[c] /\ (pc'[c] = "evaluating" =>
                       pc[c] = "evaluating" /\ job'[c] = job[c])
<1>1. ASSUME NEW k \in Call, LookUp(k), asOf' = [asOf EXCEPT ![k] = Now]
      PROVE  /\ DOMAIN asOf' = Call
             /\ \A c \in Call :
                   \/ LookUp(c) /\ asOf'[c] = Now
                   \/ asOf'[c] = asOf[c] /\ (pc'[c] = "evaluating" =>
                         pc[c] = "evaluating" /\ job'[c] = job[c])
  <2>1. \A c \in Call \ {k} : pc'[c] = pc[c] /\ job'[c] = job[c]
    BY <1>1, LookUpFinds
  <2> QED
    BY <1>1, <2>1
<1>2. ASSUME asOf' = asOf,
             \/ \E s \in Scenario : AdvanceTurn(s) \/ EmitEvent(s)
             \/ \E k \in Call :
                   \/ ReadStamp(k) \/ FindEvent(k)
                   \/ InsertPolicy(k) \/ RevokePolicy(k) \/ NotFound(k)
                   \/ LookUpOverflows(k) \/ RecordEvaluation(k)
                   \/ RecordManual(k) \/ Fail(k)
             \/ UNCHANGED vars
      PROVE  \A c \in Call : asOf'[c] = asOf[c] /\ (pc'[c] = "evaluating" =>
                 pc[c] = "evaluating" /\ job'[c] = job[c])
  BY <1>2, NoNewEvaluation
<1>3. [Next]_vars
  BY DEF HistoryNext, Next
<1> QED
  BY <1>1, <1>2, <1>3 DEF HistoryNext

\* Every step keeps the verdicts, given and under way, heedful.
LEMMA HeedingStep ==
    ASSUME Typed, Heeding, [HistoryNext]_<<vars, asOf>>
    PROVE  Heeding'
<1>1. /\ [Next]_vars /\ DOMAIN asOf' = Call
      /\ \A c \in Call :
            \/ LookUp(c) /\ asOf'[c] = Now
            \/ asOf'[c] = asOf[c] /\ (pc'[c] = "evaluating" =>
                  pc[c] = "evaluating" /\ job'[c] = job[c])
  BY HistorySteps DEF Heeding
<1>2. \A e, p, then : Heeded(e, p, then) => Heeded(e, p, then)'
  BY <1>1, NextGrows, HeededStays
<1>3. ASSUME NEW c \in Call, pc'[c] = "evaluating"
      PROVE  Heeded(job[c].event, job[c].policy, asOf[c])'
  <2>1. PICK e, p, then : e = job'[c].event /\ p = job'[c].policy /\ then = asOf'[c]
    OBVIOUS
  <2>2. Heeded(e, p, then)
    <3>1. CASE LookUp(c) /\ asOf'[c] = Now
      BY <2>1, <3>1, LookUpFinds, FoundHeeded
    <3>2. CASE asOf'[c] = asOf[c] /\ pc[c] = "evaluating" /\ job'[c] = job[c]
      BY <2>1, <3>2 DEF Heeding
    <3> QED
      BY <1>1, <1>3, <3>1, <3>2
  <2>3. Heeded(e, p, then)'
    BY <1>2, <2>2
  <2> QED
    BY <2>1, <2>3 DEF Heeded, Rivals, Active, ComesFirst
\* A call whose evaluation is recorded, or that was done, is done.
<1>4. ASSUME NEW d \in decisions' PROVE d.call \in Call /\ pc'[d.call] = "done"
  BY <1>1, DecidersAreDone DEF Heeding
<1>5. ASSUME NEW d \in decisions', d.outcome \notin Manual
      PROVE  Heeded(d.event, d.policy, asOf[d.call])'
  <2>1. d.call \in Call /\ pc'[d.call] = "done"
    BY <1>4, <1>5
  <2>2. asOf'[d.call] = asOf[d.call]
    BY <1>1, <2>1, LookUpFinds
  <2>3. PICK e, p, then : e = d.event /\ p = d.policy /\ then = asOf[d.call]
    OBVIOUS
  <2>4. Heeded(e, p, then)
    <3>1. CASE d \in decisions
      BY <1>5, <2>3, <3>1 DEF Heeding
    <3>2. CASE /\ pc[d.call] = "evaluating"
               /\ d.event = job[d.call].event /\ d.policy = job[d.call].policy
      BY <2>1, <2>3, <3>2 DEF Heeding
    <3> QED
      BY <1>1, <1>5, <3>1, <3>2, NewRows
  <2>5. Heeded(e, p, then)'
    BY <1>2, <2>4
  <2> QED
    BY <2>2, <2>3, <2>5 DEF Heeded, Rivals, Active, ComesFirst
<1> QED
  BY <1>1, <1>3, <1>4, <1>5 DEF Heeding

\* evaluateEvent: every verdict is what the policies called for that its lookup
\* could see, by scope and then by age, whatever happened before the row.
THEOREM VerdictsAreHeedful == HistorySpec => []VerdictsHeedPolicies
<1>1. HistoryInit => Typed /\ Heeding
  BY TypedInit DEF HistoryInit, Init, Heeding
<1>2. Typed /\ Heeding /\ [HistoryNext]_<<vars, asOf>> => (Typed /\ Heeding)'
  <2>1. Typed /\ Heeding /\ [HistoryNext]_<<vars, asOf>> => [Next]_vars
    BY HistorySteps DEF Heeding
  <2> QED
    BY <2>1, TypedStep, HeedingStep
<1>3. Heeding => VerdictsHeedPolicies
  BY DEF Heeding, Heeded, VerdictsHeedPolicies
<1> QED
  BY <1>1, <1>2, <1>3, PTL DEF HistorySpec

-----------------------------------------------------------------------------
\* A row belongs to a call that is done and was not turned away, and to no other
\* row's; a call that asked about an event, and was not failed, has one.
Audited(c) ==
    /\ \A d \in decisions : d.call = c =>
          /\ pc[c] = "done" /\ reply[c] \notin {"404", "error"}
          /\ \A e \in decisions : e.call = c => e = d
    /\ pc[c] = "done" /\ reply[c] # "500" /\ "event" \in DOMAIN job[c] =>
          \E d \in decisions :
              d.call = c /\ d.event = job[c].event /\ reply[c] = Told(d)

\* The call c is done and revoked the policy p.
Revoker(c, p) ==
    pc[c] = "done" /\ "revokes" \in DOMAIN job[c] /\ job[c].revokes = p

Revoked ==
    /\ \A p \in revoked : \E c \in Call : Revoker(c, p)
    /\ \A c \in Call, p \in DOMAIN policies : Revoker(c, p) =>
          p \in revoked /\ \A k \in Call : Revoker(k, p) => k = c

\* The inductive invariant under AnswersAudited and RevokedOnce.
Books == (\A c \in Call : Audited(c)) /\ Revoked

\* Every step keeps the answers of all calls audited.
LEMMA AuditedStep ==
    ASSUME Typed, \A c \in Call : Audited(c), [Next]_vars
    PROVE  \A c \in Call : Audited(c)'
<1>1. CASE Still
  BY <1>1 DEF Still, Audited, Told
<1>2. ASSUME NEW k \in Call, Moves(k)
      PROVE  \A c \in Call : Audited(c)'
  <2> TAKE c \in Call
  <2>1. CASE c # k
    <3>1. pc'[c] = pc[c] /\ job'[c] = job[c] /\ reply'[c] = reply[c]
      BY <1>2, <2>1 DEF Moves
    <3>2. decisions \subseteq decisions'
          /\ \A d \in decisions' : d.call = c => d \in decisions
      BY <1>2, <2>1 DEF Moves, Waits, Refused, Revokes, Records
    <3> QED
      BY <3>1, <3>2 DEF Audited, Told
  <2>2. CASE c = k
    <3>1. \A d \in decisions : d.call # k
      BY <1>2 DEF Moves, Audited
    <3>2. CASE Waits(k)
      BY <2>2, <3>1, <3>2 DEF Waits, Audited
    <3>3. CASE Refused(k)
      BY <2>2, <3>1, <3>3 DEF Refused, Audited, Nothing
    <3>4. CASE Revokes(k)
      BY <2>2, <3>1, <3>4 DEF Revokes, Audited
    <3>5. CASE Records(k)
      <4>1. PICK d \in [call : {k}, event : {job'[k].event},
                        policy : {NoPolicy} \cup DOMAIN policies,
                        outcome : {"auto-approve", "auto-block",
                                   "review-pending", "default-review"} \cup Manual] :
                decisions' = decisions \cup {d} /\ reply'[k] \in {"500", Told(d)}
        BY <3>5 DEF Records
      <4>2. reply'[k] \notin {"404", "error"}
        BY <4>1 DEF Told, Manual
      <4>3. d.call = k /\ d.event = job'[k].event
        BY <4>1
      <4>4. \A e \in decisions' : e.call = k => e = d
        BY <3>1, <4>1
      <4>5. pc'[k] = "done"
        BY <3>5 DEF Records
      <4> QED
        BY <2>2, <4>1, <4>2, <4>3, <4>4, <4>5 DEF Audited, Told
    <3> QED
      BY <1>2, <3>2, <3>3, <3>4, <3>5 DEF Moves
  <2> QED
    BY <2>1, <2>2
<1> QED
  BY <1>1, <1>2, OneCallMoves

\* Every step keeps one revoker of each revoked policy.
LEMMA RevokedStep ==
    ASSUME Typed, Revoked, [Next]_vars
    PROVE  Revoked'
<1>1. Grown /\ DOMAIN policies \subseteq DOMAIN policies' /\ Typed'
  BY NextGrows, TypedStep DEF Grown
<1>2. CASE Still
  <2>1. \A p : \A c \in Call : Revoker(c, p)' <=> Revoker(c, p)
    BY <1>2 DEF Still, Revoker
  <2>2. revoked' = revoked /\ revoked \subseteq DOMAIN policies
    BY <1>2 DEF Still, Typed, TypeOK
  <2>3. \A p : \A c \in Call : Revoker(c, p) => p \in DOMAIN policies
    BY DEF Revoker, Typed, JobTyped, Nothing, Lookup, Ruling, Revocation
  <2> QED
    BY <1>1, <2>1, <2>2, <2>3 DEF Revoked
<1>3. ASSUME NEW k \in Call, Moves(k)
      PROVE  Revoked'
  <2>1. \A p : \A c \in Call \ {k} : Revoker(c, p)' <=> Revoker(c, p)
    BY <1>3 DEF Moves, Revoker
  <2>2. \A p : ~ Revoker(k, p)
    BY <1>3 DEF Moves, Revoker
  <2>3. \A p : \A c \in Call : Revoker(c, p) => p \in DOMAIN policies
    BY DEF Revoker, Typed, JobTyped, Nothing, Lookup, Ruling, Revocation
  <2>4. CASE Waits(k) \/ Refused(k) \/ Records(k)
    <3>1. revoked' = revoked /\ \A p : ~ Revoker(k, p)'
      BY <2>4 DEF Waits, Refused, Records, Revoker, Nothing, Lookup, Ruling
    <3> QED
      BY <1>1, <2>1, <2>2, <2>3, <3>1 DEF Revoked
  <2>5. CASE Revokes(k)
    <3>1. PICK p \in DOMAIN policies \ revoked :
              revoked' = revoked \cup {p} /\ job'[k] = [revokes |-> p]
      BY <2>5 DEF Revokes
    <3>2. Revoker(k, p)' /\ \A q : Revoker(k, q)' => q = p
      BY <2>5, <3>1 DEF Revokes, Revoker
    <3>3. \A c \in Call : ~ Revoker(c, p)
      BY <3>1 DEF Revoked
    <3> QED
      BY <1>1, <2>1, <2>2, <2>3, <3>1, <3>2, <3>3 DEF Revoked
  <2> QED
    BY <1>3, <2>4, <2>5 DEF Moves
<1> QED
  BY <1>2, <1>3, OneCallMoves

\* In every reachable state the log and the revocations agree with the calls.
LEMMA BooksInvariant == Spec => [](Typed /\ Books)
<1>1. Init => Typed /\ Books
  BY TypedInit DEF Init, Books, Audited, Revoked, Revoker
<1>2. Typed /\ Books /\ [Next]_vars => (Typed /\ Books)'
  BY TypedStep, AuditedStep, RevokedStep DEF Books
<1> QED
  BY <1>1, <1>2, PTL DEF Spec

\* Every answered evaluation or ruling has its one row in the audit log.
THEOREM AnswersAreAudited == Spec => []AnswersAudited
<1>1. Typed /\ Books => AnswersAudited
  <2> SUFFICES ASSUME Books, NEW c \in Call
               PROVE  LET rows == {d \in decisions : d.call = c} IN
                      /\ Cardinality(rows) <= 1
                      /\ reply[c] \in {"404", "error"} => rows = {}
                      /\ reply[c] # "500" /\ pc[c] = "done"
                         /\ "event" \in DOMAIN job[c] =>
                            \E d \in rows :
                                /\ d.event = job[c].event
                                /\ reply[c] = IF d.outcome \in Manual THEN "201"
                                              ELSE d.outcome
    BY DEF AnswersAudited
  <2> DEFINE rows == {d \in decisions : d.call = c}
  <2>1. Cardinality(rows) <= 1
    <3>1. CASE rows = {}
      BY <3>1, FS_EmptySet
    <3>2. ASSUME NEW d \in rows PROVE Cardinality(rows) = 1
      <4>1. rows = {d}
        BY DEF Books, Audited
      <4> QED
        BY <4>1, FS_Singleton
    <3> QED
      BY <3>1, <3>2
  <2> QED
    BY <2>1 DEF Books, Audited, Told
<1> QED
  BY <1>1, BooksInvariant, PTL

\* revokePolicy: a policy is revoked by exactly one call, or by none.
THEOREM OneRevokerEach == Spec => []RevokedOnce
<1>1. Typed /\ Books => RevokedOnce
  <2> SUFFICES ASSUME Typed, Books, NEW p \in DOMAIN policies
               PROVE  Cardinality({c \in Call : /\ pc[c] = "done"
                                                /\ "revokes" \in DOMAIN job[c]
                                                /\ job[c].revokes = p})
                          = IF p \in revoked THEN 1 ELSE 0
    BY DEF RevokedOnce
  <2> DEFINE mine == {c \in Call : /\ pc[c] = "done" /\ "revokes" \in DOMAIN job[c]
                                   /\ job[c].revokes = p}
  <2>1. \A c \in Call : c \in mine <=> Revoker(c, p)
    BY DEF Revoker
  <2>2. CASE p \in revoked
    <3>1. PICK c \in Call : Revoker(c, p)
      BY <2>2 DEF Books, Revoked
    <3>2. mine = {c}
      BY <2>1, <3>1 DEF Books, Revoked
    <3> QED
      BY <2>2, <3>2, FS_Singleton
  <2>3. CASE p \notin revoked
    <3>1. mine = {}
      BY <2>1, <2>3 DEF Books, Revoked
    <3> QED
      BY <2>3, <3>1, FS_EmptySet
  <2> QED
    BY <2>2, <2>3
<1> QED
  BY <1>1, BooksInvariant, PTL

-----------------------------------------------------------------------------
\* A policy whose last turn does not fit the int column.
TooLong(p) == policies[p].created_in_turn + policies[p].ttl_turns > MaxInt

ErrorsExplained ==
    \A c \in Call : reply[c] = "error" => \E p \in DOMAIN policies : TooLong(p)

\* What a call is answered, other than by the lookup's overflow, is not "error".
LEMMA AnswersOf ==
    ASSUME Typed, NEW c \in Call,
           \/ InsertPolicy(c) \/ RevokePolicy(c) \/ NotFound(c)
           \/ RecordEvaluation(c) \/ RecordManual(c) \/ Fail(c)
    PROVE  reply'[c] # "error" /\ \A d \in Call \ {c} : reply'[d] = reply[d]
<1>1. DOMAIN reply = Call
  BY DEF Typed
<1>2. ASSUME NEW answer, answer # "error", NEW about, Committed(c, answer, about)
      PROVE  reply'[c] # "error" /\ \A d \in Call \ {c} : reply'[d] = reply[d]
  BY <1>1, <1>2 DEF Committed, Finish
<1>3. CASE InsertPolicy(c)
  BY <1>2, <1>3 DEF InsertPolicy
<1>4. CASE RevokePolicy(c)
  BY <1>2, <1>4 DEF RevokePolicy
<1>5. CASE NotFound(c)
  BY <1>1, <1>5 DEF NotFound, Finish
<1>6. CASE RecordEvaluation(c)
  <2>1. job[c].policy \in {NoPolicy} \cup DOMAIN policies
    BY <1>6 DEF RecordEvaluation, Typed, JobTyped, Lookup
  <2>2. PICK p \in {NoPolicy} \cup DOMAIN policies : p = job[c].policy
    BY <2>1
  <2> DEFINE outcome == IF p = NoPolicy THEN "default-review"
                        ELSE ACTION_TO_OUTCOME[policies[p].action]
  <2>3. Committed(c, outcome, job[c])
    BY <1>6, <2>2 DEF RecordEvaluation
  <2>4. outcome # "error"
    BY VerdictOfPolicy
  <2> QED
    BY <1>2, <2>3, <2>4
<1>7. CASE RecordManual(c)
  BY <1>2, <1>7 DEF RecordManual
<1>8. CASE Fail(c)
  BY <1>1, <1>8 DEF Fail, Finish
<1> QED
  BY <1>3, <1>4, <1>5, <1>6, <1>7, <1>8

\* An overflow is answered only while such a policy is there, and policies stay.
LEMMA ErrorsExplainedStep ==
    ASSUME Typed, ErrorsExplained, [Next]_vars PROVE ErrorsExplained'
<1>1. \A p \in DOMAIN policies : TooLong(p) => p \in DOMAIN policies' /\ TooLong(p)'
  BY NextGrows DEF Grown, TooLong
<1>2. ASSUME \E p \in DOMAIN policies : TooLong(p) PROVE ErrorsExplained'
  BY <1>1, <1>2 DEF ErrorsExplained
<1>3. ASSUME \A c \in Call : reply'[c] = "error" => reply[c] = "error"
      PROVE  ErrorsExplained'
  BY <1>1, <1>3 DEF ErrorsExplained
<1>4. ASSUME NEW s \in Scenario, AdvanceTurn(s) \/ EmitEvent(s) PROVE ErrorsExplained'
  BY <1>3, <1>4 DEF AdvanceTurn, EmitEvent
<1>5. ASSUME NEW c \in Call, ReadStamp(c) \/ LookUp(c) \/ FindEvent(c)
      PROVE  ErrorsExplained'
  BY <1>3, <1>5 DEF ReadStamp, LookUp, FindEvent, Await
<1>6. ASSUME NEW c \in Call,
             \/ InsertPolicy(c) \/ RevokePolicy(c) \/ NotFound(c)
             \/ RecordEvaluation(c) \/ RecordManual(c) \/ Fail(c)
      PROVE  ErrorsExplained'
  BY <1>3, <1>6, AnswersOf
<1>7. ASSUME NEW c \in Call, LookUpOverflows(c) PROVE ErrorsExplained'
  BY <1>2, <1>7 DEF LookUpOverflows, Overflows, Aimed, TooLong
<1>8. CASE UNCHANGED vars
  BY <1>3, <1>8 DEF vars
<1> QED
  BY <1>4, <1>5, <1>6, <1>7, <1>8 DEF Next

\* override-gateway.ts:218: an evaluation ends without a row in the log only when
\* some policy's ttl_turns reaches past the largest int.
THEOREM OnlyLongTtlsOverflow == Spec => []ErrorsExplained
<1>1. Init => ErrorsExplained
  BY DEF Init, ErrorsExplained
<1>2. Typed /\ ErrorsExplained /\ [Next]_vars => ErrorsExplained'
  BY ErrorsExplainedStep
<1> QED
  BY <1>1, <1>2, TypedInvariant, PTL DEF Spec

\* So with ttl_turns capped the README's promise holds: every evaluation leaves a
\* row in the audit log (services/control-plane/README.md:123).
THEOREM CappedTtlsAreAudited ==
    ASSUME \A ttl \in Ttl : MaxTurn + ttl <= MaxInt PROVE Spec => []EvaluationAudited
<1>1. Typed /\ ErrorsExplained => EvaluationAudited
  <2> SUFFICES ASSUME Typed, ErrorsExplained, NEW c \in Call, reply[c] = "error"
               PROVE  FALSE
    BY DEF EvaluationAudited
  <2>1. PICK p \in DOMAIN policies : TooLong(p)
    BY DEF ErrorsExplained
  <2>2. /\ policies[p].created_in_turn \in 0 .. MaxTurn
        /\ policies[p].ttl_turns \in Ttl /\ policies[p].ttl_turns \in Nat
    BY DraftFields DEF Draft
  <2>3. MaxTurn + policies[p].ttl_turns <= MaxInt
    BY <2>2
  <2> QED
    BY <2>1, <2>2, <2>3, GatewayAssumption DEF TooLong
<1> QED
  BY <1>1, OnlyLongTtlsOverflow, TypedInvariant, PTL

=============================================================================
