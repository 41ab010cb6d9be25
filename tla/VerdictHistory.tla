---------------------------- MODULE VerdictHistory ----------------------------
(***************************************************************************)
(* OverrideGateway with a history variable: what each evaluation could see *)
(* of override_policies when its lookup ran.  asOf is no part of the code  *)
(* and no action reads it; it lets a row of the audit log be compared with *)
(* the policies as they were, after others were authored or revoked.       *)
(***************************************************************************)
EXTENDS OverrideGateway

VARIABLE asOf  \* the ids there were, and those of them revoked, by call

Now == [known |-> DOMAIN policies, revoked |-> revoked]

HistoryInit == Init /\ asOf = [c \in Call |-> [known |-> {}, revoked |-> {}]]

HistoryNext ==
    \/ \E c \in Call : LookUp(c) /\ asOf' = [asOf EXCEPT ![c] = Now]
    \/ \E s \in Scenario :
          \/ AdvanceTurn(s) /\ UNCHANGED asOf
          \/ EmitEvent(s) /\ UNCHANGED asOf
    \/ \E c \in Call :
          \/ ReadStamp(c) /\ UNCHANGED asOf
          \/ InsertPolicy(c) /\ UNCHANGED asOf
          \/ RevokePolicy(c) /\ UNCHANGED asOf
          \/ NotFound(c) /\ UNCHANGED asOf
          \/ LookUpOverflows(c) /\ UNCHANGED asOf
          \/ RecordEvaluation(c) /\ UNCHANGED asOf
          \/ FindEvent(c) /\ UNCHANGED asOf
          \/ RecordManual(c) /\ UNCHANGED asOf
          \/ Fail(c) /\ UNCHANGED asOf

HistorySpec == HistoryInit /\ [][HistoryNext]_<<vars, asOf>>

-----------------------------------------------------------------------------
\* The scopes of policies, the narrowest first.
SCOPES == <<"per-event", "per-agent-per-turn", "per-turn">>
Scope(p) == CHOOSE k \in 1 .. 3 : SCOPES[k] = policies[p].target[1]

Active(then) == then.known \ then.revoked

\* The policies active then that apply to an event.
Rivals(e, then) ==
    {p \in Active(then) :
        /\ policies[p].scenario = e.scenario
        /\ policies[p].target \in {Chain(e)[k] : k \in 1 .. 3}
        /\ InForce(p, e.turn)}

\* A narrower scope comes first, of one scope the policy authored last.
ComesFirst(p, q) == Scope(p) < Scope(q) \/ (Scope(p) = Scope(q) /\ p >= q)

\* Every verdict is the one the policies of its lookup called for, whatever was
\* authored and revoked before and since: the policy it cites was active then
\* and came before every other that applied, and it cites none only if none did.
VerdictsHeedPolicies ==
    \A d \in decisions : d.outcome \notin Manual =>
        LET then == asOf[d.call]
        IN  IF d.policy = NoPolicy THEN Rivals(d.event, then) = {}
            ELSE /\ d.policy \in Active(then)
                 /\ \A q \in Rivals(d.event, then) : ComesFirst(d.policy, q)

=============================================================================
