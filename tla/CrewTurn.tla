------------------------------ MODULE CrewTurn -----------------------------
(***************************************************************************)
(* The Spark worker between two turns: POST /run-turn                      *)
(* (agents/runtime shim.py) runs the blue and the red crew                 *)
(* (agents/blue, agents/red crew.py) in two threads, each against a DAG of *)
(* its own, and answers with the events both report.  The S3 step asks an  *)
(* LLM (llm_step.py), which decides from a report of the DAG and whose     *)
(* tool calls cite what the report contained; when that fails a            *)
(* deterministic pair of orders replaces the decision.                     *)
(*                                                                         *)
(* A slot is room for one request at a time, a run one crew's cycle in it. *)
(* An event is named by its run and its number, for the fresh uuid4 it     *)
(* gets.                                                                   *)
(***************************************************************************)
EXTENDS CrewScripts, NamespacedDag, FiniteSets

CONSTANTS Slot,          \* bounds the requests in hand at a time
          MaxCalls,      \* tool calls in one answer of the LLM
          RedSetting,    \* what ALMIGHTY_RED_DOCTRINE may be set to
          BlueProfile,   \* profiles the blue crew may have been given
          RedProfile(_)  \* the profile of a doctrine

ASSUME CallsBounded == MaxCalls \in Nat \ {0}

Run == Slot \X Side
Runs(r) == {r} \X Side

VARIABLES doctrine,   \* red's, or "invalid" when select_doctrine raises
          profile,    \* side -> its capability profile
          scenario,   \* slot -> its request's (tenant_id, scenario_id)
          reply,      \* slot -> "none", "open", "200" or "500"
          at,         \* run -> the step of the script it is at
          mode,       \* run -> where it is in that step
          dag,        \* run -> its kernel_dag
          stash,      \* run -> causal_predecessors of S3's context
          results,    \* run -> result dicts of the decision being made
          outcomes    \* run -> step_outcomes

crew == <<at, mode, dag, stash, results, outcomes>>
vars == <<doctrine, profile, scenario, reply, crew>>

Script(run) ==
    IF run[2] = "blue" THEN BlueScript
    ELSE IF doctrine \in Doctrine THEN RedScript(doctrine, profile["red"])
    ELSE <<>>
Here(run) == Script(run)[at[run]]
Finished(run) == mode[run] = "steps" /\ at[run] = Len(Script(run)) + 1
Over(run) == Finished(run) \/ mode[run] \in {"idle", "raised"}

\* What load_profile gives red, which gets that far with a doctrine only.
LoadedProfile == IF doctrine \in Doctrine THEN RedProfile(doctrine) ELSE <<>>

Init ==
    /\ doctrine \in {SelectDoctrine(setting) : setting \in RedSetting}
    /\ profile \in {[blue |-> p, red |-> LoadedProfile] : p \in BlueProfile}
    /\ scenario = [r \in Slot |-> CHOOSE ns \in Namespace : TRUE]
    /\ reply = [r \in Slot |-> "none"]
    /\ at = [run \in Run |-> 1]
    /\ mode = [run \in Run |-> "idle"]
    /\ dag = [run \in Run |-> NewDag]
    /\ stash = [run \in Run |-> {}]
    /\ results = [run \in Run |-> <<>>]
    /\ outcomes = [run \in Run |-> <<>>]

-----------------------------------------------------------------------------
(* A request starts both crews.                                            *)

\* Mutant of CrewDag: a crew goes on with the DAG it used before.
CrewDagKept(run) == dag[run]
\* run_blue_crew and run_red_crew construct a NamespacedDag.
CrewDag(run) == NewDag

\* run_red_crew raises before its first step when there is no doctrine.
Begin(run) ==
    IF run[2] = "red" /\ doctrine \notin Doctrine THEN "raised" ELSE "steps"

\* The locals of the crew functions start anew.  After a 500 the slot waits for
\* the thread that went on, although nothing the thread has is shared.
RunTurn(r) ==
    LET Started(f, value) ==
            [run \in Run |-> IF run \in Runs(r) THEN value ELSE f[run]]
    IN  /\ reply[r] # "open" /\ \A run \in Runs(r) : Over(run)
        /\ \E ns \in Namespace : scenario' = [scenario EXCEPT ![r] = ns]
        /\ reply' = [reply EXCEPT ![r] = "open"]
        /\ mode' = [run \in Run |-> IF run \in Runs(r) THEN Begin(run) ELSE mode[run]]
        /\ at' = Started(at, 1)
        /\ dag' = [run \in Run |-> IF run \in Runs(r) THEN CrewDag(run) ELSE dag[run]]
        /\ stash' = Started(stash, {})
        /\ results' = Started(results, <<>>)
        /\ outcomes' = Started(outcomes, <<>>)
        /\ UNCHANGED <<doctrine, profile>>

-----------------------------------------------------------------------------
(* The steps of a run.                                                     *)

NextId(run) == <<run, Len(dag[run].posets[scenario[run[1]]]) + 1>>

\* A tool commits one event with its context's predecessors; Outcome is the
\* result dict it returns.
CommitEvent(run, predecessors) ==
    dag' = [dag EXCEPT ![run] =
               Committed(@, scenario[run[1]], NextId(run), predecessors)]
Outcome(run, predecessors, llm_driven) ==
    [event_id |-> NextId(run), causal_predecessors |-> predecessors,
     llm_driven |-> llm_driven]

\* A scripted step; only S3's context is ever given predecessors.
Act(run) ==
    /\ mode[run] = "steps" /\ at[run] <= Len(Script(run))
    /\ Here(run) # Decide
    /\ Permits(profile[run[2]], run[2], Here(run))
    /\ CommitEvent(run, {})
    /\ outcomes' = [outcomes EXCEPT ![run] = Append(@, Outcome(run, {}, FALSE))]
    /\ at' = [at EXCEPT ![run] = @ + 1]
    /\ UNCHANGED <<doctrine, profile, scenario, reply, mode, stash, results>>

\* Mutant of Situation: the report is taken from the DAGs of both crews.
SituationShared(run) ==
    UNION {Read(dag[other], scenario[run[1]]) : other \in Runs(run[1])}
\* predecessor_event_ids, the ids in the situation report.
Situation(run) == Read(dag[run], scenario[run[1]])

Ask(run) ==
    /\ mode[run] = "steps" /\ at[run] <= Len(Script(run))
    /\ Here(run) = Decide
    /\ stash' = [stash EXCEPT ![run] = Situation(run)]
    /\ mode' = [mode EXCEPT ![run] = "calls"]
    /\ UNCHANGED <<doctrine, profile, scenario, reply, at, dag, results, outcomes>>

\* Mutant of Cites: each call cites what is in the DAG when it commits.
CitesNow(run) == Situation(run)
\* What a tool of S3's reads from its context.
Cites(run) == stash[run]

\* The tools the LLM is told of.
Offered(run) == RoleVerbs(run[2], "s3")

\* The LLM's answer calls one of S3's tools.
Call(run) ==
    /\ mode[run] = "calls" /\ Len(results[run]) < MaxCalls
    /\ \E verb \in Offered(run) : Permits(profile[run[2]], run[2], Does("s3", verb))
    /\ Resolves(dag[run], scenario[run[1]], Cites(run))
    /\ CommitEvent(run, Cites(run))
    /\ results' = [results EXCEPT ![run] = Append(@, Outcome(run, Cites(run), TRUE))]
    /\ UNCHANGED <<doctrine, profile, scenario, reply, at, mode, stash, outcomes>>

\* Mutant of FailCall: an answer without a tool call is asked for again.
FailCallRetries(run) ==
    /\ mode[run] = "calls"
    /\ mode' = [mode EXCEPT ![run] =
                   IF results[run] = <<>> THEN "steps" ELSE "fallback"]
    /\ results' = [results EXCEPT ![run] = <<>>]
    /\ stash' = [stash EXCEPT ![run] = {}]
    /\ UNCHANGED <<doctrine, profile, scenario, reply, at, dag, outcomes>>
\* No endpoint, an error, the timeout, no tool call in the answer, or one that
\* raises, whatever was committed before it.
FailCall(run) ==
    /\ mode[run] = "calls"
    /\ mode' = [mode EXCEPT ![run] = "fallback"]
    /\ results' = [results EXCEPT ![run] = <<>>]
    /\ stash' = [stash EXCEPT ![run] = {}]
    /\ UNCHANGED <<doctrine, profile, scenario, reply, at, dag, outcomes>>

FallBackStep(run) == FallbackPair[Len(results[run]) + 1]
FallBack(run) ==
    /\ mode[run] = "fallback" /\ Len(results[run]) < Len(FallbackPair)
    /\ Permits(profile[run[2]], run[2], FallBackStep(run))
    /\ CommitEvent(run, stash[run])
    /\ results' = [results EXCEPT ![run] = Append(@, Outcome(run, stash[run], FALSE))]
    /\ UNCHANGED <<doctrine, profile, scenario, reply, at, mode, stash, outcomes>>

\* Mutant of Complete: the first result of the answer is enough.
CompleteWhenAny(run) == results[run] # <<>>
Complete(run) ==
    CASE mode[run] = "calls" -> results[run] # <<>>
      [] mode[run] = "fallback" -> Len(results[run]) = Len(FallbackPair)
      [] OTHER -> FALSE

\* Mutant of Reset: llm_step's finally clause is missing.
ResetForgotten(run) == stash[run]
\* What S3's context cites from now on.
Reset(run) == {}

\* The decision's results extend the outcomes.
Decided(run) ==
    /\ mode[run] \in {"calls", "fallback"}
    /\ Complete(run)
    /\ outcomes' = [outcomes EXCEPT ![run] = @ \o results[run]]
    /\ results' = [results EXCEPT ![run] = <<>>]
    /\ stash' = [stash EXCEPT ![run] = Reset(run)]
    /\ mode' = [mode EXCEPT ![run] = "steps"]
    /\ at' = [at EXCEPT ![run] = @ + 1]
    /\ UNCHANGED <<doctrine, profile, scenario, reply, dag>>

\* ToolError out of a scripted step or of the fallback ends the crew.
Refused(run) ==
    \/ /\ mode[run] = "steps" /\ at[run] <= Len(Script(run))
       /\ Here(run) # Decide
       /\ ~Permits(profile[run[2]], run[2], Here(run))
    \/ /\ mode[run] = "fallback" /\ Len(results[run]) < Len(FallbackPair)
       /\ ~Permits(profile[run[2]], run[2], FallBackStep(run))
Raise(run) ==
    /\ Refused(run)
    /\ mode' = [mode EXCEPT ![run] = "raised"]
    /\ UNCHANGED <<doctrine, profile, scenario, reply, at, dag, stash, results,
                   outcomes>>

-----------------------------------------------------------------------------
(* gather: both results, or the first exception.                           *)

Answer(r) ==
    /\ reply[r] = "open"
    /\ \A run \in Runs(r) : Finished(run)
    /\ reply' = [reply EXCEPT ![r] = "200"]
    /\ UNCHANGED <<doctrine, profile, scenario, crew>>

\* The other thread goes on.
Fail(r) ==
    /\ reply[r] = "open"
    /\ \E run \in Runs(r) : mode[run] = "raised"
    /\ reply' = [reply EXCEPT ![r] = "500"]
    /\ UNCHANGED <<doctrine, profile, scenario, crew>>

\* The events of the answer.
Events(r) == outcomes[<<r, "blue">>] \o outcomes[<<r, "red">>]

\* What a run does by itself; which tools the LLM calls is up to the LLM.
Proceed(run) ==
    Act(run) \/ Ask(run) \/ FailCall(run) \/ FallBack(run) \/ Decided(run) \/ Raise(run)

Next ==
    \/ \E r \in Slot : RunTurn(r) \/ Answer(r) \/ Fail(r)
    \/ \E run \in Run : Proceed(run) \/ Call(run)

Spec == Init /\ [][Next]_vars

\* Threads run, the model's endpoint answers or times out, and gather returns.
Fairness ==
    /\ \A run \in Run : WF_vars(Proceed(run))
    /\ \A r \in Slot : WF_vars(Answer(r) \/ Fail(r))
FairSpec == Spec /\ Fairness

-----------------------------------------------------------------------------
(* Properties.                                                             *)

Ids(entries) == {entries[i].event_id : i \in 1 .. Len(entries)}

\* Every variable has its type, and a decision under way is S3's: what its
\* context holds and what it has gathered exist only while the step runs.
TypeOK ==
    /\ doctrine \in Doctrine \cup {"invalid"}
    /\ scenario \in [Slot -> Namespace]
    /\ reply \in [Slot -> {"none", "open", "200", "500"}]
    /\ mode \in [Run -> {"idle", "steps", "calls", "fallback", "raised"}]
    /\ \A run \in Run :
          /\ at[run] \in 1 .. Len(Script(run)) + 1
          /\ mode[run] = "steps" => stash[run] = {} /\ results[run] = <<>>
          /\ mode[run] \in {"calls", "fallback"} => Here(run) = Decide
          /\ Len(results[run]) <= AtLeast(MaxCalls, Len(FallbackPair))

\* Both crews' DAGs are causal orders kept inside their namespaces: the index
\* leads to events, and a cause is an earlier event of the same namespace,
\* whatever the LLM decides and however often it fails (dag.py commit).
DagsCausal == \A run \in Run : Indexed(dag[run]) /\ CausesEarlier(dag[run])

\* The predecessors S3's context carries while the LLM decides resolve in its
\* DAG, so no call of the LLM dies of a KeyError or a NamespaceMismatchError.
CommitsResolve ==
    \A run \in Run :
        mode[run] = "calls" => Resolves(dag[run], scenario[run[1]], stash[run])

\* What an event reported by a crew cites: one the LLM decided on cites exactly
\* the events committed before the LLM was asked, and all others cite nothing,
\* the fallback's too although they come from the same context.
CitesReport ==
    \A run \in Run : \A i \in 1 .. Len(outcomes[run]) :
        outcomes[run][i].causal_predecessors =
            IF outcomes[run][i].llm_driven
            THEN {outcomes[run][j].event_id :
                     j \in {k \in 1 .. i - 1 : ~outcomes[run][k].llm_driven}}
            ELSE {}

\* The events of a 200 answer are causally closed: each comes once, and after
\* all the events it cites, so that whoever inserts them in this order never
\* meets a predecessor that is missing, of another run or of another crew.
AnswerCausallyClosed ==
    \A r \in Slot : reply[r] = "200" =>
        \A i \in 1 .. Len(Events(r)) :
            LET earlier == Ids(SubSeq(Events(r), 1, i - 1))
            IN  /\ Events(r)[i].event_id \notin earlier
                /\ Events(r)[i].causal_predecessors \subseteq earlier

\* A crew that gets through reports its whole script, with the decision of the
\* LLM or the fallback pair in S3's place, never a mixture or a part of them.
DecisionIsWhole ==
    \A run \in Run : Finished(run) =>
        LET decided == Cardinality({i \in 1 .. Len(outcomes[run]) :
                                       outcomes[run][i].llm_driven})
            asks == \E i \in 1 .. Len(Script(run)) : Script(run)[i] = Decide
            forS3 == IF decided > 0 THEN decided ELSE Len(FallbackPair)
        IN  Len(outcomes[run]) =
                Len(Script(run)) + (IF asks THEN forS3 - 1 ELSE 0)

\* Every call of /run-turn is answered, whatever the model's endpoint does.
RunTurnAnswered ==
    \A r \in Slot : reply[r] = "open" ~> reply[r] \in {"200", "500"}

=============================================================================
