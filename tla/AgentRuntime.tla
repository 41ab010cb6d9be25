---------------------------- MODULE AgentRuntime ---------------------------
(***************************************************************************)
(* The Celery harness (agents/runtime): a turn job is a chain of three     *)
(* tasks, blue, red and white, each on the queue of the job's tenant; a    *)
(* worker process per tenant serves that queue with some pool slots.       *)
(*                                                                         *)
(* A task is acknowledged only when it has ended (acks_late).  Celery      *)
(* hands the chain on when a task returns, before it acknowledges it, so a *)
(* worker process that dies in between leaves both: the message is         *)
(* delivered again.  A task that raises, and one whose pool child is lost, *)
(* is acknowledged without handing on (Celery's defaults                   *)
(* task_acks_on_failure_or_timeout and task_reject_on_worker_lost).        *)
(***************************************************************************)
EXTENDS Integers, Sequences, SequencesExt

CONSTANTS Tenant, Job,
          TenantOf(_),    \* job -> payload["tenant_id"]
          Concurrency,    \* --concurrency
          MaxDeaths       \* bounds the deaths of a worker process

ASSUME RuntimeBounds == Concurrency \in Nat \ {0} /\ MaxDeaths \in Nat

CREWS == <<"blue", "red", "white">>
Crew == 1 .. Len(CREWS)
Message == [job : Job, crew : Crew]
None == [job |-> "none", crew |-> 0]

Slot == Tenant \X (1 .. Concurrency)

VARIABLES enqueued,   \* the jobs given to enqueue_turn
          queue,      \* tenant -> the messages in its queue
          task,       \* slot -> the message it has and has not acknowledged
          pc,         \* slot -> where it is in the task
          ran,        \* job -> crew -> how often it ran to its end
          halted,     \* jobs of which a task ended without handing on
          deaths      \* tenant -> how often its worker process died

vars == <<enqueued, queue, task, pc, ran, halted, deaths>>

Init ==
    /\ enqueued = {}
    /\ queue = [t \in Tenant |-> <<>>]
    /\ task = [s \in Slot |-> None]
    /\ pc = [s \in Slot |-> "idle"]
    /\ ran = [j \in Job |-> [c \in Crew |-> 0]]
    /\ halted = {}
    /\ deaths = [t \in Tenant |-> 0]

-----------------------------------------------------------------------------
(* Dispatch and delivery.                                                  *)

\* Mutant of Dispatched: a group instead of a chain.
DispatchedAsGroup(j) == [c \in Crew |-> [job |-> j, crew |-> c]]
\* What chain(...).apply_async() puts on a queue: the first task.
Dispatched(j) == <<[job |-> j, crew |-> 1]>>

\* enqueue_turn routes to the tenant's queue; a misconfigured caller, or a
\* worker that serves another queue than its tenant's, makes it another's.
EnqueueTurn(j) ==
    /\ j \notin enqueued
    /\ enqueued' = enqueued \cup {j}
    /\ \E t \in Tenant : queue' = [queue EXCEPT ![t] = @ \o Dispatched(j)]
    /\ UNCHANGED <<task, pc, ran, halted, deaths>>

Deliver(s) ==
    /\ pc[s] = "idle" /\ queue[s[1]] # <<>>
    /\ task' = [task EXCEPT ![s] = Head(queue[s[1]])]
    /\ queue' = [queue EXCEPT ![s[1]] = Tail(@)]
    /\ pc' = [pc EXCEPT ![s] = "running"]
    /\ UNCHANGED <<enqueued, ran, halted, deaths>>

-----------------------------------------------------------------------------
(* The task body, _run_crew.                                               *)

\* Mutant of TenantMatches: the assertion is gone.
TenantUnchecked(s) == TRUE
\* _assert_tenant_match.
TenantMatches(s) == TenantOf(task[s].job) = s[1]

\* Mutant of Halt: the failure is caught and the payload returned.
HaltHandsOn(s) ==
    /\ halted' = halted \cup {task[s].job}
    /\ pc' = [pc EXCEPT ![s] = "handing"]
    /\ UNCHANGED <<enqueued, queue, task, ran, deaths>>
\* A task that failed is acknowledged, and the chain ends.
Halt(s) ==
    /\ halted' = halted \cup {task[s].job}
    /\ pc' = [pc EXCEPT ![s] = "idle"]
    /\ task' = [task EXCEPT ![s] = None]
    /\ UNCHANGED <<enqueued, queue, ran, deaths>>

Mismatch(s) == pc[s] = "running" /\ ~TenantMatches(s) /\ Halt(s)
CrewRaises(s) == pc[s] = "running" /\ TenantMatches(s) /\ Halt(s)

RunCrew(s) ==
    /\ pc[s] = "running" /\ TenantMatches(s)
    /\ ran' = [ran EXCEPT ![task[s].job][task[s].crew] = @ + 1]
    /\ pc' = [pc EXCEPT ![s] = "posting"]
    /\ UNCHANGED <<enqueued, queue, task, halted, deaths>>

\* Mutant of PostDone: a callback that is not received retries the task.
PostDoneRetries(s) ==
    /\ pc[s] = "posting"
    /\ \E next \in {"handing", "running"} : pc' = [pc EXCEPT ![s] = next]
    /\ UNCHANGED <<enqueued, queue, task, ran, halted, deaths>>
\* post_crew_done: whether it arrives or is answered 404, with an error or not
\* at all only decides what is logged.
PostDone(s) ==
    /\ pc[s] = "posting"
    /\ pc' = [pc EXCEPT ![s] = "handing"]
    /\ UNCHANGED <<enqueued, queue, task, ran, halted, deaths>>

-----------------------------------------------------------------------------
(* The end of a task in Celery.                                            *)

\* Mutant of Successor: white hands on, too.
SuccessorOfAny(m) == <<[m EXCEPT !.crew = @ + 1]>>
\* The task that follows in the chain, with the payload the task returned.
Successor(m) ==
    IF m.crew = Len(CREWS) THEN <<>> ELSE <<[m EXCEPT !.crew = @ + 1]>>

HandOff(s) ==
    /\ pc[s] = "handing"
    /\ LET t == TenantOf(task[s].job)
       IN  queue' = [queue EXCEPT ![t] = @ \o Successor(task[s])]
    /\ pc' = [pc EXCEPT ![s] = "acking"]
    /\ UNCHANGED <<enqueued, task, ran, halted, deaths>>

Ack(s) ==
    /\ pc[s] = "acking"
    /\ task' = [task EXCEPT ![s] = None]
    /\ pc' = [pc EXCEPT ![s] = "idle"]
    /\ UNCHANGED <<enqueued, queue, ran, halted, deaths>>

\* The pool child is killed before it has handed on.
ChildLost(s) == pc[s] \in {"running", "posting", "handing"} /\ Halt(s)

\* Mutant of Redelivered: tasks are acknowledged when they are received.
RedeliveredNever(t) == {}
\* What the broker delivers again when a tenant's worker process is gone.
Redelivered(t) ==
    {s \in Slot : s[1] = t /\ pc[s] # "idle"}

WorkerDies(t) ==
    /\ deaths[t] < MaxDeaths
    /\ \E s \in Slot : s[1] = t /\ pc[s] # "idle"
    /\ deaths' = [deaths EXCEPT ![t] = @ + 1]
    /\ \E order \in SetToSeqs(Redelivered(t)) :
          queue' = [queue EXCEPT ![t] =
                       @ \o [i \in 1 .. Len(order) |-> task[order[i]]]]
    /\ task' = [s \in Slot |-> IF s[1] = t THEN None ELSE task[s]]
    /\ pc' = [s \in Slot |-> IF s[1] = t THEN "idle" ELSE pc[s]]
    /\ UNCHANGED <<enqueued, ran, halted>>

-----------------------------------------------------------------------------
Body(s) == RunCrew(s) \/ CrewRaises(s) \/ Mismatch(s)

Next ==
    \/ \E j \in Job : EnqueueTurn(j)
    \/ \E s \in Slot : \/ Deliver(s) \/ Body(s) \/ PostDone(s)
                       \/ HandOff(s) \/ Ack(s) \/ ChildLost(s)
    \/ \E t \in Tenant : WorkerDies(t)

Spec == Init /\ [][Next]_vars

\* A worker process is restarted, takes what is queued, and its tasks end: the
\* LLM's and the callback's timeouts bound them.
Fairness ==
    \A s \in Slot : WF_vars(Deliver(s) \/ Body(s) \/ PostDone(s) \/ HandOff(s) \/ Ack(s))
FairSpec == Spec /\ Fairness

-----------------------------------------------------------------------------
(* Properties.                                                             *)

TypeOK ==
    /\ enqueued \subseteq Job
    /\ queue \in [Tenant -> Seq(Message)]
    /\ task \in [Slot -> Message \cup {None}]
    /\ pc \in [Slot -> {"idle", "running", "posting", "handing", "acking"}]
    /\ ran \in [Job -> [Crew -> Nat]]
    /\ halted \subseteq Job
    /\ deaths \in [Tenant -> 0 .. MaxDeaths]
    /\ \A s \in Slot : pc[s] = "idle" <=> task[s] = None

\* Crews run in the order blue, red, white: one has run only if those before
\* it have, whatever is delivered twice, lost or misrouted.
CrewAfterPredecessor ==
    \A j \in Job : \A c \in Crew \ {1} : ran[j][c] > 0 => ran[j][c - 1] > 0

\* Neither does a crew run, nor is its completion reported, in a worker of
\* another tenant than the job's, although its message may have been put there.
TenantIsolation ==
    \A s \in Slot :
        pc[s] \in {"posting", "handing", "acking"} => TenantOf(task[s].job) = s[1]

\* A job that meets no death of a worker process runs each crew at most once:
\* lost callbacks, lost children and failures never make a second run.
RunsOnceUndisturbed ==
    \A j \in Job :
        (\A t \in Tenant : deaths[t] = 0) => \A c \in Crew : ran[j][c] <= 1

\* README: a failure in any link halts the rest of the chain.  Once a task of a
\* job failed, no crew of it runs any more unless a worker process has died.
HaltedStopsChain ==
    [][\A j \in halted :
          (\A t \in Tenant : deaths[t] = 0) => ran'[j] = ran[j]]_vars

\* Every job that was enqueued comes to an end: white has run, or a task failed;
\* the death of worker processes alone never loses one.
JobSettles ==
    \A j \in Job :
        j \in enqueued ~> ran[j][Len(CREWS)] > 0 \/ j \in halted

=============================================================================
