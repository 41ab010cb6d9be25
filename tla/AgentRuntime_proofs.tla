------------------------- MODULE AgentRuntime_proofs ------------------------
(***************************************************************************)
(* Machine-checked theorems about AgentRuntime, for all jobs and tenants,  *)
(* every concurrency and any number of deaths.                             *)
(***************************************************************************)
EXTENDS AgentRuntime, FiniteSetTheorems, TLAPS

\* There are three crews.
LEMMA ThreeCrews == Crew = {1, 2, 3} /\ Len(CREWS) = 3
BY DEF Crew, CREWS

\* A sequence over a set is one over every larger set.
LEMMA SeqMonotone ==
    ASSUME NEW A, NEW B, A \subseteq B, NEW s \in Seq(A) PROVE s \in Seq(B)
OBVIOUS

\* The slots of a tenant's worker process are finitely many.
LEMMA RedeliveredFinite ==
    ASSUME NEW t \in Tenant
    PROVE  IsFiniteSet(Redelivered(t)) /\ Cardinality(Redelivered(t)) \in Nat
<1>1. IsFiniteSet(1 .. Concurrency)
  BY FS_Interval, RuntimeBounds
<1>2. IsFiniteSet({t} \X (1 .. Concurrency))
  BY <1>1, FS_Singleton, FS_Product
<1>3. Redelivered(t) \subseteq {t} \X (1 .. Concurrency)
  BY DEF Redelivered, Slot
<1>4. IsFiniteSet(Redelivered(t))
  BY <1>2, <1>3, FS_Subset
<1> QED
  BY <1>4, FS_CardinalityType

\* What is delivered again is a sequence of the messages the slots had.
LEMMA RedeliveredMessages ==
    ASSUME NEW t \in Tenant, NEW M, NEW order \in SetToSeqs(Redelivered(t)),
           \A s \in Redelivered(t) : task[s] \in M
    PROVE  [i \in 1 .. Len(order) |-> task[order[i]]] \in Seq(M)
<1> DEFINE n == Cardinality(Redelivered(t))
<1>1. n \in Nat
  BY RedeliveredFinite
<1>2. order \in [1 .. n -> Redelivered(t)]
  BY DEF SetToSeqs
<1>3. Len(order) = n
  BY <1>1, <1>2
<1>4. \A i \in 1 .. n : task[order[i]] \in M
  BY <1>2
<1> HIDE DEF n
<1> QED
  BY <1>1, <1>3, <1>4

-----------------------------------------------------------------------------
(***************************************************************************)
(* A message of a crew is ready when its predecessor has run.  All queued  *)
(* and all unacknowledged messages are, which is what a message that comes *)
(* back after a death needs; and a task past its body has run.             *)
(***************************************************************************)
Ready(m) == m.crew = 1 \/ ran[m.job][m.crew - 1] > 0
ReadyMessage == {m \in Message : Ready(m)}

ChainInv ==
    /\ ran \in [Job -> [Crew -> Nat]]
    /\ queue \in [Tenant -> Seq(ReadyMessage)]
    /\ DOMAIN task = Slot /\ DOMAIN pc = Slot
    /\ \A s \in Slot : pc[s] # "idle" => task[s] \in ReadyMessage
    /\ \A s \in Slot : pc[s] \in {"posting", "handing"} =>
                          ran[task[s].job][task[s].crew] > 0
    /\ TenantIsolation
    /\ CrewAfterPredecessor

LEMMA ChainInvInit == Init => ChainInv
<1> SUFFICES ASSUME Init PROVE ChainInv
  OBVIOUS
<1>1. queue \in [Tenant -> Seq(ReadyMessage)]
  BY DEF Init
<1>2. CrewAfterPredecessor
  BY ThreeCrews DEF Init, CrewAfterPredecessor
<1> QED
  BY <1>1, <1>2 DEF Init, ChainInv, TenantIsolation

\* A slot that goes idle or on to a later step leaves the invariant alone.
LEMMA SlotStep ==
    ASSUME ChainInv, NEW s \in Slot, pc[s] # "idle",
           NEW next \in {"idle", "running", "posting", "handing", "acking"},
           pc' = [pc EXCEPT ![s] = next],
           \/ next = "idle" /\ task' = [task EXCEPT ![s] = None]
           \/ next = "acking" /\ task' = task /\ pc[s] = "handing"
           \/ next = "handing" /\ task' = task /\ pc[s] = "posting",
           ran' = ran, queue' \in [Tenant -> Seq(ReadyMessage)]
    PROVE  ChainInv'
<1>1. ReadyMessage' = ReadyMessage
  BY DEF ReadyMessage, Ready
<1>2. ASSUME NEW x \in Slot
      PROVE  /\ pc'[x] # "idle" => task'[x] \in ReadyMessage
             /\ pc'[x] \in {"posting", "handing"} =>
                   ran[task'[x].job][task'[x].crew] > 0
             /\ pc'[x] \in {"posting", "handing", "acking"} =>
                   TenantOf(task'[x].job) = x[1]
  <2>1. CASE x # s
    BY <2>1 DEF ChainInv, TenantIsolation
  <2>2. CASE x = s
    BY <2>2 DEF ChainInv, TenantIsolation
  <2> QED
    BY <2>1, <2>2
<1>3. DOMAIN task' = Slot /\ DOMAIN pc' = Slot
  BY DEF ChainInv
<1>4. TenantIsolation'
  BY <1>2 DEF TenantIsolation
<1>5. CrewAfterPredecessor'
  BY DEF ChainInv, CrewAfterPredecessor
<1> QED
  BY <1>1, <1>2, <1>3, <1>4, <1>5 DEF ChainInv

LEMMA ChainInvStep == ChainInv /\ [Next]_vars => ChainInv'
<1> SUFFICES ASSUME ChainInv, [Next]_vars PROVE ChainInv'
  OBVIOUS
<1>1. ASSUME NEW j \in Job, EnqueueTurn(j) PROVE ChainInv'
  <2>1. [job |-> j, crew |-> 1] \in ReadyMessage
    BY ThreeCrews DEF ReadyMessage, Ready, Message
  <2>2. Dispatched(j) \in Seq(ReadyMessage)
    BY <2>1 DEF Dispatched
  <2>3. queue' \in [Tenant -> Seq(ReadyMessage)]
    BY <1>1, <2>2 DEF EnqueueTurn, ChainInv
  <2>4. ReadyMessage' = ReadyMessage
    BY <1>1 DEF EnqueueTurn, ReadyMessage, Ready
  <2> QED
    BY <1>1, <2>3, <2>4
       DEF EnqueueTurn, ChainInv, TenantIsolation, CrewAfterPredecessor
<1>2. ASSUME NEW s \in Slot, Deliver(s) PROVE ChainInv'
  <2>1. s[1] \in Tenant
    BY DEF Slot
  <2>2. queue[s[1]] \in Seq(ReadyMessage) /\ queue[s[1]] # <<>>
    BY <1>2, <2>1 DEF Deliver, ChainInv
  <2>3. /\ Head(queue[s[1]]) \in ReadyMessage
        /\ Tail(queue[s[1]]) \in Seq(ReadyMessage)
    BY <2>2
  <2>4. ReadyMessage' = ReadyMessage
    BY <1>2 DEF Deliver, ReadyMessage, Ready
  <2>5. queue' \in [Tenant -> Seq(ReadyMessage)]
    BY <1>2, <2>3 DEF Deliver, ChainInv
  <2>6. ASSUME NEW x \in Slot
        PROVE  /\ pc'[x] # "idle" => task'[x] \in ReadyMessage
               /\ pc'[x] \in {"posting", "handing"} =>
                     ran[task'[x].job][task'[x].crew] > 0
               /\ pc'[x] \in {"posting", "handing", "acking"} =>
                     TenantOf(task'[x].job) = x[1]
    <3>1. CASE x # s
      BY <3>1, <1>2 DEF Deliver, ChainInv, TenantIsolation
    <3>2. CASE x = s
      BY <3>2, <1>2, <2>3 DEF Deliver, ChainInv
    <3> QED
      BY <3>1, <3>2
  <2> QED
    BY <1>2, <2>4, <2>5, <2>6
       DEF Deliver, ChainInv, TenantIsolation, CrewAfterPredecessor
<1>3. ASSUME NEW s \in Slot, pc[s] # "idle", Halt(s) PROVE ChainInv'
  <2>1. queue' \in [Tenant -> Seq(ReadyMessage)] /\ ran' = ran
    BY <1>3 DEF Halt, ChainInv
  <2> QED
    BY <1>3, <2>1, SlotStep DEF Halt
<1>4. ASSUME NEW s \in Slot, RunCrew(s) PROVE ChainInv'
  <2> DEFINE m == task[s]
  <2>1. m \in ReadyMessage /\ TenantOf(m.job) = s[1]
    BY <1>4 DEF RunCrew, TenantMatches, ChainInv
  <2>2. m.job \in Job /\ m.crew \in Crew /\ Ready(m)
    BY <2>1 DEF ReadyMessage, Message
  <2>3. ran' = [ran EXCEPT ![m.job][m.crew] = @ + 1]
    BY <1>4 DEF RunCrew
  <2>4. /\ ran' \in [Job -> [Crew -> Nat]]
        /\ ran'[m.job][m.crew] > 0
        /\ \A j \in Job, c \in Crew : ran[j][c] > 0 => ran'[j][c] > 0
        /\ \A j \in Job, c \in Crew :
              j # m.job \/ c # m.crew => ran'[j][c] = ran[j][c]
    BY <2>2, <2>3 DEF ChainInv
  <2>5. ReadyMessage \subseteq ReadyMessage'
    <3> SUFFICES ASSUME NEW x \in Message, Ready(x) PROVE Ready(x)'
      BY DEF ReadyMessage
    <3>1. CASE x.crew = 1
      BY <3>1 DEF Ready
    <3>2. CASE x.crew # 1
      <4>1. x.job \in Job /\ x.crew - 1 \in Crew
        BY <3>2, ThreeCrews DEF Message
      <4> QED
        BY <4>1, <3>2, <2>4 DEF Ready
    <3> QED
      BY <3>1, <3>2
  <2>6. queue' \in [Tenant -> Seq(ReadyMessage)']
    <3>1. queue' = queue /\ queue \in [Tenant -> Seq(ReadyMessage)]
      BY <1>4 DEF RunCrew, ChainInv
    <3>2. \A t \in Tenant : queue[t] \in Seq(ReadyMessage')
      BY <3>1, <2>5, SeqMonotone
    <3> QED
      BY <3>1, <3>2
  <2>7. ASSUME NEW x \in Slot
        PROVE  /\ pc'[x] # "idle" => task'[x] \in ReadyMessage'
               /\ pc'[x] \in {"posting", "handing"} =>
                     ran'[task'[x].job][task'[x].crew] > 0
               /\ pc'[x] \in {"posting", "handing", "acking"} =>
                     TenantOf(task'[x].job) = x[1]
    <3>1. task' = task /\ pc' = [pc EXCEPT ![s] = "posting"]
      BY <1>4 DEF RunCrew
    <3>2. CASE x # s
      <4>1. pc'[x] = pc[x]
        BY <3>1, <3>2 DEF ChainInv
      <4>2. pc[x] # "idle" =>
               task[x] \in ReadyMessage /\ task[x].job \in Job /\ task[x].crew \in Crew
        BY DEF ChainInv, ReadyMessage, Message
      <4>3. pc[x] \in {"posting", "handing"} => ran[task[x].job][task[x].crew] > 0
        BY DEF ChainInv
      <4>4. pc[x] \in {"posting", "handing", "acking"} => TenantOf(task[x].job) = x[1]
        BY DEF ChainInv, TenantIsolation
      <4> QED
        BY <3>1, <4>1, <4>2, <4>3, <4>4, <2>4, <2>5
    <3>3. CASE x = s
      BY <3>1, <3>3, <2>1, <2>4, <2>5
    <3> QED
      BY <3>2, <3>3
  <2>8. CrewAfterPredecessor'
    <3> SUFFICES ASSUME NEW j \in Job, NEW c \in Crew \ {1}, ran'[j][c] > 0
                 PROVE  ran'[j][c - 1] > 0
      BY DEF CrewAfterPredecessor
    <3>1. c - 1 \in Crew
      BY ThreeCrews
    <3>2. CASE j = m.job /\ c = m.crew
      BY <3>1, <3>2, <2>2, <2>4 DEF Ready
    <3>3. CASE j # m.job \/ c # m.crew
      BY <3>1, <3>3, <2>4 DEF ChainInv, CrewAfterPredecessor
    <3> QED
      BY <3>2, <3>3
  <2>9. DOMAIN task' = Slot /\ DOMAIN pc' = Slot
    BY <1>4 DEF RunCrew, ChainInv
  <2>10. TenantIsolation'
    BY <2>7 DEF TenantIsolation
  <2> HIDE DEF m
  <2> QED
    BY <2>4, <2>6, <2>7, <2>8, <2>9, <2>10 DEF ChainInv
<1>5. ASSUME NEW s \in Slot, PostDone(s) PROVE ChainInv'
  <2>1. queue' \in [Tenant -> Seq(ReadyMessage)] /\ ran' = ran
    BY <1>5 DEF PostDone, ChainInv
  <2> QED
    BY <1>5, <2>1, SlotStep DEF PostDone
<1>6. ASSUME NEW s \in Slot, HandOff(s) PROVE ChainInv'
  <2>1. /\ task[s] \in ReadyMessage /\ task[s] \in Message
        /\ ran[task[s].job][task[s].crew] > 0
    BY <1>6 DEF HandOff, ChainInv, ReadyMessage
  <2>2. Successor(task[s]) \in Seq(ReadyMessage)
    <3>1. CASE task[s].crew = Len(CREWS)
      BY <3>1 DEF Successor
    <3>2. CASE task[s].crew # Len(CREWS)
      <4> DEFINE m == [task[s] EXCEPT !.crew = @ + 1]
      <4>1. m \in Message /\ m.job = task[s].job /\ m.crew = task[s].crew + 1
        BY <3>2, <2>1, ThreeCrews DEF Message
      <4>2. m.crew - 1 = task[s].crew
        BY <4>1, <2>1, ThreeCrews DEF Message
      <4>3. m \in ReadyMessage
        BY <4>1, <4>2, <2>1 DEF ReadyMessage, Ready
      <4> QED
        BY <3>2, <4>3 DEF Successor
    <3> QED
      BY <3>1, <3>2
  <2>3. queue' \in [Tenant -> Seq(ReadyMessage)]
    <3> DEFINE u == TenantOf(task[s].job)
               later == Successor(task[s])
    <3>1. queue' = [queue EXCEPT ![u] = @ \o later] /\ later \in Seq(ReadyMessage)
      BY <1>6, <2>2 DEF HandOff
    <3> HIDE DEF u, later
    <3>2. ASSUME u \in Tenant PROVE queue[u] \o later \in Seq(ReadyMessage)
      BY <3>1, <3>2 DEF ChainInv
    <3> QED
      BY <3>1, <3>2 DEF ChainInv
  <2> QED
    BY <1>6, <2>3, SlotStep DEF HandOff
<1>7. ASSUME NEW s \in Slot, Ack(s) PROVE ChainInv'
  <2>1. queue' \in [Tenant -> Seq(ReadyMessage)] /\ ran' = ran
    BY <1>7 DEF Ack, ChainInv
  <2> QED
    BY <1>7, <2>1, SlotStep DEF Ack
<1>8. ASSUME NEW t \in Tenant, WorkerDies(t) PROVE ChainInv'
  <2>1. ReadyMessage' = ReadyMessage
    BY <1>8 DEF WorkerDies, ReadyMessage, Ready
  <2>2. \A s \in Redelivered(t) : task[s] \in ReadyMessage
    BY DEF Redelivered, ChainInv
  <2>3. PICK order \in SetToSeqs(Redelivered(t)) :
           queue' = [queue EXCEPT ![t] =
                        @ \o [i \in 1 .. Len(order) |-> task[order[i]]]]
    BY <1>8 DEF WorkerDies
  <2>4. [i \in 1 .. Len(order) |-> task[order[i]]] \in Seq(ReadyMessage)
    BY <2>2, RedeliveredMessages
  <2>5. queue' \in [Tenant -> Seq(ReadyMessage)]
    BY <2>3, <2>4 DEF ChainInv
  <2>6. ASSUME NEW x \in Slot
        PROVE  pc'[x] = "idle" \/ (pc'[x] = pc[x] /\ task'[x] = task[x])
    BY <1>8 DEF WorkerDies
  <2>7. DOMAIN task' = Slot /\ DOMAIN pc' = Slot
    BY <1>8 DEF WorkerDies
  <2>8. ran' = ran
    BY <1>8 DEF WorkerDies
  <2>9. TenantIsolation'
    BY <2>6 DEF ChainInv, TenantIsolation
  <2>10. CrewAfterPredecessor'
    BY <2>8 DEF ChainInv, CrewAfterPredecessor
  <2> QED
    BY <2>1, <2>5, <2>6, <2>7, <2>8, <2>9, <2>10 DEF ChainInv
<1>9. CASE UNCHANGED vars
  BY <1>9 DEF vars, ChainInv, ReadyMessage, Ready, TenantIsolation,
              CrewAfterPredecessor
<1> QED
  BY <1>1, <1>2, <1>3, <1>4, <1>5, <1>6, <1>7, <1>8, <1>9
     DEF Next, Body, CrewRaises, Mismatch, ChildLost

-----------------------------------------------------------------------------
\* Crews run in order, whatever is delivered again.
THEOREM CrewsInOrder == Spec => []CrewAfterPredecessor
<1>1. ChainInv => CrewAfterPredecessor
  BY DEF ChainInv
<1> QED
  BY <1>1, ChainInvInit, ChainInvStep, PTL DEF Spec

\* No worker gets past the check with a job of another tenant.
THEOREM TenantsIsolated == Spec => []TenantIsolation
<1>1. ChainInv => TenantIsolation
  BY DEF ChainInv
<1> QED
  BY <1>1, ChainInvInit, ChainInvStep, PTL DEF Spec

-----------------------------------------------------------------------------
(***************************************************************************)
(* Until a worker process dies a job is in one place at most: one message  *)
(* in one queue, or one slot that has not handed it on.  The crews from    *)
(* there on have not run, and neither a job that failed nor one that was   *)
(* never enqueued is anywhere.                                             *)
(***************************************************************************)
Holds(s) == pc[s] \in {"running", "posting", "handing"}
Unrun(j, c) == \A d \in Crew : d >= c => ran[j][d] = 0
NextCrew(s) == IF pc[s] = "running" THEN task[s].crew ELSE task[s].crew + 1

OnePlace ==
    /\ \A t, u \in Tenant : \A k \in DOMAIN queue[t] : \A l \in DOMAIN queue[u] :
          queue[t][k].job = queue[u][l].job => t = u /\ k = l
    /\ \A s, r \in Slot :
          Holds(s) /\ Holds(r) /\ task[s].job = task[r].job => s = r
    /\ \A s \in Slot : \A t \in Tenant : \A k \in DOMAIN queue[t] :
          Holds(s) => queue[t][k].job # task[s].job

RestUnrun ==
    /\ \A t \in Tenant : \A k \in DOMAIN queue[t] :
          Unrun(queue[t][k].job, queue[t][k].crew)
    /\ \A s \in Slot : Holds(s) => Unrun(task[s].job, NextCrew(s))
    /\ \A j \in Job \ enqueued : Unrun(j, 1)
    /\ \A j \in Job : \A c \in Crew : ran[j][c] <= 1

OnlyLive ==
    /\ \A t \in Tenant : \A k \in DOMAIN queue[t] :
          queue[t][k].job \in enqueued \ halted
    /\ \A s \in Slot : Holds(s) => task[s].job \in enqueued \ halted
    /\ halted \subseteq enqueued

OnceInv == OnePlace /\ RestUnrun /\ OnlyLive
NoDeaths == \A t \in Tenant : deaths[t] = 0
RuntimeInv == ChainInv /\ TypeOK /\ (NoDeaths => OnceInv)

\* A typed state has a message in every busy slot and none in an idle one.
LEMMA BusySlots ==
    ASSUME ChainInv, NEW s \in Slot, pc[s] # "idle"
    PROVE  task[s] \in Message /\ task[s] # None /\ task[s].job \in Job
           /\ task[s].crew \in Crew
BY ThreeCrews DEF ChainInv, ReadyMessage, Message, None

\* Types at the start.
LEMMA RuntimeStarts == Init => RuntimeInv
<1> SUFFICES ASSUME Init PROVE RuntimeInv
  OBVIOUS
<1>1. TypeOK
  BY RuntimeBounds, ThreeCrews DEF Init, TypeOK
<1>2. \A t \in Tenant : DOMAIN queue[t] = {}
  BY DEF Init
<1>3. \A s \in Slot : ~ Holds(s)
  BY DEF Init, Holds
<1>4. \A j \in Job : Unrun(j, 1)
  BY DEF Init, Unrun
<1>5. \A j \in Job : \A c \in Crew : ran[j][c] <= 1
  BY DEF Init
<1>6. OnceInv
  BY <1>2, <1>3, <1>4, <1>5 DEF Init, OnceInv, OnePlace, RestUnrun, OnlyLive
<1> QED
  BY <1>1, <1>6, ChainInvInit DEF RuntimeInv

\* A slot goes on with its message, or gives it up.
LEMMA SlotTyped ==
    ASSUME ChainInv, TypeOK, NEW s \in Slot, pc[s] # "idle",
           NEW next \in {"idle", "running", "posting", "handing", "acking"},
           pc' = [pc EXCEPT ![s] = next],
           \/ next = "idle" /\ task' = [task EXCEPT ![s] = None]
           \/ next # "idle" /\ task' = task,
           queue' \in [Tenant -> Seq(Message)], ran' \in [Job -> [Crew -> Nat]],
           halted' \subseteq Job, UNCHANGED <<enqueued, deaths>>
    PROVE  TypeOK'
<1>1. \A x \in Slot : pc'[x] = "idle" <=> task'[x] = None
  <2> SUFFICES ASSUME NEW x \in Slot PROVE pc'[x] = "idle" <=> task'[x] = None
    OBVIOUS
  <2>1. CASE x = s
    BY <2>1, BusySlots DEF TypeOK
  <2>2. CASE x # s
    BY <2>2 DEF TypeOK
  <2> QED
    BY <2>1, <2>2
<1>2. pc' \in [Slot -> {"idle", "running", "posting", "handing", "acking"}]
  BY DEF TypeOK
<1>3. task' \in [Slot -> Message \cup {None}]
  BY DEF TypeOK
<1> QED
  BY <1>1, <1>2, <1>3 DEF TypeOK

\* Every step keeps the types.
LEMMA TypeStep == ChainInv /\ TypeOK /\ [Next]_vars /\ ChainInv' => TypeOK'
<1> SUFFICES ASSUME ChainInv, TypeOK, [Next]_vars, ChainInv' PROVE TypeOK'
  OBVIOUS
<1>1. queue' \in [Tenant -> Seq(Message)] /\ ran' \in [Job -> [Crew -> Nat]]
  <2>1. queue' \in [Tenant -> Seq(ReadyMessage')]
    BY DEF ChainInv
  <2>2. ReadyMessage' \subseteq Message
    BY DEF ReadyMessage
  <2>3. \A t \in Tenant : queue'[t] \in Seq(Message)
    BY <2>1, <2>2, SeqMonotone
  <2> QED
    BY <2>1, <2>3 DEF ChainInv
<1>2. ASSUME NEW j \in Job, EnqueueTurn(j) PROVE TypeOK'
  BY <1>1, <1>2 DEF EnqueueTurn, TypeOK
<1>3. ASSUME NEW s \in Slot, Deliver(s) PROVE TypeOK'
  <2>1. PICK m : m = Head(queue[s[1]])
    OBVIOUS
  <2>2. m \in Message /\ m # None
    <3>1. queue[s[1]] \in Seq(Message) /\ queue[s[1]] # <<>>
      BY <1>3 DEF Deliver, Slot, TypeOK
    <3>2. m \in Message
      BY <2>1, <3>1
    <3>3. m.crew # 0 /\ None.crew = 0
      BY <3>2, ThreeCrews DEF Message, None
    <3> QED
      BY <3>2, <3>3
  <2>3. task' = [task EXCEPT ![s] = m] /\ pc' = [pc EXCEPT ![s] = "running"]
    BY <1>3, <2>1 DEF Deliver
  <2>4. \A x \in Slot : pc'[x] = "idle" <=> task'[x] = None
    BY <2>2, <2>3 DEF TypeOK
  <2>5. /\ pc' \in [Slot -> {"idle", "running", "posting", "handing", "acking"}]
        /\ task' \in [Slot -> Message \cup {None}]
    BY <2>2, <2>3 DEF TypeOK
  <2> QED
    BY <1>1, <1>3, <2>4, <2>5 DEF Deliver, TypeOK
<1>4. ASSUME NEW s \in Slot, pc[s] # "idle", Halt(s) PROVE TypeOK'
  <2>1. halted' \subseteq Job
    BY <1>4, BusySlots DEF Halt, TypeOK
  <2> QED
    BY <1>1, <1>4, <2>1, SlotTyped DEF Halt
<1>5. ASSUME NEW s \in Slot, RunCrew(s) \/ PostDone(s) \/ HandOff(s) \/ Ack(s)
      PROVE TypeOK'
  <2>1. halted' \subseteq Job /\ pc[s] # "idle" /\ UNCHANGED <<enqueued, deaths>>
    BY <1>5 DEF RunCrew, PostDone, HandOff, Ack, TypeOK
  <2>2. CASE RunCrew(s)
    BY <1>1, <2>1, <2>2, SlotTyped DEF RunCrew
  <2>3. CASE PostDone(s)
    BY <1>1, <2>1, <2>3, SlotTyped DEF PostDone
  <2>4. CASE HandOff(s)
    BY <1>1, <2>1, <2>4, SlotTyped DEF HandOff
  <2>5. CASE Ack(s)
    BY <1>1, <2>1, <2>5, SlotTyped DEF Ack
  <2> QED
    BY <1>5, <2>2, <2>3, <2>4, <2>5
<1>6. ASSUME NEW t \in Tenant, WorkerDies(t) PROVE TypeOK'
  <2>1. deaths' \in [Tenant -> 0 .. MaxDeaths]
    BY <1>6, RuntimeBounds DEF WorkerDies, TypeOK
  <2>2. \A x \in Slot : \/ pc'[x] = "idle" /\ task'[x] = None
                        \/ pc'[x] = pc[x] /\ task'[x] = task[x]
    BY <1>6 DEF WorkerDies
  <2>3. DOMAIN pc' = Slot /\ DOMAIN task' = Slot
        /\ pc' = [x \in Slot |-> pc'[x]] /\ task' = [x \in Slot |-> task'[x]]
    BY <1>6 DEF WorkerDies
  <2> QED
    BY <1>1, <1>6, <2>1, <2>2, <2>3 DEF WorkerDies, TypeOK
<1>7. CASE UNCHANGED vars
  BY <1>7 DEF vars, TypeOK
<1> QED
  BY <1>2, <1>3, <1>4, <1>5, <1>6, <1>7
     DEF Next, Body, CrewRaises, Mismatch, ChildLost

\* A step that leaves the queues alone, lets no slot take or advance a message
\* and runs no crew keeps a job in one place; what fails must be in none.
LEMMA FewerHold ==
    ASSUME OnceInv, UNCHANGED <<enqueued, queue, ran>>,
           \A x \in Slot : Holds(x)' => /\ Holds(x) /\ task'[x] = task[x]
                                        /\ NextCrew(x)' = NextCrew(x),
           NEW F, halted' = halted \cup F, F \subseteq enqueued,
           \A t \in Tenant : \A k \in DOMAIN queue[t] : queue[t][k].job \notin F,
           \A x \in Slot : Holds(x)' => task[x].job \notin F
    PROVE  OnceInv'
<1>1. OnePlace'
  BY DEF OnceInv, OnePlace
<1>2. RestUnrun'
  <2>1. \A x \in Slot : Holds(x)' => Unrun(task[x].job, NextCrew(x))
    BY DEF OnceInv, RestUnrun
  <2>2. ASSUME NEW x \in Slot, Holds(x)' PROVE Unrun(task[x].job, NextCrew(x))'
    BY <2>1, <2>2 DEF Unrun
  <2> QED
    BY <2>2 DEF OnceInv, RestUnrun, Unrun
<1>3. OnlyLive'
  BY DEF OnceInv, OnlyLive
<1> QED
  BY <1>1, <1>2, <1>3 DEF OnceInv

\* A job that fails was only in the slot that gives it up.
LEMMA OnceHalt ==
    ASSUME ChainInv, OnceInv, NEW s \in Slot, Holds(s), Halt(s)
    PROVE  OnceInv'
<1>1. PICK j : j = task[s].job
  OBVIOUS
<1>2. halted' = halted \cup {j} /\ {j} \subseteq enqueued
      /\ UNCHANGED <<enqueued, queue, ran>>
  BY <1>1 DEF Halt, OnceInv, OnlyLive
<1>3. ASSUME NEW x \in Slot, Holds(x)'
      PROVE  /\ Holds(x) /\ task'[x] = task[x] /\ NextCrew(x)' = NextCrew(x)
             /\ x # s
  <2>1. x # s
    BY <1>3 DEF Halt, Holds, ChainInv
  <2>2. pc'[x] = pc[x] /\ task'[x] = task[x]
    BY <2>1 DEF Halt, ChainInv
  <2> QED
    BY <1>3, <2>1, <2>2 DEF Holds, NextCrew
<1>4. \A t \in Tenant : \A k \in DOMAIN queue[t] : queue[t][k].job \notin {j}
  BY <1>1 DEF OnceInv, OnePlace
<1>5. \A x \in Slot : Holds(x)' => task[x].job \notin {j}
  BY <1>1, <1>3 DEF OnceInv, OnePlace
<1> QED
  BY <1>2, <1>3, <1>4, <1>5, FewerHold

\* Reporting and acknowledging change no place.
LEMMA OnceOn ==
    ASSUME ChainInv, OnceInv, NEW s \in Slot, PostDone(s) \/ Ack(s)
    PROVE  OnceInv'
<1>1. ASSUME NEW x \in Slot, Holds(x)'
      PROVE  Holds(x) /\ task'[x] = task[x] /\ NextCrew(x)' = NextCrew(x)
  <2>1. CASE x = s
    BY <1>1, <2>1 DEF PostDone, Ack, Holds, NextCrew, ChainInv
  <2>2. CASE x # s
    <3>1. pc'[x] = pc[x] /\ task'[x] = task[x]
      BY <2>2 DEF PostDone, Ack, ChainInv
    <3> QED
      BY <1>1, <3>1 DEF Holds, NextCrew
  <2> QED
    BY <2>1, <2>2
<1>2. UNCHANGED <<enqueued, queue, ran, halted>>
  BY DEF PostDone, Ack
<1>3. PICK F : F = {}
  OBVIOUS
<1>4. /\ F \subseteq enqueued /\ halted' = halted \cup F
      /\ \A t \in Tenant : \A k \in DOMAIN queue[t] : queue[t][k].job \notin F
      /\ \A x \in Slot : Holds(x)' => task[x].job \notin F
  BY <1>2, <1>3
<1> QED
  BY <1>1, <1>2, <1>4, FewerHold

\* The head of a queue moves to a slot.
LEMMA OnceDeliver ==
    ASSUME ChainInv, OnceInv, NEW s \in Slot, Deliver(s)
    PROVE  OnceInv'
<1>1. PICK t, q, m : t = s[1] /\ q = queue[t] /\ m = Head(q)
  OBVIOUS
<1>2. t \in Tenant /\ q \in Seq(ReadyMessage) /\ q # <<>>
  BY <1>1 DEF Deliver, ChainInv, Slot
<1>3. /\ \A k \in DOMAIN Tail(q) : k + 1 \in DOMAIN q /\ Tail(q)[k] = q[k + 1]
      /\ \A k \in DOMAIN Tail(q) : k \in Nat \ {0}
      /\ 1 \in DOMAIN q /\ m = q[1] /\ Tail(q) \in Seq(ReadyMessage)
  BY <1>1, <1>2
<1>4. /\ queue' = [queue EXCEPT ![t] = Tail(q)] /\ task' = [task EXCEPT ![s] = m]
      /\ pc' = [pc EXCEPT ![s] = "running"] /\ pc[s] = "idle"
      /\ UNCHANGED <<enqueued, ran, halted>>
  BY <1>1 DEF Deliver
<1>5. /\ \A x \in Slot \ {s} : pc'[x] = pc[x] /\ task'[x] = task[x]
      /\ pc'[s] = "running" /\ task'[s] = m
      /\ \A u \in Tenant \ {t} : queue'[u] = queue[u]
      /\ queue'[t] = Tail(q)
  BY <1>2, <1>4 DEF ChainInv
<1>6. \A x \in Slot \ {s} :
          (Holds(x)' <=> Holds(x)) /\ NextCrew(x)' = NextCrew(x)
  BY <1>5 DEF Holds, NextCrew
<1> DEFINE From(u, k) == IF u = t THEN k + 1 ELSE k
<1>7. \A u \in Tenant : \A k \in DOMAIN queue'[u] :
          /\ From(u, k) \in DOMAIN queue[u]
          /\ queue'[u][k] = queue[u][From(u, k)]
          /\ (u = t => From(u, k) # 1)
  <2> SUFFICES ASSUME NEW u \in Tenant, NEW k \in DOMAIN queue'[u]
               PROVE  /\ From(u, k) \in DOMAIN queue[u]
                      /\ queue'[u][k] = queue[u][From(u, k)]
                      /\ (u = t => From(u, k) # 1)
    OBVIOUS
  <2>1. CASE u = t
    <3>1. k \in DOMAIN Tail(q) /\ queue'[u] = Tail(q) /\ queue[u] = q
      BY <1>1, <1>5, <2>1
    <3>2. k \in Nat \ {0} /\ k + 1 \in DOMAIN q /\ Tail(q)[k] = q[k + 1]
      BY <1>3, <3>1
    <3> QED
      BY <2>1, <3>1, <3>2
  <2>2. CASE u # t
    BY <1>5, <2>2
  <2> QED
    BY <2>1, <2>2
<1>8. OnePlace'
  <2>1. ASSUME NEW u \in Tenant, NEW v \in Tenant, NEW k \in DOMAIN queue'[u],
               NEW l \in DOMAIN queue'[v], queue'[u][k].job = queue'[v][l].job
        PROVE  u = v /\ k = l
    <3>1. u = v /\ From(u, k) = From(v, l)
      BY <1>7, <2>1 DEF OnceInv, OnePlace
    <3>2. CASE u = t
      <4>1. k \in Nat /\ l \in Nat
        BY <1>3, <1>5, <3>1, <3>2
      <4> QED
        BY <3>1, <3>2, <4>1
    <3>3. CASE u # t
      BY <3>1, <3>3
    <3> QED
      BY <3>2, <3>3
  <2>2. \A u \in Tenant : \A k \in DOMAIN queue'[u] : queue'[u][k].job # m.job
    BY <1>1, <1>2, <1>3, <1>7 DEF OnceInv, OnePlace
  <2>3. \A x \in Slot \ {s} : Holds(x) => task[x].job # m.job
    BY <1>1, <1>2, <1>3 DEF OnceInv, OnePlace
  <2>4. ASSUME NEW x \in Slot, NEW y \in Slot, Holds(x)', Holds(y)',
               task'[x].job = task'[y].job
        PROVE  x = y
    <3>1. CASE x = s \/ y = s
      BY <1>5, <1>6, <2>3, <2>4, <3>1
    <3>2. CASE x # s /\ y # s
      BY <1>5, <1>6, <2>4, <3>2 DEF OnceInv, OnePlace
    <3> QED
      BY <3>1, <3>2
  <2>5. ASSUME NEW x \in Slot, NEW u \in Tenant, NEW k \in DOMAIN queue'[u],
               Holds(x)'
        PROVE  queue'[u][k].job # task'[x].job
    <3>1. CASE x = s
      BY <1>5, <2>2, <3>1
    <3>2. CASE x # s
      BY <1>5, <1>6, <1>7, <2>5, <3>2 DEF OnceInv, OnePlace
    <3> QED
      BY <3>1, <3>2
  <2> QED
    BY <2>1, <2>4, <2>5 DEF OnePlace
<1>9. RestUnrun'
  <2>1. \A u \in Tenant : \A k \in DOMAIN queue'[u] :
            Unrun(queue'[u][k].job, queue'[u][k].crew)
    BY <1>7 DEF OnceInv, RestUnrun
  <2>2. ASSUME NEW x \in Slot, Holds(x)'
        PROVE  Unrun(task'[x].job, NextCrew(x)')
    <3>1. CASE x = s
      <4>1. Unrun(m.job, m.crew)
        BY <1>1, <1>2, <1>3 DEF OnceInv, RestUnrun
      <4>2. NextCrew(s)' = m.crew
        BY <1>5 DEF NextCrew
      <4> QED
        BY <1>5, <3>1, <4>1, <4>2
    <3>2. CASE x # s
      BY <1>5, <1>6, <2>2, <3>2 DEF OnceInv, RestUnrun
    <3> QED
      BY <3>1, <3>2
  <2> QED
    BY <1>4, <2>1, <2>2 DEF OnceInv, RestUnrun, Unrun
<1>10. OnlyLive'
  <2>1. \A u \in Tenant : \A k \in DOMAIN queue'[u] :
            queue'[u][k].job \in enqueued \ halted
    BY <1>7 DEF OnceInv, OnlyLive
  <2>2. m.job \in enqueued \ halted
    BY <1>1, <1>2, <1>3 DEF OnceInv, OnlyLive
  <2>3. ASSUME NEW x \in Slot, Holds(x)' PROVE task'[x].job \in enqueued \ halted
    <3>1. CASE x = s
      BY <1>5, <2>2, <3>1
    <3>2. CASE x # s
      BY <1>5, <1>6, <2>3, <3>2 DEF OnceInv, OnlyLive
    <3> QED
      BY <3>1, <3>2
  <2> QED
    BY <1>4, <2>1, <2>3 DEF OnceInv, OnlyLive
<1> QED
  BY <1>8, <1>9, <1>10 DEF OnceInv

\* The queues after one message joined one of them.
Joined(t, m) ==
    \A u \in Tenant : \A k \in DOMAIN queue'[u] :
        \/ k \in DOMAIN queue[u] /\ queue'[u][k] = queue[u][k]
        \/ u = t /\ k = Len(queue[t]) + 1 /\ queue'[u][k] = m

\* Appending one message does just that.
LEMMA OneJoins ==
    ASSUME NEW M, queue \in [Tenant -> Seq(M)], NEW t, NEW m \in M,
           queue' = [queue EXCEPT ![t] = @ \o <<m>>]
    PROVE  Joined(t, m)
<1> SUFFICES ASSUME NEW u \in Tenant, NEW k \in DOMAIN queue'[u]
             PROVE  \/ k \in DOMAIN queue[u] /\ queue'[u][k] = queue[u][k]
                    \/ u = t /\ k = Len(queue[t]) + 1 /\ queue'[u][k] = m
  BY DEF Joined
<1>1. CASE u = t
  <2>1. PICK q \in Seq(M) : q = queue[t]
    BY <1>1
  <2>2. queue'[u] = q \o <<m>>
    BY <1>1, <2>1
  <2> QED
    BY <1>1, <2>1, <2>2
<1>2. CASE u # t
  BY <1>2
<1> QED
  BY <1>1, <1>2

\* A message of a job that is in no place of the next state may join a queue.
LEMMA JoinKeeps ==
    ASSUME OnceInv, NEW t, NEW m, Joined(t, m), ran' = ran,
           enqueued \subseteq enqueued', halted' = halted,
           m.job \in enqueued' \ halted, Unrun(m.job, m.crew),
           \A u \in Tenant : \A k \in DOMAIN queue[u] : queue[u][k].job # m.job,
           \A x \in Slot : Holds(x)' =>
              /\ Holds(x) /\ task'[x] = task[x] /\ NextCrew(x)' = NextCrew(x)
              /\ task[x].job # m.job
    PROVE  OnceInv'
<1>1. OnePlace'
  <2>1. ASSUME NEW u \in Tenant, NEW v \in Tenant, NEW k \in DOMAIN queue'[u],
               NEW l \in DOMAIN queue'[v], queue'[u][k].job = queue'[v][l].job
        PROVE  u = v /\ k = l
    BY <2>1 DEF Joined, OnceInv, OnePlace
  <2>2. \A x, y \in Slot :
           Holds(x)' /\ Holds(y)' /\ task'[x].job = task'[y].job => x = y
    BY DEF OnceInv, OnePlace
  <2>3. \A x \in Slot : \A u \in Tenant : \A k \in DOMAIN queue'[u] :
           Holds(x)' => queue'[u][k].job # task'[x].job
    BY DEF Joined, OnceInv, OnePlace
  <2> QED
    BY <2>1, <2>2, <2>3 DEF OnePlace
<1>2. RestUnrun'
  <2>1. \A u \in Tenant : \A k \in DOMAIN queue'[u] :
            Unrun(queue'[u][k].job, queue'[u][k].crew)
    BY DEF Joined, OnceInv, RestUnrun
  <2>2. \A x \in Slot : Holds(x)' => Unrun(task'[x].job, NextCrew(x)')
    BY DEF OnceInv, RestUnrun
  <2>3. \A j \in Job \ enqueued' : Unrun(j, 1)
    BY DEF OnceInv, RestUnrun
  <2> QED
    BY <2>1, <2>2, <2>3 DEF OnceInv, RestUnrun, Unrun
<1>3. OnlyLive'
  <2>1. \A u \in Tenant : \A k \in DOMAIN queue'[u] :
            queue'[u][k].job \in enqueued' \ halted
    BY DEF Joined, OnceInv, OnlyLive
  <2> QED
    BY <2>1 DEF OnceInv, OnlyLive
<1> QED
  BY <1>1, <1>2, <1>3 DEF OnceInv

\* A job that is enqueued was in no place.
LEMMA OnceEnqueue ==
    ASSUME ChainInv, OnceInv, NEW j \in Job, EnqueueTurn(j)
    PROVE  OnceInv'
<1>1. PICK m : m = [job |-> j, crew |-> 1]
  OBVIOUS
<1>2. m \in ReadyMessage /\ m.job = j /\ m.crew = 1
  BY <1>1, ThreeCrews DEF ReadyMessage, Ready, Message
<1>3. PICK t \in Tenant : queue' = [queue EXCEPT ![t] = @ \o <<m>>]
  BY <1>1 DEF EnqueueTurn, Dispatched
<1>4. Joined(t, m)
  BY <1>2, <1>3, OneJoins DEF ChainInv
<1>5. /\ ran' = ran /\ halted' = halted /\ task' = task /\ pc' = pc
      /\ enqueued' = enqueued \cup {j} /\ j \notin enqueued
  BY DEF EnqueueTurn
<1>6. m.job \in enqueued' \ halted /\ Unrun(m.job, m.crew)
  BY <1>2, <1>5 DEF OnceInv, OnlyLive, RestUnrun
<1>7. \A u \in Tenant : \A k \in DOMAIN queue[u] : queue[u][k].job # m.job
  BY <1>2, <1>5 DEF OnceInv, OnlyLive
<1>8. \A x \in Slot : Holds(x)' =>
         /\ Holds(x) /\ task'[x] = task[x] /\ NextCrew(x)' = NextCrew(x)
         /\ task[x].job # m.job
  BY <1>2, <1>5 DEF OnceInv, OnlyLive, Holds, NextCrew
<1> QED
  BY <1>4, <1>5, <1>6, <1>7, <1>8, JoinKeeps

\* The message of the next crew takes the place of the slot that handed on.
LEMMA OnceHandOff ==
    ASSUME ChainInv, ChainInv', OnceInv, NEW s \in Slot, HandOff(s)
    PROVE  OnceInv'
<1>1. PICK m, t : m = [task[s] EXCEPT !.crew = @ + 1] /\ t = TenantOf(task[s].job)
  OBVIOUS
<1>2. task[s] \in Message /\ task[s].crew \in Crew /\ pc[s] = "handing"
  BY BusySlots DEF HandOff
<1>3. m.job = task[s].job /\ m.crew = task[s].crew + 1
  BY <1>1, <1>2 DEF Message
<1>4. /\ UNCHANGED <<enqueued, task, ran, halted>>
      /\ pc' = [pc EXCEPT ![s] = "acking"]
  BY DEF HandOff
<1>5. ASSUME NEW x \in Slot, Holds(x)'
      PROVE  Holds(x) /\ task'[x] = task[x] /\ NextCrew(x)' = NextCrew(x) /\ x # s
  <2>1. x # s
    BY <1>4, <1>5 DEF Holds, ChainInv
  <2> QED
    BY <1>4, <1>5, <2>1 DEF Holds, NextCrew, ChainInv
<1>6. Holds(s)
  BY <1>2 DEF Holds
<1>7. CASE task[s].crew = Len(CREWS)
  <2>1. queue' = queue
    <3>1. queue' = [queue EXCEPT ![t] = @ \o <<>>]
      BY <1>1, <1>7 DEF HandOff, Successor
    <3>2. \A u \in Tenant : queue[u] \in Seq(ReadyMessage)
      BY DEF ChainInv
    <3>3. \A u \in Tenant : queue[u] \o <<>> = queue[u]
      BY <3>2
    <3> QED
      BY <3>1, <3>3 DEF ChainInv
  <2>2. PICK F : F = {}
    OBVIOUS
  <2>3. /\ F \subseteq enqueued /\ halted' = halted \cup F
        /\ \A u \in Tenant : \A k \in DOMAIN queue[u] : queue[u][k].job \notin F
        /\ \A x \in Slot : Holds(x)' => task[x].job \notin F
    BY <1>4, <2>2
  <2> QED
    BY <1>4, <1>5, <2>1, <2>3, FewerHold
<1>8. CASE task[s].crew # Len(CREWS)
  <2>1. queue' = [queue EXCEPT ![t] = @ \o <<m>>]
    BY <1>1, <1>8 DEF HandOff, Successor
  <2>2. m \in Message
    BY <1>1, <1>2, <1>8, ThreeCrews DEF Message
  <2>3. \A u \in Tenant : queue[u] \in Seq(Message)
    BY SeqMonotone DEF ChainInv, ReadyMessage
  <2>4. queue \in [Tenant -> Seq(Message)]
    BY <2>3 DEF ChainInv
  <2>5. Joined(t, m)
    BY <2>1, <2>2, <2>4, OneJoins
  <2>6. m.job \in enqueued' \ halted
    BY <1>3, <1>4, <1>6 DEF OnceInv, OnlyLive
  <2>7. Unrun(m.job, m.crew)
    <3>1. NextCrew(s) = m.crew
      BY <1>2, <1>3 DEF NextCrew
    <3> QED
      BY <1>3, <1>6, <3>1 DEF OnceInv, RestUnrun
  <2>8. \A u \in Tenant : \A k \in DOMAIN queue[u] : queue[u][k].job # m.job
    BY <1>3, <1>6 DEF OnceInv, OnePlace
  <2>9. \A x \in Slot : Holds(x)' =>
           /\ Holds(x) /\ task'[x] = task[x] /\ NextCrew(x)' = NextCrew(x)
           /\ task[x].job # m.job
    BY <1>3, <1>5, <1>6 DEF OnceInv, OnePlace
  <2> QED
    BY <1>4, <2>5, <2>6, <2>7, <2>8, <2>9, JoinKeeps
<1> QED
  BY <1>7, <1>8

\* A crew that had not run has run once, and the job's place is past it.
LEMMA OnceRun ==
    ASSUME ChainInv, TypeOK, OnceInv, NEW s \in Slot, RunCrew(s)
    PROVE  OnceInv'
<1>1. PICK j, c : j = task[s].job /\ c = task[s].crew
  OBVIOUS
<1>2. j \in Job /\ c \in Crew /\ Holds(s) /\ pc[s] = "running"
  BY <1>1, BusySlots DEF RunCrew, Holds
<1>3. /\ UNCHANGED <<enqueued, queue, task, halted>>
      /\ ran' = [ran EXCEPT ![j][c] = @ + 1]
      /\ pc' = [pc EXCEPT ![s] = "posting"]
  BY <1>1 DEF RunCrew
<1>4. Unrun(j, c)
  <2>1. NextCrew(s) = c
    BY <1>1, <1>2 DEF NextCrew
  <2> QED
    BY <1>1, <1>2, <2>1 DEF OnceInv, RestUnrun
<1>5. /\ ran[j][c] = 0 /\ ran'[j][c] = 1
      /\ \A i \in Job, d \in Crew : i # j \/ d # c => ran'[i][d] = ran[i][d]
  <2>1. ran[j][c] = 0
    BY <1>2, <1>4, ThreeCrews DEF Unrun
  <2>2. ran \in [Job -> [Crew -> Nat]]
    BY DEF TypeOK
  <2> QED
    BY <1>2, <1>3, <2>1, <2>2
<1>6. ASSUME NEW i \in Job, NEW d, Unrun(i, d), i # j \/ d = c + 1
      PROVE  Unrun(i, d)'
  <2> SUFFICES ASSUME NEW e \in Crew, e >= d PROVE ran'[i][e] = 0
    BY DEF Unrun
  <2>1. i # j \/ e # c
    BY <1>2, <1>6, ThreeCrews
  <2> QED
    BY <1>5, <1>6, <2>1 DEF Unrun
<1>7. \A x \in Slot : Holds(x)' <=> Holds(x)
  BY <1>2, <1>3 DEF Holds, ChainInv
<1>8. OnePlace'
  BY <1>3, <1>7 DEF OnceInv, OnePlace
<1>9. OnlyLive'
  BY <1>3, <1>7 DEF OnceInv, OnlyLive
<1>10. RestUnrun'
  <2>1. ASSUME NEW t \in Tenant, NEW k \in DOMAIN queue[t]
        PROVE  Unrun(queue[t][k].job, queue[t][k].crew)'
    <3>1. PICK i, d : i = queue[t][k].job /\ d = queue[t][k].crew
      OBVIOUS
    <3>2. i # j /\ Unrun(i, d)
      BY <1>1, <1>2, <3>1 DEF OnceInv, OnePlace, RestUnrun
    <3>3. i \in Job
      <4>1. queue[t] \in Seq(Message)
        BY DEF TypeOK
      <4>2. queue[t][k] \in Message
        BY <4>1
      <4> QED
        BY <3>1, <4>2 DEF Message
    <3>4. Unrun(i, d)'
      BY <1>6, <3>2, <3>3
    <3> QED
      BY <1>3, <3>1, <3>4 DEF Unrun
  <2>2. ASSUME NEW x \in Slot, Holds(x)
        PROVE  Unrun(task[x].job, NextCrew(x))'
    <3>1. PICK i, d : i = task[x].job /\ d = NextCrew(x)
      OBVIOUS
    <3>2. i \in Job /\ Unrun(i, d)
      BY <2>2, <3>1, BusySlots DEF Holds, OnceInv, RestUnrun
    <3>3. CASE x = s
      <4>1. NextCrew(x)' = c + 1 /\ task'[x].job = j
        BY <1>1, <1>3, <3>3 DEF NextCrew, ChainInv
      <4>2. Unrun(j, c + 1)
        BY <1>2, <1>4, ThreeCrews DEF Unrun
      <4>3. Unrun(j, c + 1)'
        BY <1>2, <1>6, <4>2
      <4> QED
        BY <4>1, <4>3 DEF Unrun
    <3>4. CASE x # s
      <4>1. i # j
        BY <1>1, <1>2, <2>2, <3>1, <3>4 DEF OnceInv, OnePlace
      <4>2. Unrun(i, d)'
        BY <1>6, <3>2, <4>1
      <4>3. task'[x].job = i /\ NextCrew(x)' = d
        BY <1>3, <3>1, <3>4 DEF NextCrew, ChainInv
      <4> QED
        BY <4>2, <4>3 DEF Unrun
    <3> QED
      BY <3>3, <3>4
  <2>3. ASSUME NEW i \in Job \ enqueued PROVE Unrun(i, 1)'
    <3>1. i # j /\ Unrun(i, 1)
      BY <1>1, <1>2 DEF OnceInv, OnlyLive, RestUnrun
    <3> QED
      BY <1>6, <3>1
  <2>4. ASSUME NEW i \in Job, NEW d \in Crew PROVE ran'[i][d] <= 1
    BY <1>5 DEF OnceInv, RestUnrun
  <2> QED
    BY <1>3, <1>7, <2>1, <2>2, <2>3, <2>4 DEF RestUnrun
<1> QED
  BY <1>8, <1>9, <1>10 DEF OnceInv

\* Without a death every step keeps a job in one place.
LEMMA OnceStep ==
    ASSUME ChainInv, ChainInv', TypeOK, OnceInv, [Next]_vars, NoDeaths'
    PROVE  OnceInv'
<1>1. ASSUME NEW s \in Slot, Body(s) \/ ChildLost(s) PROVE OnceInv'
  <2>1. RunCrew(s) \/ (Holds(s) /\ Halt(s))
    BY <1>1 DEF Body, CrewRaises, Mismatch, ChildLost, Holds
  <2> QED
    BY <2>1, OnceRun, OnceHalt
<1>2. ASSUME NEW t \in Tenant, WorkerDies(t) PROVE FALSE
  <2>1. deaths'[t] = deaths[t] + 1 /\ deaths[t] \in Nat
    BY <1>2, RuntimeBounds DEF WorkerDies, TypeOK
  <2>2. deaths'[t] = 0
    BY DEF NoDeaths
  <2> QED
    BY <2>1, <2>2
<1>3. CASE UNCHANGED vars
  <2>1. PICK F : F = {}
    OBVIOUS
  <2>2. /\ F \subseteq enqueued /\ halted' = halted \cup F
        /\ \A u \in Tenant : \A k \in DOMAIN queue[u] : queue[u][k].job \notin F
        /\ \A x \in Slot : Holds(x)' => task[x].job \notin F
    BY <1>3, <2>1 DEF vars
  <2>3. \A x \in Slot : Holds(x)' => /\ Holds(x) /\ task'[x] = task[x]
                                     /\ NextCrew(x)' = NextCrew(x)
    BY <1>3 DEF vars, Holds, NextCrew
  <2>4. UNCHANGED <<enqueued, queue, ran>>
    BY <1>3 DEF vars
  <2> QED
    BY <2>2, <2>3, <2>4, FewerHold
<1>4. CASE \E j \in Job : EnqueueTurn(j)
  BY <1>4, OnceEnqueue
<1>5. CASE \E s \in Slot : Deliver(s)
  BY <1>5, OnceDeliver
<1>6. CASE \E s \in Slot : PostDone(s) \/ Ack(s)
  BY <1>6, OnceOn
<1>7. CASE \E s \in Slot : HandOff(s)
  BY <1>7, OnceHandOff
<1> QED
  BY <1>1, <1>2, <1>3, <1>4, <1>5, <1>6, <1>7 DEF Next

\* The whole invariant is kept.
LEMMA RuntimeStep == RuntimeInv /\ [Next]_vars => RuntimeInv'
<1> SUFFICES ASSUME RuntimeInv, [Next]_vars PROVE RuntimeInv'
  OBVIOUS
<1>1. ChainInv' /\ TypeOK'
  BY ChainInvStep, TypeStep DEF RuntimeInv
<1>2. ASSUME NoDeaths' PROVE NoDeaths
  <2> SUFFICES ASSUME NEW t \in Tenant PROVE deaths[t] = 0
    BY DEF NoDeaths
  <2>1. deaths'[t] = 0
    BY <1>2 DEF NoDeaths
  <2>2. deaths[t] \in Nat
    BY RuntimeBounds DEF RuntimeInv, TypeOK
  <2>3. deaths'[t] = deaths[t] \/ deaths'[t] = deaths[t] + 1
    <3>1. deaths' = deaths \/ \E u \in Tenant : WorkerDies(u)
      BY DEF Next, vars, EnqueueTurn, Deliver, Body, RunCrew, CrewRaises, Mismatch,
             Halt, PostDone, HandOff, Ack, ChildLost
    <3>2. DOMAIN deaths = Tenant
      BY DEF RuntimeInv, TypeOK
    <3> QED
      BY <3>1, <3>2 DEF WorkerDies
  <2> QED
    BY <2>1, <2>2, <2>3
<1>3. NoDeaths' => OnceInv'
  BY <1>1, <1>2, OnceStep DEF RuntimeInv
<1> QED
  BY <1>1, <1>3 DEF RuntimeInv

\* So it holds for ever.
LEMMA RuntimeInvariant == Spec => []RuntimeInv
BY RuntimeStarts, RuntimeStep, PTL DEF Spec

\* The harness stays well typed; a slot is idle exactly when it has no message.
THEOREM RuntimeTyped == Spec => []TypeOK
<1>1. RuntimeInv => TypeOK
  BY DEF RuntimeInv
<1> QED
  BY <1>1, RuntimeInvariant, PTL

\* celery_app.py, acks_late: until a worker process dies no crew runs twice for a
\* job, whatever is misrouted, raises, or loses its child or its callback.
THEOREM CrewsRunOnce == Spec => []RunsOnceUndisturbed
<1>1. RuntimeInv => RunsOnceUndisturbed
  BY DEF RuntimeInv, OnceInv, RestUnrun, RunsOnceUndisturbed, NoDeaths
<1> QED
  BY <1>1, RuntimeInvariant, PTL

\* agents/runtime/README.md: a failure in any link halts the rest of the chain.
THEOREM FailureEndsChain == Spec => HaltedStopsChain
<1>1. ASSUME RuntimeInv, [Next]_vars
      PROVE  [\A j \in halted : NoDeaths => ran'[j] = ran[j]]_vars
  <2> SUFFICES ASSUME NEW j \in halted, NoDeaths PROVE ran'[j] = ran[j]
    OBVIOUS
  <2>1. CASE \E s \in Slot : RunCrew(s)
    <3>1. PICK s \in Slot : RunCrew(s)
      BY <2>1
    <3>2. Holds(s) /\ task[s].job # j
      BY <1>1, <3>1 DEF RunCrew, Holds, RuntimeInv, OnceInv, OnlyLive
    <3>3. ran \in [Job -> [Crew -> Nat]] /\ j \in Job
      BY <1>1 DEF RuntimeInv, TypeOK
    <3> QED
      BY <3>1, <3>2, <3>3 DEF RunCrew
  <2>2. CASE ran' = ran
    BY <2>2
  <2>3. ran' = ran \/ \E s \in Slot : RunCrew(s)
    BY <1>1 DEF Next, vars, EnqueueTurn, Deliver, Body, CrewRaises, Mismatch, Halt,
                PostDone, HandOff, Ack, ChildLost, WorkerDies
  <2> QED
    BY <2>1, <2>2, <2>3
<1>2. Spec => [][Next]_vars
  BY DEF Spec
<1>3. [\A j \in halted : NoDeaths => ran'[j] = ran[j]]_vars
      => [\A j \in halted :
            (\A t \in Tenant : deaths[t] = 0) => ran'[j] = ran[j]]_vars
  BY DEF NoDeaths
<1> QED
  BY <1>1, <1>2, <1>3, RuntimeInvariant, PTL DEF HaltedStopsChain

=============================================================================
