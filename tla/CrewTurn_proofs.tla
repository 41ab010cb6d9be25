--------------------------- MODULE CrewTurn_proofs --------------------------
(***************************************************************************)
(* Machine-checked theorems about CrewTurn, for every number of slots and  *)
(* of tool calls, all namespaces and all profiles.                         *)
(***************************************************************************)
EXTENDS MCCrewTurn, SpatialEffects_proofs, SequenceTheorems, FiniteSetTheorems,
        TLAPS

EventId == Run \X Nat
Position == [ns : Namespace, position : Nat]
Node == [id : EventId, causes : SUBSET Position]

(***************************************************************************)
(* A DAG into which only events of namespace ns were committed.  That its  *)
(* events are all in the index is what makes the ids in a situation report *)
(* resolve later; that a crew commits to one namespace is what keeps a     *)
(* resolved predecessor out of the others.                                 *)
(***************************************************************************)
Typed(d) ==
    /\ d.posets \in [Namespace -> Seq(Node)]
    /\ d.index \in [DOMAIN d.index -> Position]
Homed(d, ns) == \A e \in DOMAIN d.index : d.index[e].ns = ns
Known(d, ns) == Read(d, ns) \subseteq DOMAIN d.index
Sound(d, ns) ==
    Typed(d) /\ Homed(d, ns) /\ Known(d, ns) /\ Indexed(d) /\ CausesEarlier(d)

\* A DAG without events is sound.
LEMMA NewDagSound == ASSUME NEW ns \in Namespace PROVE Sound(NewDag, ns)
<1>1. NewDag.posets = [n \in Namespace |-> <<>>] /\ NewDag.index = <<>>
  BY DEF NewDag
<1>2. DOMAIN NewDag.index = {}
  BY <1>1
<1>3. \A n \in Namespace : Len(NewDag.posets[n]) = 0
  BY <1>1
<1>4. Typed(NewDag)
  BY <1>1, <1>2 DEF Typed
<1>5. Known(NewDag, ns)
  BY <1>3 DEF Known, Read
<1> QED
  BY <1>2, <1>3, <1>4, <1>5 DEF Sound, Homed, Indexed, CausesEarlier

\* Predecessors of a sound DAG's index resolve.
LEMMA IndexResolves ==
    ASSUME NEW ns \in Namespace, NEW d, Sound(d, ns),
           NEW P \in SUBSET DOMAIN d.index
    PROVE  Resolves(d, ns, P)
BY DEF Sound, Homed, Resolves

\* A commit whose predecessors are in the index keeps a DAG sound, and the
\* events it had in the index.
LEMMA CommitSound ==
    ASSUME NEW ns \in Namespace, NEW d, Sound(d, ns), NEW id \in EventId,
           NEW P \in SUBSET DOMAIN d.index
    PROVE  /\ Sound(Committed(d, ns, id, P), ns)
           /\ DOMAIN d.index \subseteq DOMAIN Committed(d, ns, id, P).index
<1> DEFINE c == Committed(d, ns, id, P)
           node == [id |-> id, causes |-> {d.index[p] : p \in P}]
           n == Len(d.posets[ns])
<1>1. c.posets = [d.posets EXCEPT ![ns] = Append(@, node)]
  BY DEF Committed
<1>2. c.index = [e \in DOMAIN d.index \cup {id} |->
                    IF e = id THEN NextPlace(d, ns) ELSE d.index[e]]
  BY DEF Committed
<1> HIDE DEF c
<1>3. /\ d.posets \in [Namespace -> Seq(Node)]
      /\ d.index \in [DOMAIN d.index -> Position]
  BY DEF Sound, Typed
<1>4. n \in Nat /\ NextPlace(d, ns) = [ns |-> ns, position |-> n + 1]
  BY <1>3 DEF NextPlace, Place
<1>5. NextPlace(d, ns) \in Position
  BY <1>4 DEF Position
<1>6. node \in Node
  BY <1>3 DEF Node
<1>7. DOMAIN c.index = DOMAIN d.index \cup {id}
  BY <1>2
<1>8. Typed(c)
  <2>1. c.posets \in [Namespace -> Seq(Node)]
    BY <1>1, <1>3, <1>6
  <2>2. c.index \in [DOMAIN c.index -> Position]
    BY <1>2, <1>3, <1>5, <1>7
  <2> QED
    BY <2>1, <2>2 DEF Typed
<1>9. Homed(c, ns)
  BY <1>2, <1>4, <1>7 DEF Homed, Sound
<1>10. /\ c.posets[ns] = Append(d.posets[ns], node)
       /\ Len(c.posets[ns]) = n + 1
       /\ c.posets[ns][n + 1] = node
       /\ \A i \in 1 .. n : c.posets[ns][i] = d.posets[ns][i]
       /\ \A m \in Namespace : m # ns => c.posets[m] = d.posets[m]
  BY <1>1, <1>3, <1>6
<1>11. Known(c, ns)
  <2> SUFFICES ASSUME NEW i \in 1 .. n + 1
               PROVE  c.posets[ns][i].id \in DOMAIN c.index
    BY <1>10 DEF Known, Read
  <2>1. CASE i = n + 1
    BY <2>1, <1>7, <1>10
  <2>2. CASE i \in 1 .. n
    BY <2>2, <1>7, <1>10 DEF Sound, Known, Read
  <2> QED
    BY <2>1, <2>2, <1>4
<1>12. Indexed(c)
  <2> SUFFICES ASSUME NEW e \in DOMAIN c.index
               PROVE  /\ c.index[e].ns \in Namespace
                      /\ c.index[e].position \in 1 .. Len(c.posets[c.index[e].ns])
    BY DEF Indexed
  <2>1. c.index[e].ns = ns
    BY <1>9 DEF Homed
  <2>2. c.index[e].position \in 1 .. n + 1
    <3>1. CASE e = id
      BY <3>1, <1>2, <1>4, <1>7
    <3>2. CASE e # id
      <4>1. e \in DOMAIN d.index /\ c.index[e] = d.index[e]
        BY <3>2, <1>2, <1>7
      <4> QED
        BY <4>1, <2>1, <1>4 DEF Sound, Indexed
    <3> QED
      BY <3>1, <3>2
  <2> QED
    BY <2>1, <2>2, <1>10
<1>13. CausesEarlier(c)
  <2>1. \A cause \in node.causes : cause.ns = ns /\ cause.position \in 1 .. n
    <3> SUFFICES ASSUME NEW p \in P
                 PROVE  d.index[p].ns = ns /\ d.index[p].position \in 1 .. n
      OBVIOUS
    <3> QED
      BY DEF Sound, Homed, Indexed
  <2> SUFFICES ASSUME NEW m \in Namespace, NEW i \in 1 .. Len(c.posets[m]),
                      NEW cause \in c.posets[m][i].causes
               PROVE  cause.ns = m /\ cause.position \in 1 .. i - 1
    BY DEF CausesEarlier
  <2>2. CASE m # ns
    BY <2>2, <1>10 DEF Sound, CausesEarlier
  <2>3. CASE m = ns /\ i = n + 1
    BY <2>3, <2>1, <1>4, <1>10
  <2>4. CASE m = ns /\ i \in 1 .. n
    BY <2>4, <1>10 DEF Sound, CausesEarlier
  <2> QED
    BY <2>2, <2>3, <2>4, <1>4, <1>10
<1> QED
  BY <1>7, <1>8, <1>9, <1>11, <1>12, <1>13 DEF Sound, c

-----------------------------------------------------------------------------
(* The inductive invariant.                                                *)

DagInv ==
    /\ scenario \in [Slot -> Namespace]
    /\ DOMAIN dag = Run /\ DOMAIN stash = Run
    /\ \A run \in Run : /\ Sound(dag[run], scenario[run[1]])
                        /\ stash[run] \subseteq DOMAIN dag[run].index

\* A length plus one is a number.
LEMMA SuccLength ==
    ASSUME NEW S, NEW s \in Seq(S) PROVE Len(s) + 1 \in Nat
OBVIOUS

\* A run has a slot.
LEMMA RunSlot == \A run \in Run : run[1] \in Slot
BY DEF Run

\* The invariant holds before the first request.
LEMMA DagInvInit == Init => DagInv
<1> SUFFICES ASSUME Init PROVE DagInv
  OBVIOUS
<1>1. scenario \in [Slot -> Namespace]
  BY NamespacesExist DEF Init
<1>2. \A run \in Run : dag[run] = NewDag /\ stash[run] = {}
  BY DEF Init
<1> QED
  BY <1>1, <1>2, NewDagSound, RunSlot DEF Init, DagInv

\* A step that commits one event of a run keeps the invariant.
LEMMA CommitStep ==
    ASSUME DagInv, NEW run \in Run, NEW P \in SUBSET DOMAIN dag[run].index,
           CommitEvent(run, P), UNCHANGED <<scenario, stash>>
    PROVE  DagInv'
<1> DEFINE ns == scenario[run[1]]
<1>1. ns \in Namespace /\ Sound(dag[run], ns)
  BY RunSlot DEF DagInv
<1>2. NextId(run) \in EventId
  <2>1. dag[run].posets[ns] \in Seq(Node)
    BY <1>1 DEF Sound, Typed
  <2>2. Len(dag[run].posets[ns]) + 1 \in Nat
    BY <2>1, SuccLength
  <2> QED
    BY <2>2 DEF NextId, EventId
<1>3. /\ DOMAIN dag' = Run
      /\ dag'[run] = Committed(dag[run], ns, NextId(run), P)
      /\ \A other \in Run \ {run} : dag'[other] = dag[other]
  BY DEF CommitEvent, DagInv
<1>4. /\ Sound(dag'[run], ns)
      /\ DOMAIN dag[run].index \subseteq DOMAIN dag'[run].index
  BY <1>1, <1>2, <1>3, CommitSound
<1>5. ASSUME NEW other \in Run
      PROVE  /\ Sound(dag'[other], scenario[other[1]])
             /\ stash[other] \subseteq DOMAIN dag'[other].index
  <2>1. CASE other = run
    BY <2>1, <1>4 DEF DagInv
  <2>2. CASE other # run
    BY <2>2, <1>3 DEF DagInv
  <2> QED
    BY <2>1, <2>2
<1> QED
  BY <1>3, <1>5 DEF DagInv

\* A step that only changes what S3's context of a run cites, to events of the
\* run's DAG, keeps it.
LEMMA StashStep ==
    ASSUME DagInv, NEW run \in Run, NEW P \in SUBSET DOMAIN dag[run].index,
           stash' = [stash EXCEPT ![run] = P], UNCHANGED <<scenario, dag>>
    PROVE  DagInv'
<1>1. ASSUME NEW other \in Run
      PROVE  /\ Sound(dag[other], scenario[other[1]])
             /\ stash'[other] \subseteq DOMAIN dag[other].index
  BY DEF DagInv
<1> QED
  BY <1>1 DEF DagInv

\* Every step of the worker keeps it.
LEMMA DagInvStep == DagInv /\ [Next]_vars => DagInv'
<1> SUFFICES ASSUME DagInv, [Next]_vars PROVE DagInv'
  OBVIOUS
<1>1. ASSUME NEW r \in Slot, RunTurn(r) PROVE DagInv'
  <2>1. PICK ns \in Namespace : scenario' = [scenario EXCEPT ![r] = ns]
    BY <1>1 DEF RunTurn
  <2>2. scenario' \in [Slot -> Namespace] /\ scenario'[r] = ns
    BY <2>1 DEF DagInv
  <2>3. DOMAIN dag' = Run /\ DOMAIN stash' = Run
    BY <1>1 DEF RunTurn
  <2>4. ASSUME NEW run \in Run
        PROVE  /\ Sound(dag'[run], scenario'[run[1]])
               /\ stash'[run] \subseteq DOMAIN dag'[run].index
    <3>1. CASE run \in Runs(r)
      <4>1. run[1] = r
        BY <3>1 DEF Runs
      <4>2. dag'[run] = NewDag /\ stash'[run] = {}
        BY <1>1, <3>1 DEF RunTurn, CrewDag
      <4> QED
        BY <2>2, <4>1, <4>2, NewDagSound
    <3>2. CASE run \notin Runs(r)
      <4>1. run[1] # r
        BY <3>2 DEF Runs, Run
      <4>2. dag'[run] = dag[run] /\ stash'[run] = stash[run]
        BY <1>1, <3>2 DEF RunTurn
      <4>3. scenario'[run[1]] = scenario[run[1]]
        BY <2>1, <4>1, RunSlot DEF DagInv
      <4> QED
        BY <4>2, <4>3 DEF DagInv
    <3> QED
      BY <3>1, <3>2
  <2> QED
    BY <2>2, <2>3, <2>4 DEF DagInv
<1>2. ASSUME NEW run \in Run, Act(run) PROVE DagInv'
  BY <1>2, CommitStep DEF Act
<1>3. ASSUME NEW run \in Run, Ask(run) PROVE DagInv'
  <2>1. Situation(run) \in SUBSET DOMAIN dag[run].index
    BY DEF Situation, DagInv, Sound, Known
  <2> QED
    BY <1>3, <2>1, StashStep DEF Ask
<1>4. ASSUME NEW run \in Run, Call(run) PROVE DagInv'
  <2>1. CommitEvent(run, stash[run]) /\ UNCHANGED <<scenario, stash>>
    BY <1>4 DEF Call, Cites
  <2> QED
    BY <2>1, CommitStep DEF DagInv
<1>5. ASSUME NEW run \in Run, FailCall(run) PROVE DagInv'
  BY <1>5, StashStep DEF FailCall
<1>6. ASSUME NEW run \in Run, FallBack(run) PROVE DagInv'
  <2>1. CommitEvent(run, stash[run]) /\ UNCHANGED <<scenario, stash>>
    BY <1>6 DEF FallBack
  <2> QED
    BY <2>1, CommitStep DEF DagInv
<1>7. ASSUME NEW run \in Run, Decided(run) PROVE DagInv'
  BY <1>7, StashStep DEF Decided, Reset
<1>8. ASSUME NEW run \in Run, Raise(run) PROVE DagInv'
  BY <1>8 DEF Raise, DagInv
<1>9. ASSUME NEW r \in Slot, Answer(r) \/ Fail(r) PROVE DagInv'
  BY <1>9 DEF Answer, Fail, crew, DagInv
<1>10. CASE UNCHANGED vars
  BY <1>10 DEF vars, crew, DagInv
<1> QED
  BY <1>1, <1>2, <1>3, <1>4, <1>5, <1>6, <1>7, <1>8, <1>9, <1>10
     DEF Next, Proceed

\* So it always holds.
LEMMA DagInvariant == Spec => []DagInv
BY DagInvInit, DagInvStep, PTL DEF Spec

-----------------------------------------------------------------------------
\* Every crew's DAG is a causal order inside its namespaces, at all times.
THEOREM DagsStayCausal == Spec => []DagsCausal
<1>1. DagInv => DagsCausal
  BY DEF DagInv, Sound, DagsCausal
<1> QED
  BY <1>1, DagInvariant, PTL

\* What the LLM's calls are made to cite always resolves in the crew's DAG.
THEOREM ReportsResolve == Spec => []CommitsResolve
<1>1. DagInv => CommitsResolve
  BY IndexResolves, RunSlot DEF DagInv, CommitsResolve
<1> QED
  BY <1>1, DagInvariant, PTL

-----------------------------------------------------------------------------
(* What a crew reports: sequences of result dicts.                         *)

Entry == [event_id : EventId, causal_predecessors : SUBSET EventId,
          llm_driven : BOOLEAN]

\* The events before the i-th entry that no LLM decided on.
Plain(w, i) == {w[j].event_id : j \in {k \in 1 .. i - 1 : ~w[k].llm_driven}}

\* CitesReport of one sequence.
Cited(w) ==
    \A i \in 1 .. Len(w) :
        w[i].causal_predecessors = IF w[i].llm_driven THEN Plain(w, i) ELSE {}

\* Its events are of one run, numbered up to n, in the order of their commits.
Numbered(w, run, n) ==
    /\ \A i \in 1 .. Len(w) :
          w[i].event_id[1] = run /\ w[i].event_id[2] \in 1 .. n
    /\ \A i, k \in 1 .. Len(w) : i < k => w[i].event_id[2] < w[k].event_id[2]

\* The next event of a run joins its report.
LEMMA EntryJoins ==
    ASSUME NEW run, NEW n \in Nat, NEW w \in Seq(Entry), NEW x \in Entry,
           Cited(w), Numbered(w, run, n), x.event_id = <<run, n + 1>>,
           x.causal_predecessors =
              IF x.llm_driven THEN Plain(w, Len(w) + 1) ELSE {}
    PROVE  /\ Append(w, x) \in Seq(Entry)
           /\ Cited(Append(w, x)) /\ Numbered(Append(w, x), run, n + 1)
<1>1. PICK v \in Seq(Entry) : v = Append(w, x)
  BY AppendProperties
<1>2. /\ Len(w) \in Nat /\ Len(v) = Len(w) + 1 /\ v[Len(w) + 1] = x
      /\ \A i \in 1 .. Len(w) : v[i] = w[i]
  BY <1>1
<1>3. \A i \in 1 .. Len(w) + 1 : Plain(v, i) = Plain(w, i)
  <2> SUFFICES ASSUME NEW i \in 1 .. Len(w) + 1
               PROVE  Plain(v, i) = Plain(w, i)
    OBVIOUS
  <2>1. \A j \in 1 .. i - 1 : v[j] = w[j]
    BY <1>2
  <2> QED
    BY <2>1 DEF Plain
<1>4. Cited(v)
  <2> SUFFICES ASSUME NEW i \in 1 .. Len(w) + 1
               PROVE  v[i].causal_predecessors =
                         IF v[i].llm_driven THEN Plain(v, i) ELSE {}
    BY <1>2 DEF Cited
  <2>1. CASE i = Len(w) + 1
    BY <1>2, <1>3, <2>1
  <2>2. CASE i \in 1 .. Len(w)
    BY <1>2, <1>3, <2>2 DEF Cited
  <2> QED
    BY <1>2, <2>1, <2>2
<1>5. x.event_id[1] = run /\ x.event_id[2] = n + 1
  OBVIOUS
<1>6. Numbered(v, run, n + 1)
  <2>1. \A i \in 1 .. Len(w) :
           v[i].event_id[1] = run /\ v[i].event_id[2] \in 1 .. n
    BY <1>2 DEF Numbered
  <2>2. \A i \in 1 .. Len(v) : i \in 1 .. Len(w) \/ i = Len(w) + 1
    BY <1>2
  <2>3. \A i \in 1 .. Len(v) :
           v[i].event_id[1] = run /\ v[i].event_id[2] \in 1 .. n + 1
    BY <1>2, <1>5, <2>1, <2>2
  <2>4. ASSUME NEW i \in 1 .. Len(v), NEW k \in 1 .. Len(v), i < k
        PROVE  v[i].event_id[2] < v[k].event_id[2]
    <3>1. i \in 1 .. Len(w)
      BY <1>2, <2>4
    <3>2. CASE k = Len(w) + 1
      BY <1>2, <1>5, <2>1, <3>1, <3>2
    <3>3. CASE k \in 1 .. Len(w)
      BY <1>2, <2>4, <3>1, <3>3 DEF Numbered
    <3> QED
      BY <2>2, <3>2, <3>3
  <2> QED
    BY <2>3, <2>4 DEF Numbered
<1> QED
  BY <1>1, <1>4, <1>6

\* What holds of a report holds of its beginning.
LEMMA Beginning ==
    ASSUME NEW run, NEW n, NEW out \in Seq(Entry), NEW res \in Seq(Entry),
           Cited(out \o res), Numbered(out \o res, run, n)
    PROVE  Cited(out) /\ Numbered(out, run, n)
<1>1. PICK w \in Seq(Entry) : w = out \o res
  BY ConcatProperties
<1>2. /\ Len(out) \in Nat /\ Len(res) \in Nat /\ Len(w) = Len(out) + Len(res)
      /\ \A i \in 1 .. Len(out) : w[i] = out[i]
  BY <1>1, ConcatProperties
<1>3. \A i \in 1 .. Len(out) : i \in 1 .. Len(w)
  BY <1>2
<1>4. \A i \in 1 .. Len(out) : Plain(w, i) = Plain(out, i)
  <2> SUFFICES ASSUME NEW i \in 1 .. Len(out)
               PROVE  Plain(w, i) = Plain(out, i)
    OBVIOUS
  <2>1. \A j \in 1 .. i - 1 : w[j] = out[j]
    BY <1>2
  <2> QED
    BY <2>1 DEF Plain
<1>5. Cited(out)
  BY <1>1, <1>2, <1>3, <1>4 DEF Cited
<1>6. Numbered(out, run, n)
  BY <1>1, <1>2, <1>3 DEF Numbered
<1> QED
  BY <1>5, <1>6

\* While the LLM decides, its results cite all that was reported before.
LEMMA PlainIsReported ==
    ASSUME NEW out \in Seq(Entry), NEW res \in Seq(Entry),
           \A i \in 1 .. Len(out) : ~out[i].llm_driven,
           \A i \in 1 .. Len(res) : res[i].llm_driven
    PROVE  Plain(out \o res, Len(out \o res) + 1) = Ids(out)
<1>1. PICK w \in Seq(Entry) : w = out \o res
  BY ConcatProperties
<1>2. /\ Len(out) \in Nat /\ Len(res) \in Nat /\ Len(w) = Len(out) + Len(res)
      /\ \A i \in 1 .. Len(w) :
            w[i] = IF i <= Len(out) THEN out[i] ELSE res[i - Len(out)]
  BY <1>1, ConcatProperties
<1>3. \A i \in 1 .. Len(w) : ~w[i].llm_driven <=> i \in 1 .. Len(out)
  <2> SUFFICES ASSUME NEW i \in 1 .. Len(w)
               PROVE  ~w[i].llm_driven <=> i \in 1 .. Len(out)
    OBVIOUS
  <2>1. CASE i <= Len(out)
    BY <1>2, <2>1
  <2>2. CASE ~ (i <= Len(out))
    <3>1. i - Len(out) \in 1 .. Len(res) /\ w[i] = res[i - Len(out)]
      BY <1>2, <2>2
    <3> QED
      BY <2>2, <3>1
  <2> QED
    BY <2>1, <2>2
<1>4. {k \in 1 .. Len(w) + 1 - 1 : ~w[k].llm_driven} = 1 .. Len(out)
  BY <1>2, <1>3
<1>5. \A j \in 1 .. Len(out) : w[j] = out[j]
  BY <1>2
<1> QED
  BY <1>1, <1>4, <1>5 DEF Plain, Ids

\* An entry joins the second of two sequences, and their concatenation.
LEMMA ConcatAppend ==
    ASSUME NEW out \in Seq(Entry), NEW res \in Seq(Entry), NEW x \in Entry
    PROVE  out \o Append(res, x) = Append(out \o res, x)
<1>1. out \o res \in Seq(Entry) /\ <<x>> \in Seq(Entry)
  BY ConcatProperties
<1>2. Append(res, x) = res \o <<x>>
  BY AppendIsConcat
<1>3. Append(out \o res, x) = (out \o res) \o <<x>>
  BY <1>1, AppendIsConcat
<1> QED
  BY <1>1, <1>2, <1>3, ConcatAssociative

-----------------------------------------------------------------------------
(***************************************************************************)
(* One run, as constants: its script, the step a it is at and the mode m,  *)
(* what S3's context cites, the results of the decision under way, the     *)
(* outcomes, and the events of its DAG.  Until the LLM has been asked the  *)
(* report of the DAG is what the crew reports itself; what a failed answer *)
(* left in the DAG comes after the only question of the script.            *)
(***************************************************************************)
OneDecide(script) ==
    /\ Len(script) \in Nat
    /\ \A i, k \in 1 .. Len(script) :
          script[i] = Decide /\ script[k] = Decide => i = k

Unasked(script, a) == \A i \in 1 .. a - 1 : script[i] # Decide
EventsOf(events) == {events[i].id : i \in 1 .. Len(events)}
Longest == AtLeast(MaxCalls, Len(FallbackPair))

RunOK(run, script, a, m, cites, res, out, events) ==
    /\ out \in Seq(Entry) /\ res \in Seq(Entry) /\ Len(res) <= Longest
    /\ a \in 1 .. Len(script) + 1
    /\ Cited(out \o res) /\ Numbered(out \o res, run, Len(events))
    /\ m = "steps" => cites = {} /\ res = <<>>
    /\ m = "fallback" => cites = {}
    /\ Unasked(script, a) => \A i \in 1 .. Len(out) : ~out[i].llm_driven
    /\ Unasked(script, a) /\ m = "steps" => EventsOf(events) = Ids(out)
    /\ m = "calls" => /\ Unasked(script, a) /\ cites = Ids(out)
                      /\ \A i \in 1 .. Len(res) : res[i].llm_driven
    /\ m \in {"calls", "fallback"} => a <= Len(script) /\ script[a] = Decide

\* The result of a run's next event.
IsNext(x, run, events, cites) ==
    /\ x \in Entry /\ x.event_id = <<run, Len(events) + 1>>
    /\ x.causal_predecessors = cites

\* The fallback pair has two steps, and a decision room for at least one.
LEMMA Longest2 ==
    /\ Len(FallbackPair) = 2 /\ Longest \in Nat
    /\ Longest >= 2 /\ Longest >= MaxCalls /\ MaxCalls \in Nat
BY CallsBounded DEF FallbackPair, Longest, AtLeast

\* A run that starts.
LEMMA StartOK ==
    ASSUME NEW run, NEW script, OneDecide(script), NEW m \in {"steps", "idle", "raised"}
    PROVE  RunOK(run, script, 1, m, {}, <<>>, <<>>, <<>>)
<1>1. <<>> \in Seq(Entry) /\ Len(<<>>) = 0 /\ <<>> \o <<>> = <<>>
  BY EmptySeq, ConcatEmptySeq
<1>2. 1 \in 1 .. Len(script) + 1
  BY DEF OneDecide
<1>3. Cited(<<>>) /\ Numbered(<<>>, run, 0) /\ EventsOf(<<>>) = Ids(<<>>)
  BY <1>1 DEF Cited, Numbered, EventsOf, Ids
<1> QED
  BY <1>1, <1>2, <1>3, Longest2 DEF RunOK

\* The event joins the DAG.
LEMMA EventJoins ==
    ASSUME NEW events \in Seq(Node), NEW node \in Node
    PROVE  /\ Len(events) \in Nat /\ Len(Append(events, node)) = Len(events) + 1
           /\ EventsOf(Append(events, node)) = EventsOf(events) \cup {node.id}
<1>1. PICK more : more = Append(events, node)
  OBVIOUS
<1>2. /\ Len(events) \in Nat /\ Len(more) = Len(events) + 1
      /\ more[Len(events) + 1] = node
      /\ \A i \in 1 .. Len(events) : more[i] = events[i]
  BY <1>1, AppendProperties
<1>3. 1 .. Len(more) = (1 .. Len(events)) \cup {Len(events) + 1}
  BY <1>2
<1>4. EventsOf(more) = EventsOf(events) \cup {node.id}
  BY <1>2, <1>3 DEF EventsOf
<1> QED
  BY <1>1, <1>2, <1>4

\* What appending an entry gives.
LEMMA OneMore ==
    ASSUME NEW w \in Seq(Entry), NEW x \in Entry, NEW v, v = Append(w, x)
    PROVE  /\ v \in Seq(Entry) /\ Len(w) \in Nat /\ Len(v) = Len(w) + 1
           /\ \A i \in 1 .. Len(v) :
                 (i \in 1 .. Len(w) /\ v[i] = w[i]) \/ (i = Len(w) + 1 /\ v[i] = x)
<1>1. /\ v \in Seq(Entry) /\ Len(w) \in Nat /\ Len(v) = Len(w) + 1
      /\ \A i \in 1 .. Len(w) : v[i] = w[i]
      /\ v[Len(w) + 1] = x
  BY AppendProperties
<1> QED
  BY <1>1

\* Its id joins the ids.
LEMMA IdJoins ==
    \A w \in Seq(Entry) : \A x \in Entry :
        Ids(Append(w, x)) = Ids(w) \cup {x.event_id}
<1> SUFFICES ASSUME NEW w \in Seq(Entry), NEW x \in Entry, NEW v, v = Append(w, x)
             PROVE  Ids(v) = Ids(w) \cup {x.event_id}
  OBVIOUS
<1>1. /\ v \in Seq(Entry) /\ Len(w) \in Nat /\ Len(v) = Len(w) + 1
      /\ \A i \in 1 .. Len(w) : v[i] = w[i]
      /\ v[Len(w) + 1] = x
  BY AppendProperties
<1>2. 1 .. Len(v) = (1 .. Len(w)) \cup {Len(w) + 1}
  BY <1>1
<1>3. Ids(v) = {v[i].event_id : i \in 1 .. Len(w)} \cup {v[Len(w) + 1].event_id}
  BY <1>2 DEF Ids
<1>4. {v[i].event_id : i \in 1 .. Len(w)} = Ids(w)
  BY <1>1 DEF Ids
<1> QED
  BY <1>1, <1>3, <1>4

\* A scripted step commits and reports one event that cites nothing.
LEMMA ActOK ==
    ASSUME NEW run \in Run, NEW script, NEW a, NEW out, NEW res, NEW cites,
           NEW events \in Seq(Node), NEW node \in Node, NEW x,
           OneDecide(script), RunOK(run, script, a, "steps", cites, res, out, events),
           a <= Len(script), script[a] # Decide,
           IsNext(x, run, events, {}), ~x.llm_driven,
           node.id = <<run, Len(events) + 1>>
    PROVE  RunOK(run, script, a + 1, "steps", cites, res, Append(out, x),
                 Append(events, node))
<1>1. /\ Len(events) \in Nat /\ Len(Append(events, node)) = Len(events) + 1
      /\ EventsOf(Append(events, node)) = EventsOf(events) \cup {node.id}
  BY EventJoins
<1>2. x \in Entry /\ x.event_id = <<run, Len(events) + 1>> /\ ~x.llm_driven
      /\ x.causal_predecessors = {}
  BY DEF IsNext
<1>3. out \in Seq(Entry) /\ res = <<>> /\ cites = {} /\ out \o res = out
  BY ConcatEmptySeq DEF RunOK
<1>4. Cited(out) /\ Numbered(out, run, Len(events))
  BY <1>3 DEF RunOK
<1>12. x.causal_predecessors = IF x.llm_driven THEN Plain(out, Len(out) + 1) ELSE {}
  BY <1>2
<1>13. x \in Entry /\ x.event_id = <<run, Len(events) + 1>> /\ out \in Seq(Entry)
       /\ Len(events) \in Nat
  BY <1>1, <1>2, <1>3
<1>14. /\ Append(out, x) \in Seq(Entry) /\ Cited(Append(out, x))
       /\ Numbered(Append(out, x), run, Len(events) + 1)
       /\ Ids(Append(out, x)) = Ids(out) \cup {x.event_id}
  <2>1. PICK n \in Nat : n = Len(events)
    BY <1>13
  <2>2. Numbered(out, run, n) /\ x.event_id = <<run, n + 1>>
    BY <1>4, <1>13, <2>1
  <2>3. Cited(Append(out, x)) /\ Numbered(Append(out, x), run, n + 1)
    BY <1>4, <1>12, <1>13, <2>2, EntryJoins
  <2>4. Append(out, x) \in Seq(Entry)
    BY <1>13
  <2>5. Ids(Append(out, x)) = Ids(out) \cup {x.event_id}
    <3>1. out \in Seq(Entry) /\ x \in Entry
      BY <1>13
    <3> QED
      BY <3>1, IdJoins
  <2> QED
    BY <2>1, <2>3, <2>4, <2>5
<1> DEFINE longer == Append(out, x)
<1>5. /\ longer \in Seq(Entry) /\ Cited(longer)
      /\ Numbered(longer, run, Len(events) + 1)
      /\ Ids(longer) = Ids(out) \cup {x.event_id}
  BY <1>14
<1>8. \A i \in 1 .. Len(longer) :
          (i \in 1 .. Len(out) /\ longer[i] = out[i]) \/ longer[i] = x
  BY <1>2, <1>3, OneMore
<1> HIDE DEF longer
<1>6. longer \o res = longer
  BY <1>3, <1>5, ConcatEmptySeq
<1>7. a \in Nat /\ a + 1 \in 1 .. Len(script) + 1
      /\ (Unasked(script, a + 1) => Unasked(script, a))
  BY DEF RunOK, OneDecide, Unasked
<1>9. Unasked(script, a + 1) =>
          \A i \in 1 .. Len(longer) : ~longer[i].llm_driven
  BY <1>2, <1>7, <1>8 DEF RunOK
<1>10. Unasked(script, a + 1) => EventsOf(Append(events, node)) = Ids(longer)
  <2>1. PICK id : id = <<run, Len(events) + 1>>
    OBVIOUS
  <2>2. EventsOf(Append(events, node)) = EventsOf(events) \cup {id}
    BY <1>1, <2>1
  <2>3. Ids(longer) = Ids(out) \cup {id}
    BY <1>5, <1>13, <2>1
  <2>4. Unasked(script, a) => EventsOf(events) = Ids(out)
    BY DEF RunOK
  <2> QED
    BY <1>7, <2>2, <2>3, <2>4
<1>11. RunOK(run, script, a + 1, "steps", cites, res, longer, Append(events, node))
  BY <1>1, <1>3, <1>5, <1>6, <1>7, <1>9, <1>10 DEF RunOK
<1> QED
  BY <1>11 DEF longer

\* S3's context gets what the report contains, which the crew has reported.
LEMMA AskOK ==
    ASSUME NEW run, NEW script, NEW a, NEW out, NEW res, NEW cites, NEW events,
           OneDecide(script), RunOK(run, script, a, "steps", cites, res, out, events),
           a <= Len(script), script[a] = Decide
    PROVE  RunOK(run, script, a, "calls", EventsOf(events), res, out, events)
<1>1. a \in 1 .. Len(script)
  BY DEF RunOK, OneDecide
<1>2. Unasked(script, a)
  BY <1>1 DEF OneDecide, Unasked
<1>3. Len(res) = 0
  BY EmptySeq DEF RunOK
<1> QED
  BY <1>2, <1>3 DEF RunOK

\* A call of the LLM's commits an event that cites them.
LEMMA CallOK ==
    ASSUME NEW run \in Run, NEW script, NEW a, NEW out, NEW res,
           NEW cites \in SUBSET EventId,
           NEW events \in Seq(Node), NEW node \in Node, NEW x,
           RunOK(run, script, a, "calls", cites, res, out, events),
           Len(res) < MaxCalls, IsNext(x, run, events, cites), x.llm_driven
    PROVE  RunOK(run, script, a, "calls", cites, Append(res, x), out,
                 Append(events, node))
<1>1. Len(events) \in Nat /\ Len(Append(events, node)) = Len(events) + 1
  BY EventJoins
<1>2. x \in Entry /\ x.event_id = <<run, Len(events) + 1>> /\ x.llm_driven
      /\ x.causal_predecessors = cites
  BY DEF IsNext
<1>3. out \in Seq(Entry) /\ res \in Seq(Entry) /\ out \o res \in Seq(Entry)
  BY ConcatProperties DEF RunOK
<1>4. Cited(out \o res) /\ Numbered(out \o res, run, Len(events))
  BY DEF RunOK
<1>5. cites = Plain(out \o res, Len(out \o res) + 1)
  BY <1>3, PlainIsReported DEF RunOK
<1>6. /\ Cited(Append(out \o res, x))
      /\ Numbered(Append(out \o res, x), run, Len(events) + 1)
  BY <1>1, <1>2, <1>3, <1>4, <1>5, EntryJoins
<1>7. out \o Append(res, x) = Append(out \o res, x)
  BY <1>2, <1>3, ConcatAppend
<1>8. /\ Append(res, x) \in Seq(Entry) /\ Len(Append(res, x)) <= Longest
      /\ \A i \in 1 .. Len(Append(res, x)) : Append(res, x)[i].llm_driven
  <2>1. PICK v : v = Append(res, x)
    OBVIOUS
  <2>2. x \in Entry /\ res \in Seq(Entry)
    BY <1>2, <1>3
  <2>3. /\ v \in Seq(Entry) /\ Len(res) \in Nat /\ Len(v) = Len(res) + 1
        /\ \A i \in 1 .. Len(v) :
              (i \in 1 .. Len(res) /\ v[i] = res[i]) \/ (i = Len(res) + 1 /\ v[i] = x)
    BY <2>1, <2>2, OneMore
  <2>4. \A i \in 1 .. Len(v) : v[i].llm_driven
    BY <1>2, <2>3 DEF RunOK
  <2> QED
    BY <2>1, <2>3, <2>4, Longest2
<1> QED
  BY <1>1, <1>6, <1>7, <1>8 DEF RunOK

\* A failed answer leaves its events in the DAG only.
LEMMA FailOK ==
    ASSUME NEW run, NEW script, NEW a, NEW out, NEW res, NEW cites, NEW events,
           RunOK(run, script, a, "calls", cites, res, out, events)
    PROVE  RunOK(run, script, a, "fallback", {}, <<>>, out, events)
<1>1. <<>> \in Seq(Entry) /\ Len(<<>>) = 0 /\ out \o <<>> = out
  BY EmptySeq, ConcatEmptySeq DEF RunOK
<1>2. Cited(out) /\ Numbered(out, run, Len(events))
  BY Beginning DEF RunOK
<1> QED
  BY <1>1, <1>2, Longest2 DEF RunOK

\* An order of the fallback pair cites nothing.
LEMMA FallBackOK ==
    ASSUME NEW run \in Run, NEW script, NEW a, NEW out, NEW res, NEW cites,
           NEW events \in Seq(Node), NEW node \in Node, NEW x,
           RunOK(run, script, a, "fallback", cites, res, out, events),
           Len(res) < Len(FallbackPair), IsNext(x, run, events, cites), ~x.llm_driven
    PROVE  RunOK(run, script, a, "fallback", cites, Append(res, x), out,
                 Append(events, node))
<1>1. Len(events) \in Nat /\ Len(Append(events, node)) = Len(events) + 1
  BY EventJoins
<1>2. cites = {}
  BY DEF RunOK
<1>3. x \in Entry /\ x.event_id = <<run, Len(events) + 1>> /\ ~x.llm_driven
      /\ x.causal_predecessors = {}
  BY <1>2 DEF IsNext
<1>4. out \in Seq(Entry) /\ res \in Seq(Entry) /\ out \o res \in Seq(Entry)
  BY ConcatProperties DEF RunOK
<1>5. Cited(out \o res) /\ Numbered(out \o res, run, Len(events))
  BY DEF RunOK
<1>6. /\ Cited(Append(out \o res, x))
      /\ Numbered(Append(out \o res, x), run, Len(events) + 1)
  BY <1>1, <1>3, <1>4, <1>5, EntryJoins
<1>7. out \o Append(res, x) = Append(out \o res, x)
  BY <1>3, <1>4, ConcatAppend
<1>8. Append(res, x) \in Seq(Entry) /\ Len(Append(res, x)) <= Longest
  <2>1. PICK v : v = Append(res, x)
    OBVIOUS
  <2>2. x \in Entry /\ res \in Seq(Entry)
    BY <1>3, <1>4
  <2>3. v \in Seq(Entry) /\ Len(res) \in Nat /\ Len(v) = Len(res) + 1
    BY <2>1, <2>2, OneMore
  <2> QED
    BY <2>1, <2>3, Longest2
<1> QED
  BY <1>1, <1>6, <1>7, <1>8 DEF RunOK

\* The decision's results become outcomes, and the question has been asked.
LEMMA DecidedOK ==
    ASSUME NEW run, NEW script, NEW a, NEW m \in {"calls", "fallback"}, NEW out,
           NEW res, NEW cites, NEW events,
           OneDecide(script), RunOK(run, script, a, m, cites, res, out, events)
    PROVE  RunOK(run, script, a + 1, "steps", {}, <<>>, out \o res, events)
<1>1. out \o res \in Seq(Entry) /\ <<>> \in Seq(Entry) /\ Len(<<>>) = 0
  BY ConcatProperties, EmptySeq DEF RunOK
<1>2. (out \o res) \o <<>> = out \o res
  BY <1>1, ConcatEmptySeq
<1>3. a \in Nat /\ a \in 1 .. a + 1 - 1 /\ a + 1 \in 1 .. Len(script) + 1
  BY DEF RunOK, OneDecide
<1>4. ~Unasked(script, a + 1)
  BY <1>3 DEF RunOK, Unasked
<1> QED
  BY <1>1, <1>2, <1>3, <1>4, Longest2 DEF RunOK

-----------------------------------------------------------------------------
\* What asks the LLM has that verb; no scripted step has.
LEMMA VerbOfDecide == Decide.verb = "llm_decide"
BY DEF Decide, Does, Draws

\* Blue's script asks at its third step only.
LEMMA BlueAsksOnce == OneDecide(BlueScript)
<1> DEFINE rest == <<Decide,
                     Does("co_a", "assume_posture"),
                     Does("co_a", "send"),
                     Does("co_b", "halt"),
                     Draws("co_b", "suppress", "-",
                           [range_m |-> 8000, time_of_flight_s |-> 18]),
                     Does("co_c", "move_to"),
                     Does("s6", "send"),
                     Does("s6", "report")>>
<1>1. BlueScript = BlueSensing \o rest
  BY Zenon DEF BlueScript
<1>2. /\ Len(rest) = 8 /\ rest[1] = Decide
      /\ \A i \in 2 .. 8 : rest[i].verb # "llm_decide"
  BY DEF Does, Draws
<1>3. /\ Len(BlueSensing) = 2
      /\ \A i \in 1 .. 2 : BlueSensing[i].verb # "llm_decide"
  BY DEF BlueSensing, Draws
<1>4. PICK S : BlueSensing \in Seq(S) /\ rest \in Seq(S)
  <2> DEFINE S == {BlueSensing[i] : i \in 1 .. 2} \cup {rest[i] : i \in 1 .. 8}
  <2>1. BlueSensing \in Seq(S)
    BY DEF BlueSensing
  <2>2. rest \in Seq(S)
    OBVIOUS
  <2> QED
    BY <2>1, <2>2
<1> HIDE DEF rest
<1>5. /\ Len(BlueScript) = 10
      /\ \A i \in 1 .. 10 : BlueScript[i] = IF i <= 2 THEN BlueSensing[i]
                                            ELSE rest[i - 2]
  <2>1. /\ Len(BlueScript) = Len(BlueSensing) + Len(rest)
        /\ \A i \in 1 .. Len(BlueSensing) + Len(rest) :
              BlueScript[i] = IF i <= Len(BlueSensing) THEN BlueSensing[i]
                              ELSE rest[i - Len(BlueSensing)]
    BY <1>1, <1>4, ConcatProperties
  <2> QED
    BY <1>2, <1>3, <2>1
<1>6. \A i \in 1 .. 10 : BlueScript[i] = Decide => i = 3
  <2> SUFFICES ASSUME NEW i \in 1 .. 10, i # 3 PROVE BlueScript[i].verb # "llm_decide"
    BY VerbOfDecide
  <2>1. CASE i <= 2
    BY <1>3, <1>5, <2>1
  <2>2. CASE i > 2
    BY <1>2, <1>5, <2>2
  <2> QED
    BY <2>1, <2>2
<1> QED
  BY <1>5, <1>6 DEF OneDecide

\* Red's asks at its second step, if at all.
LEMMA RedAsksOnce == ASSUME NEW d, NEW prof PROVE OneDecide(RedScript(d, prof))
<1>1. PICK script : script = RedScript(d, prof)
  OBVIOUS
<1>2. Engage(d, prof).verb = "engage"
  BY DEF Engage, Draws
<1>3. /\ Len(script) = 9
      /\ \A i \in 1 .. 9 : i # 2 => script[i].verb # "llm_decide"
  BY <1>1, <1>2 DEF RedScript, RedSensing, Does, Draws
<1>4. \A i \in 1 .. 9 : script[i] = Decide => i = 2
  BY <1>3, VerbOfDecide
<1> QED
  BY <1>1, <1>3, <1>4 DEF OneDecide

\* So does every crew's.
LEMMA AsksOnce == ASSUME NEW run \in Run PROVE OneDecide(Script(run))
<1>1. CASE Script(run) = BlueScript
  BY <1>1, BlueAsksOnce
<1>2. CASE Script(run) = RedScript(doctrine, profile["red"])
  BY <1>2, RedAsksOnce
<1>3. CASE Script(run) = <<>>
  BY <1>3 DEF OneDecide
<1> QED
  BY <1>1, <1>2, <1>3 DEF Script

-----------------------------------------------------------------------------
(* The invariant of all runs.                                              *)

PosetOf(run) == dag[run].posets[scenario[run[1]]]

RunHolds(run) ==
    RunOK(run, Script(run), at[run], mode[run], stash[run], results[run],
          outcomes[run], PosetOf(run))

Shapes ==
    /\ mode \in [Run -> {"idle", "steps", "calls", "fallback", "raised"}]
    /\ DOMAIN at = Run /\ DOMAIN results = Run /\ DOMAIN outcomes = Run

CrewInv ==
    /\ DagInv /\ Shapes
    /\ doctrine \in Doctrine \cup {"invalid"}
    /\ reply \in [Slot -> {"none", "open", "200", "500"}]
    /\ \A run \in Run : RunHolds(run)

\* Nothing of the other runs changes.
Others(run) ==
    \A x \in Run \ {run} :
        /\ at'[x] = at[x] /\ mode'[x] = mode[x] /\ stash'[x] = stash[x]
        /\ results'[x] = results[x] /\ outcomes'[x] = outcomes[x]
        /\ PosetOf(x)' = PosetOf(x)

\* A script does not change under a run.
LEMMA ScriptStays ==
    ASSUME UNCHANGED <<doctrine, profile>>, NEW run
    PROVE  Script(run)' = Script(run)
BY DEF Script

\* Events of a run's namespace are nodes.
LEMMA PosetTyped ==
    ASSUME DagInv, NEW run \in Run PROVE PosetOf(run) \in Seq(Node)
<1>1. scenario[run[1]] \in Namespace /\ Sound(dag[run], scenario[run[1]])
  BY RunSlot DEF DagInv
<1> QED
  BY <1>1 DEF Sound, Typed, PosetOf

\* Init.
LEMMA CrewStarts == Init => CrewInv
<1> SUFFICES ASSUME Init PROVE CrewInv
  OBVIOUS
<1>1. DagInv
  BY DagInvInit
<1>2. Shapes /\ reply \in [Slot -> {"none", "open", "200", "500"}]
  BY DEF Init, Shapes
<1>3. doctrine \in Doctrine \cup {"invalid"}
  BY DEF Init, SelectDoctrine, Doctrine
<1>4. ASSUME NEW run \in Run PROVE RunHolds(run)
  <2>1. /\ at[run] = 1 /\ mode[run] = "idle" /\ stash[run] = {}
        /\ results[run] = <<>> /\ outcomes[run] = <<>> /\ dag[run] = NewDag
    BY DEF Init
  <2>2. PosetOf(run) = <<>>
    BY <1>1, <2>1, RunSlot DEF PosetOf, NewDag, DagInv
  <2> QED
    BY <2>1, <2>2, AsksOnce, StartOK DEF RunHolds
<1> QED
  BY <1>1, <1>2, <1>3, <1>4 DEF CrewInv

\* A run of which nothing changes keeps its part.
LEMMA RunStands ==
    ASSUME NEW x \in Run, RunHolds(x), UNCHANGED <<doctrine, profile>>,
           at'[x] = at[x], mode'[x] = mode[x], stash'[x] = stash[x],
           results'[x] = results[x], outcomes'[x] = outcomes[x],
           PosetOf(x)' = PosetOf(x)
    PROVE  RunHolds(x)'
BY ScriptStays DEF RunHolds

\* A step of one run keeps the invariant if the run keeps its part.
LEMMA StepAssembles ==
    ASSUME CrewInv, DagInv', Shapes', UNCHANGED <<doctrine, profile, reply>>,
           NEW run \in Run, Others(run), RunHolds(run)'
    PROVE  CrewInv'
<1>1. ASSUME NEW x \in Run PROVE RunHolds(x)'
  <2>1. CASE x = run
    BY <2>1
  <2>2. CASE x # run
    BY <2>2, RunStands DEF CrewInv, Others
  <2> QED
    BY <2>1, <2>2
<1> QED
  BY <1>1 DEF CrewInv

\* A commit adds one node to the events of the run's namespace.
LEMMA CommitGrows ==
    ASSUME DagInv, NEW run \in Run, NEW P \in SUBSET DOMAIN dag[run].index,
           CommitEvent(run, P), scenario' = scenario
    PROVE  /\ \E node \in Node : /\ node.id = <<run, Len(PosetOf(run)) + 1>>
                                 /\ PosetOf(run)' = Append(PosetOf(run), node)
           /\ \A x \in Run \ {run} : PosetOf(x)' = PosetOf(x)
<1> DEFINE ns == scenario[run[1]]
           node == [id |-> NextId(run), causes |-> {dag[run].index[q] : q \in P}]
<1>1. ns \in Namespace /\ Sound(dag[run], ns)
  BY RunSlot DEF DagInv
<1>2. /\ dag[run].posets \in [Namespace -> Seq(Node)]
      /\ dag[run].index \in [DOMAIN dag[run].index -> Position]
  BY <1>1 DEF Sound, Typed
<1>3. NextId(run) = <<run, Len(PosetOf(run)) + 1>>
  BY DEF NextId, PosetOf
<1>4. NextId(run) \in EventId
  <2>1. PosetOf(run) \in Seq(Node)
    BY PosetTyped
  <2>2. Len(PosetOf(run)) + 1 \in Nat
    BY <2>1, SuccLength
  <2> QED
    BY <1>3, <2>2 DEF EventId
<1>5. node \in Node
  BY <1>2, <1>4 DEF Node
<1>6. dag' = [dag EXCEPT ![run] = Committed(@, ns, NextId(run), P)]
  BY DEF CommitEvent
<1>7. dag'[run].posets = [dag[run].posets EXCEPT ![ns] = Append(@, node)]
  BY <1>6 DEF DagInv, Committed
<1>8. PosetOf(run)' = Append(PosetOf(run), node)
  BY <1>1, <1>2, <1>7 DEF PosetOf
<1>9. \A x \in Run \ {run} : PosetOf(x)' = PosetOf(x)
  BY <1>6 DEF PosetOf, DagInv
<1>10. node.id = <<run, Len(PosetOf(run)) + 1>>
  BY <1>3
<1> HIDE DEF node
<1> QED
  BY <1>5, <1>8, <1>9, <1>10

-----------------------------------------------------------------------------
(* The steps of a run keep the invariant.                                  *)

\* The result dict of the next event.
LEMMA NextOutcome ==
    ASSUME DagInv, NEW run \in Run, NEW P \in SUBSET EventId, NEW b \in BOOLEAN
    PROVE  \A x : x = Outcome(run, P, b) =>
              /\ IsNext(x, run, PosetOf(run), P)
              /\ x.llm_driven = b
<1>1. PosetOf(run) \in Seq(Node)
  BY PosetTyped
<1>2. Len(PosetOf(run)) + 1 \in Nat
  BY <1>1, SuccLength
<1>3. NextId(run) = <<run, Len(PosetOf(run)) + 1>> /\ NextId(run) \in EventId
  BY <1>2 DEF NextId, PosetOf, EventId
<1> QED
  BY <1>3 DEF Outcome, IsNext, Entry

\* What S3's context cites are ids.
LEMMA StashIds ==
    ASSUME NEW run, NEW script, NEW a, NEW cites, NEW res, NEW out, NEW events,
           RunOK(run, script, a, "calls", cites, res, out, events)
    PROVE  cites \in SUBSET EventId
<1>1. out \in Seq(Entry) /\ cites = Ids(out)
  BY DEF RunOK
<1>2. \A i \in 1 .. Len(out) : out[i] \in Entry
  BY <1>1
<1> QED
  BY <1>1, <1>2 DEF Ids, Entry

\* A scripted step: Act.
LEMMA ActKeeps ==
    ASSUME CrewInv, DagInv', NEW run \in Run, Act(run) PROVE CrewInv'
<1> DEFINE script == Script(run)
           events == PosetOf(run)
<1>1. /\ mode[run] = "steps" /\ at[run] <= Len(script) /\ script[at[run]] # Decide
      /\ CommitEvent(run, {}) /\ UNCHANGED <<doctrine, profile, scenario, reply>>
      /\ mode' = mode /\ stash' = stash /\ results' = results
      /\ at' = [at EXCEPT ![run] = @ + 1]
  BY DEF Act, Here
<1>2. PICK x : x = Outcome(run, {}, FALSE)
  OBVIOUS
<1>3. outcomes' = [outcomes EXCEPT ![run] = Append(@, x)]
  BY <1>2 DEF Act
<1>4. IsNext(x, run, events, {}) /\ ~x.llm_driven
  <2>1. DagInv /\ {} \in SUBSET EventId
    BY DEF CrewInv
  <2> QED
    BY <1>2, <2>1, NextOutcome
<1>5. PICK node \in Node : /\ node.id = <<run, Len(events) + 1>>
                           /\ PosetOf(run)' = Append(events, node)
  <2>1. DagInv /\ {} \in SUBSET DOMAIN dag[run].index
    BY DEF CrewInv
  <2> QED
    BY <1>1, <2>1, CommitGrows
<1>6. \A y \in Run \ {run} : PosetOf(y)' = PosetOf(y)
  <2>1. DagInv /\ {} \in SUBSET DOMAIN dag[run].index
    BY DEF CrewInv
  <2> QED
    BY <1>1, <2>1, CommitGrows
<1>7. DOMAIN at = Run /\ DOMAIN outcomes = Run
  BY DEF CrewInv, Shapes
<1>8. /\ at'[run] = at[run] + 1 /\ mode'[run] = "steps" /\ stash'[run] = stash[run]
      /\ results'[run] = results[run] /\ outcomes'[run] = Append(outcomes[run], x)
  BY <1>1, <1>3, <1>7
<1>9. events \in Seq(Node) /\ OneDecide(script) /\ Script(run)' = script
  BY <1>1, PosetTyped, AsksOnce, ScriptStays DEF CrewInv
<1>10. RunOK(run, script, at[run], "steps", stash[run], results[run],
             outcomes[run], events)
  BY <1>1 DEF CrewInv, RunHolds
<1>11. RunOK(run, script, at[run] + 1, "steps", stash[run], results[run],
             Append(outcomes[run], x), Append(events, node))
  <2> HIDE DEF script, events
  <2> QED
    BY <1>1, <1>4, <1>5, <1>9, <1>10, ActOK
<1>12. RunHolds(run)'
  BY <1>5, <1>8, <1>9, <1>11 DEF RunHolds
<1>13. Others(run)
  BY <1>1, <1>3, <1>6, <1>7 DEF Others
<1>14. Shapes'
  BY <1>1, <1>3, <1>7 DEF CrewInv, Shapes
<1> QED
  BY <1>1, <1>12, <1>13, <1>14, StepAssembles

\* S3's question: Ask.
LEMMA AskKeeps ==
    ASSUME CrewInv, DagInv', NEW run \in Run, Ask(run) PROVE CrewInv'
<1> DEFINE script == Script(run)
           events == PosetOf(run)
<1>1. /\ mode[run] = "steps" /\ at[run] <= Len(script) /\ script[at[run]] = Decide
      /\ UNCHANGED <<doctrine, profile, scenario, reply, at, dag, results, outcomes>>
      /\ stash' = [stash EXCEPT ![run] = Situation(run)]
      /\ mode' = [mode EXCEPT ![run] = "calls"]
  BY DEF Ask, Here
<1>2. Situation(run) = EventsOf(events)
  BY DEF Situation, Read, EventsOf, PosetOf
<1>3. DOMAIN mode = Run /\ DOMAIN stash = Run
  BY DEF CrewInv, DagInv, Shapes
<1>4. mode'[run] = "calls" /\ stash'[run] = EventsOf(events)
  BY <1>1, <1>2, <1>3
<1>5. \A y \in Run : PosetOf(y)' = PosetOf(y)
  BY <1>1 DEF PosetOf
<1>6. OneDecide(script) /\ Script(run)' = script
  BY <1>1, AsksOnce, ScriptStays
<1>7. RunOK(run, script, at[run], "steps", stash[run], results[run],
            outcomes[run], events)
  BY <1>1 DEF CrewInv, RunHolds
<1>8. RunOK(run, script, at[run], "calls", EventsOf(events), results[run],
            outcomes[run], events)
  <2> HIDE DEF script, events
  <2> QED
    BY <1>1, <1>6, <1>7, AskOK
<1>9. RunHolds(run)'
  BY <1>1, <1>4, <1>5, <1>6, <1>8 DEF RunHolds
<1>10. Others(run)
  BY <1>1, <1>3, <1>5 DEF Others
<1>11. Shapes'
  BY <1>1 DEF CrewInv, Shapes
<1> QED
  BY <1>1, <1>9, <1>10, <1>11, StepAssembles

\* A call of the LLM's: Call.
LEMMA CallKeeps ==
    ASSUME CrewInv, DagInv', NEW run \in Run, Call(run) PROVE CrewInv'
<1> DEFINE script == Script(run)
           events == PosetOf(run)
           cites == stash[run]
<1>1. /\ mode[run] = "calls" /\ Len(results[run]) < MaxCalls
      /\ CommitEvent(run, cites) /\ UNCHANGED <<doctrine, profile, scenario, reply>>
      /\ mode' = mode /\ stash' = stash /\ outcomes' = outcomes /\ at' = at
  BY DEF Call, Cites
<1>2. PICK x : x = Outcome(run, cites, TRUE)
  OBVIOUS
<1>3. results' = [results EXCEPT ![run] = Append(@, x)]
  BY <1>2 DEF Call, Cites
<1>4. RunOK(run, script, at[run], "calls", cites, results[run],
            outcomes[run], events)
  BY <1>1 DEF CrewInv, RunHolds
<1>5. cites \in SUBSET EventId /\ cites \in SUBSET DOMAIN dag[run].index /\ DagInv
  BY <1>4, StashIds DEF CrewInv, DagInv
<1>6. IsNext(x, run, events, cites) /\ x.llm_driven
  BY <1>2, <1>5, NextOutcome
<1>7. PICK node \in Node : /\ node.id = <<run, Len(events) + 1>>
                           /\ PosetOf(run)' = Append(events, node)
  BY <1>1, <1>5, CommitGrows
<1>8. \A y \in Run \ {run} : PosetOf(y)' = PosetOf(y)
  BY <1>1, <1>5, CommitGrows
<1>9. DOMAIN results = Run
  BY DEF CrewInv, Shapes
<1>10. results'[run] = Append(results[run], x)
  BY <1>3, <1>9
<1>11. events \in Seq(Node) /\ Script(run)' = script
  BY <1>1, <1>5, PosetTyped, ScriptStays
<1>12. RunOK(run, script, at[run], "calls", cites, Append(results[run], x),
             outcomes[run], Append(events, node))
  <2> HIDE DEF script, events, cites
  <2> QED
    BY <1>1, <1>4, <1>5, <1>6, <1>11, CallOK
<1>13. RunHolds(run)'
  BY <1>1, <1>7, <1>10, <1>11, <1>12 DEF RunHolds
<1>14. Others(run)
  BY <1>1, <1>3, <1>8, <1>9 DEF Others
<1>15. Shapes'
  BY <1>1, <1>3, <1>9 DEF CrewInv, Shapes
<1> QED
  BY <1>1, <1>13, <1>14, <1>15, StepAssembles

\* An answer that fails: FailCall.
LEMMA FailCallKeeps ==
    ASSUME CrewInv, DagInv', NEW run \in Run, FailCall(run) PROVE CrewInv'
<1> DEFINE script == Script(run)
           events == PosetOf(run)
<1>1. /\ mode[run] = "calls"
      /\ UNCHANGED <<doctrine, profile, scenario, reply, at, dag, outcomes>>
      /\ mode' = [mode EXCEPT ![run] = "fallback"]
      /\ results' = [results EXCEPT ![run] = <<>>]
      /\ stash' = [stash EXCEPT ![run] = {}]
  BY DEF FailCall
<1>2. DOMAIN mode = Run /\ DOMAIN stash = Run /\ DOMAIN results = Run
  BY DEF CrewInv, DagInv, Shapes
<1>3. mode'[run] = "fallback" /\ stash'[run] = {} /\ results'[run] = <<>>
  BY <1>1, <1>2
<1>4. \A y \in Run : PosetOf(y)' = PosetOf(y)
  BY <1>1 DEF PosetOf
<1>5. RunOK(run, script, at[run], "calls", stash[run], results[run],
            outcomes[run], events)
  BY <1>1 DEF CrewInv, RunHolds
<1>6. RunOK(run, script, at[run], "fallback", {}, <<>>, outcomes[run], events)
  BY <1>5, FailOK
<1>7. RunHolds(run)'
  BY <1>1, <1>3, <1>4, <1>6, ScriptStays DEF RunHolds
<1>8. Others(run)
  BY <1>1, <1>2, <1>4 DEF Others
<1>9. Shapes'
  BY <1>1, <1>2 DEF CrewInv, Shapes
<1> QED
  BY <1>1, <1>7, <1>8, <1>9, StepAssembles

\* An order of the fallback pair: FallBack.
LEMMA FallBackKeeps ==
    ASSUME CrewInv, DagInv', NEW run \in Run, FallBack(run) PROVE CrewInv'
<1> DEFINE script == Script(run)
           events == PosetOf(run)
           cites == stash[run]
<1>1. /\ mode[run] = "fallback" /\ Len(results[run]) < Len(FallbackPair)
      /\ CommitEvent(run, cites) /\ UNCHANGED <<doctrine, profile, scenario, reply>>
      /\ mode' = mode /\ stash' = stash /\ outcomes' = outcomes /\ at' = at
  BY DEF FallBack
<1>2. PICK x : x = Outcome(run, cites, FALSE)
  OBVIOUS
<1>3. results' = [results EXCEPT ![run] = Append(@, x)]
  BY <1>2 DEF FallBack
<1>4. RunOK(run, script, at[run], "fallback", cites, results[run],
            outcomes[run], events)
  BY <1>1 DEF CrewInv, RunHolds
<1>5. cites \in SUBSET EventId /\ cites \in SUBSET DOMAIN dag[run].index /\ DagInv
  BY <1>4 DEF CrewInv, DagInv, RunOK
<1>6. IsNext(x, run, events, cites) /\ ~x.llm_driven
  BY <1>2, <1>5, NextOutcome
<1>7. PICK node \in Node : /\ node.id = <<run, Len(events) + 1>>
                           /\ PosetOf(run)' = Append(events, node)
  BY <1>1, <1>5, CommitGrows
<1>8. \A y \in Run \ {run} : PosetOf(y)' = PosetOf(y)
  BY <1>1, <1>5, CommitGrows
<1>9. DOMAIN results = Run
  BY DEF CrewInv, Shapes
<1>10. results'[run] = Append(results[run], x)
  BY <1>3, <1>9
<1>11. events \in Seq(Node) /\ Script(run)' = script
  BY <1>1, <1>5, PosetTyped, ScriptStays
<1>12. RunOK(run, script, at[run], "fallback", cites, Append(results[run], x),
             outcomes[run], Append(events, node))
  <2> HIDE DEF script, events, cites
  <2> QED
    BY <1>1, <1>4, <1>6, <1>11, FallBackOK
<1>13. RunHolds(run)'
  BY <1>1, <1>7, <1>10, <1>11, <1>12 DEF RunHolds
<1>14. Others(run)
  BY <1>1, <1>3, <1>8, <1>9 DEF Others
<1>15. Shapes'
  BY <1>1, <1>3, <1>9 DEF CrewInv, Shapes
<1> QED
  BY <1>1, <1>13, <1>14, <1>15, StepAssembles

\* A decision that is complete: Decided.
LEMMA DecidedKeeps ==
    ASSUME CrewInv, DagInv', NEW run \in Run, Decided(run) PROVE CrewInv'
<1> DEFINE script == Script(run)
           events == PosetOf(run)
<1>1. /\ mode[run] \in {"calls", "fallback"}
      /\ UNCHANGED <<doctrine, profile, scenario, reply, dag>>
      /\ mode' = [mode EXCEPT ![run] = "steps"]
      /\ results' = [results EXCEPT ![run] = <<>>]
      /\ stash' = [stash EXCEPT ![run] = {}]
      /\ at' = [at EXCEPT ![run] = @ + 1]
      /\ outcomes' = [outcomes EXCEPT ![run] = @ \o results[run]]
  BY DEF Decided, Reset
<1>2. /\ DOMAIN mode = Run /\ DOMAIN stash = Run /\ DOMAIN results = Run
      /\ DOMAIN at = Run /\ DOMAIN outcomes = Run
  BY DEF CrewInv, DagInv, Shapes
<1>3. /\ mode'[run] = "steps" /\ stash'[run] = {} /\ results'[run] = <<>>
      /\ at'[run] = at[run] + 1 /\ outcomes'[run] = outcomes[run] \o results[run]
  BY <1>1, <1>2
<1>4. \A y \in Run : PosetOf(y)' = PosetOf(y)
  BY <1>1 DEF PosetOf
<1>5. OneDecide(script)
  BY AsksOnce
<1>6. RunOK(run, script, at[run], mode[run], stash[run], results[run],
            outcomes[run], events)
  BY DEF CrewInv, RunHolds
<1>7. RunOK(run, script, at[run] + 1, "steps", {}, <<>>,
            outcomes[run] \o results[run], events)
  <2> HIDE DEF script, events
  <2> QED
    BY <1>1, <1>5, <1>6, DecidedOK
<1>8. RunHolds(run)'
  BY <1>1, <1>3, <1>4, <1>7, ScriptStays DEF RunHolds
<1>9. Others(run)
  BY <1>1, <1>2, <1>4 DEF Others
<1>10. Shapes'
  BY <1>1, <1>2 DEF CrewInv, Shapes
<1> QED
  BY <1>1, <1>8, <1>9, <1>10, StepAssembles

\* A step that is refused: Raise.
LEMMA RaiseKeeps ==
    ASSUME CrewInv, DagInv', NEW run \in Run, Raise(run) PROVE CrewInv'
<1>1. /\ UNCHANGED <<doctrine, profile, scenario, reply, at, dag, stash, results,
                     outcomes>>
      /\ mode' = [mode EXCEPT ![run] = "raised"]
  BY DEF Raise
<1>2. DOMAIN mode = Run
  BY DEF CrewInv, Shapes
<1>3. mode'[run] = "raised"
  BY <1>1, <1>2
<1>4. \A y \in Run : PosetOf(y)' = PosetOf(y)
  BY <1>1 DEF PosetOf
<1>5. RunOK(run, Script(run), at[run], "raised", stash[run], results[run],
            outcomes[run], PosetOf(run))
  BY DEF CrewInv, RunHolds, RunOK
<1>6. RunHolds(run)'
  BY <1>1, <1>3, <1>4, <1>5, ScriptStays DEF RunHolds
<1>7. Others(run)
  BY <1>1, <1>2, <1>4 DEF Others
<1>8. Shapes'
  BY <1>1, <1>2 DEF CrewInv, Shapes
<1> QED
  BY <1>1, <1>6, <1>7, <1>8, StepAssembles

\* A request's two crews start, and those of the other slots go on: RunTurn.
LEMMA RunTurnKeeps ==
    ASSUME CrewInv, DagInv', NEW r \in Slot, RunTurn(r) PROVE CrewInv'
<1>1. /\ UNCHANGED <<doctrine, profile>>
      /\ reply' = [reply EXCEPT ![r] = "open"]
      /\ mode' = [run \in Run |-> IF run \in Runs(r) THEN Begin(run) ELSE mode[run]]
      /\ at' = [run \in Run |-> IF run \in Runs(r) THEN 1 ELSE at[run]]
      /\ dag' = [run \in Run |-> IF run \in Runs(r) THEN NewDag ELSE dag[run]]
      /\ stash' = [run \in Run |-> IF run \in Runs(r) THEN {} ELSE stash[run]]
      /\ results' = [run \in Run |-> IF run \in Runs(r) THEN <<>> ELSE results[run]]
      /\ outcomes' = [run \in Run |-> IF run \in Runs(r) THEN <<>> ELSE outcomes[run]]
  BY DEF RunTurn, CrewDag
<1>2. PICK ns \in Namespace : scenario' = [scenario EXCEPT ![r] = ns]
  BY DEF RunTurn
<1>3. \A run : Begin(run) \in {"steps", "raised"}
  BY DEF Begin
<1>4. Shapes'
  BY <1>1, <1>3 DEF CrewInv, Shapes
<1>5. ASSUME NEW run \in Run PROVE RunHolds(run)'
  <2>1. CASE run \in Runs(r)
    <3>1. /\ at'[run] = 1 /\ mode'[run] = Begin(run) /\ stash'[run] = {}
          /\ results'[run] = <<>> /\ outcomes'[run] = <<>> /\ dag'[run] = NewDag
      BY <1>1, <2>1
    <3>2. scenario'[run[1]] \in Namespace
      BY RunSlot DEF DagInv
    <3>3. PosetOf(run)' = <<>>
      BY <3>1, <3>2 DEF PosetOf, NewDag
    <3>4. OneDecide(Script(run))
      BY AsksOnce
    <3>5. RunOK(run, Script(run), 1, Begin(run), {}, <<>>, <<>>, <<>>)
      BY <1>3, <3>4, StartOK
    <3> QED
      BY <1>1, <3>1, <3>3, <3>5, ScriptStays DEF RunHolds
  <2>2. CASE run \notin Runs(r)
    <3>1. run[1] # r /\ run[1] \in Slot
      BY <2>2 DEF Runs, Run
    <3>2. /\ at'[run] = at[run] /\ mode'[run] = mode[run] /\ stash'[run] = stash[run]
          /\ results'[run] = results[run] /\ outcomes'[run] = outcomes[run]
          /\ dag'[run] = dag[run]
      BY <1>1, <2>2
    <3>3. scenario'[run[1]] = scenario[run[1]]
      BY <1>2, <3>1 DEF CrewInv, DagInv
    <3>4. PosetOf(run)' = PosetOf(run)
      BY <3>2, <3>3 DEF PosetOf
    <3> QED
      BY <1>1, <3>2, <3>4, RunStands DEF CrewInv
  <2> QED
    BY <2>1, <2>2
<1>6. reply' \in [Slot -> {"none", "open", "200", "500"}]
  BY <1>1 DEF CrewInv
<1> QED
  BY <1>1, <1>4, <1>5, <1>6 DEF CrewInv

\* The answer of a request, or nothing: the runs stand.
LEMMA StandKeeps ==
    ASSUME CrewInv, DagInv', UNCHANGED <<doctrine, profile, scenario, crew>>,
           reply' \in [Slot -> {"none", "open", "200", "500"}]
    PROVE  CrewInv'
<1>1. UNCHANGED <<doctrine, profile, scenario, at, mode, dag, stash, results, outcomes>>
  BY DEF crew
<1>2. Shapes'
  BY <1>1 DEF CrewInv, Shapes
<1>3. ASSUME NEW run \in Run PROVE RunHolds(run)'
  <2>1. PosetOf(run)' = PosetOf(run)
    BY <1>1 DEF PosetOf
  <2> QED
    BY <1>1, <2>1, RunStands DEF CrewInv
<1> QED
  BY <1>1, <1>2, <1>3 DEF CrewInv

\* Every step of the worker keeps the invariant.
LEMMA CrewStep == CrewInv /\ [Next]_vars => CrewInv'
<1> SUFFICES ASSUME CrewInv, [Next]_vars PROVE CrewInv'
  OBVIOUS
<1>1. DagInv'
  BY DagInvStep DEF CrewInv
<1>2. ASSUME NEW r \in Slot, RunTurn(r) PROVE CrewInv'
  BY <1>1, <1>2, RunTurnKeeps
<1>3. ASSUME NEW r \in Slot, Answer(r) \/ Fail(r) PROVE CrewInv'
  <2>1. reply' \in [Slot -> {"none", "open", "200", "500"}]
    BY <1>3 DEF Answer, Fail, CrewInv
  <2>2. UNCHANGED <<doctrine, profile, scenario, crew>>
    BY <1>3 DEF Answer, Fail
  <2> QED
    BY <1>1, <2>1, <2>2, StandKeeps
<1>4. ASSUME NEW run \in Run, Proceed(run) PROVE CrewInv'
  BY <1>1, <1>4, ActKeeps, AskKeeps, FailCallKeeps, FallBackKeeps, DecidedKeeps,
     RaiseKeeps DEF Proceed
<1>5. ASSUME NEW run \in Run, Call(run) PROVE CrewInv'
  BY <1>1, <1>5, CallKeeps
<1>6. CASE UNCHANGED vars
  <2>1. UNCHANGED <<doctrine, profile, scenario, crew>> /\ reply' = reply
    BY <1>6 DEF vars
  <2> QED
    BY <1>1, <2>1, StandKeeps DEF CrewInv
<1> QED
  BY <1>2, <1>3, <1>4, <1>5, <1>6 DEF Next

\* So it always holds.
LEMMA CrewInvariant == Spec => []CrewInv
BY CrewStarts, CrewStep, PTL DEF Spec

-----------------------------------------------------------------------------
\* The ids before the i-th entry.
LEMMA Earlier ==
    ASSUME NEW w \in Seq(Entry), NEW i \in 1 .. Len(w)
    PROVE  Ids(SubSeq(w, 1, i - 1)) = {w[j].event_id : j \in 1 .. i - 1}
<1>1. PICK v : v = SubSeq(w, 1, i - 1)
  OBVIOUS
<1>2. Len(v) = i - 1 /\ \A j \in 1 .. i - 1 : v[j] = w[j]
  BY <1>1
<1>3. Ids(v) = {w[j].event_id : j \in 1 .. i - 1}
  BY <1>2 DEF Ids
<1> QED
  BY <1>1, <1>3

\* Numbered events are different events.
LEMMA NumbersDiffer ==
    ASSUME NEW run, NEW n \in Nat, NEW w, Len(w) \in Nat, Numbered(w, run, n),
           NEW i \in 1 .. Len(w), NEW k \in 1 .. Len(w), i < k
    PROVE  w[i].event_id # w[k].event_id
<1>1. w[i].event_id[2] \in 1 .. n /\ w[k].event_id[2] \in 1 .. n
  BY DEF Numbered
<1>2. w[i].event_id[2] < w[k].event_id[2]
  BY DEF Numbered
<1>3. w[i].event_id[2] # w[k].event_id[2]
  BY <1>1, <1>2
<1> QED
  BY <1>3

\* What a report's entry cites comes before it in the report.
LEMMA CitesEarlier ==
    ASSUME NEW w, Cited(w), NEW i \in 1 .. Len(w),
           NEW p \in w[i].causal_predecessors
    PROVE  \E j \in 1 .. i - 1 : w[j].event_id = p
<1>1. p \in Plain(w, i)
  BY DEF Cited
<1> QED
  BY <1>1 DEF Plain

\* Events that come once each, after all they cite.
Closed(w) ==
    \A i \in 1 .. Len(w) :
        /\ \A j \in 1 .. i - 1 : w[j].event_id # w[i].event_id
        /\ \A p \in w[i].causal_predecessors :
              \E j \in 1 .. i - 1 : w[j].event_id = p

\* The reports of two runs, one after the other, are causally closed.
LEMMA ReportsClosed ==
    ASSUME NEW one, NEW two, one # two, NEW n \in Nat, NEW m \in Nat,
           NEW u \in Seq(Entry), NEW v \in Seq(Entry),
           Cited(u), Cited(v), Numbered(u, one, n), Numbered(v, two, m)
    PROVE  Closed(u \o v)
<1> SUFFICES ASSUME NEW w, w = u \o v, NEW i \in 1 .. Len(w)
             PROVE  /\ \A j \in 1 .. i - 1 : w[j].event_id # w[i].event_id
                    /\ \A p \in w[i].causal_predecessors :
                          \E j \in 1 .. i - 1 : w[j].event_id = p
  BY DEF Closed
<1>1. /\ Len(u) \in Nat /\ Len(v) \in Nat /\ Len(w) = Len(u) + Len(v)
      /\ \A j \in 1 .. Len(u) : w[j] = u[j]
      /\ \A j \in 1 .. Len(v) : w[Len(u) + j] = v[j]
  BY ConcatProperties
<1>2. \A j \in 1 .. Len(w) : j \in 1 .. Len(u) \/ j - Len(u) \in 1 .. Len(v)
  BY <1>1
<1>3. CASE i \in 1 .. Len(u)
  <2>1. w[i] = u[i] /\ \A j \in 1 .. i - 1 : j \in 1 .. Len(u) /\ w[j] = u[j]
    BY <1>1, <1>3
  <2>2. \A j \in 1 .. i - 1 : u[j].event_id # u[i].event_id
    BY <1>1, <1>3, <2>1, NumbersDiffer
  <2>3. \A p \in u[i].causal_predecessors : \E j \in 1 .. i - 1 : u[j].event_id = p
    BY <1>3, CitesEarlier
  <2> QED
    BY <2>1, <2>2, <2>3
<1>4. CASE i - Len(u) \in 1 .. Len(v)
  <2> DEFINE k == i - Len(u)
  <2>1. k \in 1 .. Len(v) /\ w[i] = v[k] /\ i = Len(u) + k
    BY <1>1, <1>4
  <2> HIDE DEF k
  <2>2. ASSUME NEW j \in 1 .. i - 1 PROVE w[j].event_id # w[i].event_id
    <3>1. CASE j \in 1 .. Len(u)
      <4>1. w[j].event_id[1] = one /\ w[i].event_id[1] = two
        BY <1>1, <2>1, <3>1 DEF Numbered
      <4> QED
        BY <4>1
    <3>2. CASE j \notin 1 .. Len(u)
      <4>1. PICK h \in 1 .. Len(v) : h = j - Len(u)
        BY <1>1, <1>2, <3>2
      <4>2. w[j] = v[h] /\ h < k
        <5>1. j = Len(u) + h /\ h < k
          BY <1>1, <2>1, <4>1
        <5> QED
          BY <1>1, <5>1
      <4>3. v[h].event_id # v[k].event_id
        BY <1>1, <2>1, <4>2, NumbersDiffer
      <4> QED
        BY <2>1, <4>2, <4>3
    <3> QED
      BY <3>1, <3>2
  <2>3. ASSUME NEW p \in w[i].causal_predecessors
        PROVE  \E j \in 1 .. i - 1 : w[j].event_id = p
    <3>1. p \in v[k].causal_predecessors
      BY <2>1, <2>3
    <3>2. PICK h \in 1 .. k - 1 : v[h].event_id = p
      BY <2>1, <3>1, CitesEarlier
    <3>3. Len(u) + h \in 1 .. i - 1 /\ w[Len(u) + h] = v[h]
      BY <1>1, <2>1, <3>2
    <3> QED
      BY <3>2, <3>3
  <2> QED
    BY <2>2, <2>3
<1> QED
  BY <1>2, <1>3, <1>4

\* What a run reports is cited and numbered, in the middle of a decision too.
LEMMA Reported ==
    ASSUME CrewInv, NEW run \in Run
    PROVE  /\ outcomes[run] \in Seq(Entry) /\ Cited(outcomes[run])
           /\ Len(PosetOf(run)) \in Nat
           /\ Numbered(outcomes[run], run, Len(PosetOf(run)))
<1>1. RunOK(run, Script(run), at[run], mode[run], stash[run], results[run],
            outcomes[run], PosetOf(run))
  BY DEF CrewInv, RunHolds
<1>2. Len(PosetOf(run)) \in Nat
  BY PosetTyped DEF CrewInv
<1> QED
  BY <1>1, <1>2, Beginning DEF RunOK

-----------------------------------------------------------------------------
\* Every variable keeps its type, a crew never leaves its script, and what S3
\* cites and has gathered exists only while it decides.
THEOREM CrewTyped == Spec => []TypeOK
<1>1. ASSUME CrewInv PROVE TypeOK
  <2>1. ASSUME NEW run \in Run
        PROVE  /\ at[run] \in 1 .. Len(Script(run)) + 1
               /\ mode[run] = "steps" => stash[run] = {} /\ results[run] = <<>>
               /\ mode[run] \in {"calls", "fallback"} => Here(run) = Decide
               /\ Len(results[run]) <= AtLeast(MaxCalls, Len(FallbackPair))
    <3>1. RunHolds(run)
      BY <1>1 DEF CrewInv
    <3> QED
      BY <3>1 DEF RunHolds, RunOK, Here, Longest
  <2> QED
    BY <1>1, <2>1 DEF CrewInv, DagInv, Shapes, TypeOK
<1> QED
  BY <1>1, CrewInvariant, PTL

\* What the LLM decided cites exactly what the crew had reported before it was
\* asked, and nothing else cites anything, whatever failed in between.
THEOREM ReportIsCited == Spec => []CitesReport
<1>1. ASSUME CrewInv PROVE CitesReport
  <2> SUFFICES ASSUME NEW run \in Run PROVE Cited(outcomes[run])
    BY DEF CitesReport, Cited, Plain
  <2> QED
    BY <1>1, Reported
<1> QED
  BY <1>1, CrewInvariant, PTL

\* The events an answer lists come once each, after all they cite.
THEOREM AnswersCausallyClosed == Spec => []AnswerCausallyClosed
<1>1. ASSUME CrewInv PROVE AnswerCausallyClosed
  <2> SUFFICES ASSUME NEW r \in Slot, NEW i \in 1 .. Len(Events(r))
               PROVE  LET earlier == Ids(SubSeq(Events(r), 1, i - 1))
                      IN  /\ Events(r)[i].event_id \notin earlier
                          /\ Events(r)[i].causal_predecessors \subseteq earlier
    BY DEF AnswerCausallyClosed
  <2> DEFINE one == <<r, "blue">>
             two == <<r, "red">>
  <2>1. one \in Run /\ two \in Run /\ one # two
    BY DEF Run, Side
  <2>2. PICK u, v : /\ u = outcomes[one] /\ v = outcomes[two]
                    /\ u \in Seq(Entry) /\ v \in Seq(Entry)
                    /\ Cited(u) /\ Cited(v)
                    /\ \E n \in Nat : Numbered(u, one, n)
                    /\ \E m \in Nat : Numbered(v, two, m)
    BY <1>1, <2>1, Reported
  <2>3. PICK w \in Seq(Entry) : w = Events(r) /\ w = u \o v
    BY <2>2, ConcatProperties DEF Events
  <2>4. i \in 1 .. Len(w)
    BY <2>3
  <2> HIDE DEF one, two
  <2>5. Closed(u \o v)
    BY <2>1, <2>2, ReportsClosed
  <2>6. Ids(SubSeq(w, 1, i - 1)) = {w[j].event_id : j \in 1 .. i - 1}
    BY <2>4, Earlier
  <2>7. PICK earlier : earlier = Ids(SubSeq(w, 1, i - 1))
    OBVIOUS
  <2>8. Closed(w)
    BY <2>3, <2>5
  <2>9. earlier = {w[j].event_id : j \in 1 .. i - 1}
    BY <2>6, <2>7
  <2>10. w[i].event_id \notin earlier /\ w[i].causal_predecessors \subseteq earlier
    BY <2>4, <2>8, <2>9 DEF Closed
  <2> QED
    BY <2>3, <2>7, <2>10
<1> QED
  BY <1>1, CrewInvariant, PTL

-----------------------------------------------------------------------------
(***************************************************************************)
(* How much of its script a run has reported: one event for each step,     *)
(* and in the decision's place what the LLM decided, if it decided         *)
(* anything, or else the fallback pair.  The results of a decision under   *)
(* way are all of one kind.                                                *)
(***************************************************************************)
Driven(w) == {i \in 1 .. Len(w) : w[i].llm_driven}
ForDecide(w) ==
    IF Driven(w) = {} THEN Len(FallbackPair) ELSE Cardinality(Driven(w))

RunWhole(script, a, m, out, res) ==
    /\ m = "fallback" => \A i \in 1 .. Len(res) : ~res[i].llm_driven
    /\ Unasked(script, a) => Len(out) = a - 1
    /\ ~Unasked(script, a) => Len(out) = a - 2 + ForDecide(out)

WholeInv ==
    \A run \in Run :
        RunWhole(Script(run), at[run], mode[run], outcomes[run], results[run])

\* The events the LLM decided on can be counted.
LEMMA DrivenFinite ==
    ASSUME NEW w \in Seq(Entry)
    PROVE  IsFiniteSet(Driven(w)) /\ Cardinality(Driven(w)) \in Nat
<1>1. IsFiniteSet(1 .. Len(w))
  BY FS_Interval
<1>2. IsFiniteSet(Driven(w))
  BY <1>1, FS_Subset DEF Driven
<1> QED
  BY <1>2, FS_CardinalityType

\* How many numbers an interval has.
LEMMA IntervalLength ==
    \A n, k \in Nat : n <= k => Cardinality(n .. k) = k - n + 1
<1> SUFFICES ASSUME NEW n \in Nat, NEW k \in Nat, n <= k
             PROVE  Cardinality(n .. k) = k - n + 1
  OBVIOUS
<1>1. Cardinality(n .. k) = IF n > k THEN 0 ELSE k - n + 1
  BY FS_Interval
<1> QED
  BY <1>1

\* A scripted step reports one event, which no LLM decided on.
LEMMA ActWhole ==
    ASSUME NEW script, NEW a \in 1 .. Len(script), OneDecide(script),
           script[a] # Decide, NEW out \in Seq(Entry), NEW res, NEW x \in Entry,
           ~x.llm_driven, RunWhole(script, a, "steps", out, res)
    PROVE  RunWhole(script, a + 1, "steps", Append(out, x), res)
<1>1. PICK v : v = Append(out, x)
  OBVIOUS
<1>2. /\ Len(out) \in Nat /\ Len(v) = Len(out) + 1 /\ v[Len(out) + 1] = x
      /\ \A i \in 1 .. Len(out) : v[i] = out[i]
  BY <1>1
<1>3. \A i : i \in Driven(v) <=> i \in Driven(out)
  BY <1>2 DEF Driven
<1>4. Driven(v) = Driven(out)
  BY <1>3
<1>5. Unasked(script, a + 1) <=> Unasked(script, a)
  BY DEF Unasked, OneDecide
<1>6. Len(v) = a + 1 - 1 <=> Len(out) = a - 1
  BY <1>2
<1>7. ForDecide(v) = ForDecide(out)
  BY <1>4 DEF ForDecide
<1>8. a - 2 \in Int /\ a + 1 - 2 = a - 2 + 1
  BY DEF OneDecide
<1>9. ~Unasked(script, a + 1) => Len(v) = a + 1 - 2 + ForDecide(v)
  <2> SUFFICES ASSUME ~Unasked(script, a) PROVE Len(v) = a + 1 - 2 + ForDecide(v)
    BY <1>5
  <2>1. PICK n : n = ForDecide(out)
    OBVIOUS
  <2>2. Len(out) = a - 2 + n /\ n \in Int
    <3>1. Len(out) = a - 2 + n
      BY <2>1 DEF RunWhole
    <3>2. ForDecide(out) \in Int
      BY DrivenFinite DEF ForDecide, FallbackPair
    <3> QED
      BY <2>1, <3>1, <3>2
  <2> QED
    BY <1>2, <1>7, <1>8, <2>1, <2>2
<1>10. RunWhole(script, a + 1, "steps", v, res)
  BY <1>5, <1>6, <1>9 DEF RunWhole
<1> QED
  BY <1>1, <1>10

\* The decision's results: a decision of the LLM counts what it called, and the
\* fallback pair is as long as it is.
LEMMA DecidedWhole ==
    ASSUME NEW script, NEW a \in 1 .. Len(script), OneDecide(script),
           script[a] = Decide, NEW m \in {"calls", "fallback"},
           NEW out \in Seq(Entry), NEW res \in Seq(Entry),
           \A i \in 1 .. Len(out) : ~out[i].llm_driven,
           m = "calls" => Len(res) > 0 /\ \A i \in 1 .. Len(res) : res[i].llm_driven,
           m = "fallback" => Len(res) = Len(FallbackPair),
           RunWhole(script, a, m, out, res)
    PROVE  RunWhole(script, a + 1, "steps", out \o res, <<>>)
<1>1. PICK w \in Seq(Entry) : w = out \o res
  BY ConcatProperties
<1>2. /\ Len(out) \in Nat /\ Len(res) \in Nat /\ Len(w) = Len(out) + Len(res)
      /\ \A i \in 1 .. Len(out) : w[i] = out[i]
      /\ \A i \in Len(out) + 1 .. Len(out) + Len(res) : w[i] = res[i - Len(out)]
  BY <1>1, ConcatProperties
<1> DEFINE added == Len(out) + 1 .. Len(out) + Len(res)
<1>3. \A i \in added : i - Len(out) \in 1 .. Len(res) /\ w[i] = res[i - Len(out)]
  BY <1>2
<1>4. \A i \in 1 .. Len(w) : i \in 1 .. Len(out) \/ i \in added
  BY <1>2
<1>5. Unasked(script, a) /\ ~Unasked(script, a + 1)
  BY DEF Unasked, OneDecide
<1>6. Len(out) = a - 1
  BY <1>5 DEF RunWhole
<1>7. a \in Nat /\ Len(w) = a + 1 - 2 + Len(res)
  BY <1>2, <1>6 DEF OneDecide
<1>8. CASE m = "calls"
  <2>1. \A i \in 1 .. Len(w) : w[i].llm_driven <=> i \in added
    BY <1>2, <1>8, <1>3, <1>4
  <2>2. Driven(w) = added
    BY <1>2, <2>1 DEF Driven
  <2>3. Cardinality(Driven(w)) = Len(res) /\ Driven(w) # {}
    <3>1. Len(res) > 0
      BY <1>8
    <3>2. PICK n, k \in Nat : n = Len(out) + 1 /\ k = Len(out) + Len(res)
      BY <1>2
    <3>3. Cardinality(n .. k) = Len(res)
      <4>1. n <= k /\ k - n + 1 = Len(res)
        BY <1>2, <3>1, <3>2
      <4> QED
        BY <4>1, IntervalLength
    <3>4. n \in added
      BY <1>2, <3>1, <3>2
    <3> QED
      BY <2>2, <3>2, <3>3, <3>4
  <2>4. ForDecide(w) = Len(res)
    BY <2>3 DEF ForDecide
  <2> QED
    BY <1>1, <1>5, <1>7, <2>4 DEF RunWhole
<1>9. CASE m = "fallback"
  <2>1. \A i \in 1 .. Len(res) : ~res[i].llm_driven
    BY <1>9 DEF RunWhole
  <2>2. Driven(w) = {}
    BY <1>2, <1>3, <1>4, <2>1 DEF Driven
  <2>3. ForDecide(w) = Len(res)
    BY <1>9, <2>2 DEF ForDecide
  <2> QED
    BY <1>1, <1>5, <1>7, <2>3 DEF RunWhole
<1> QED
  BY <1>8, <1>9

\* An order of the fallback pair is none of the LLM's.
LEMMA FallBackWhole ==
    ASSUME NEW script, NEW a, NEW out, NEW res \in Seq(Entry), NEW x \in Entry,
           ~x.llm_driven, RunWhole(script, a, "fallback", out, res)
    PROVE  RunWhole(script, a, "fallback", out, Append(res, x))
<1>1. PICK v : v = Append(res, x)
  OBVIOUS
<1>2. \A i \in 1 .. Len(v) : ~v[i].llm_driven
  BY <1>1, OneMore DEF RunWhole
<1> QED
  BY <1>1, <1>2 DEF RunWhole

\* A run that starts has reported nothing of its script.
LEMMA StartWhole ==
    ASSUME NEW script, NEW m \in {"steps", "idle", "raised"}
    PROVE  RunWhole(script, 1, m, <<>>, <<>>)
<1>1. Unasked(script, 1)
  BY DEF Unasked
<1> QED
  BY <1>1 DEF RunWhole

\* A run of which nothing changes, or only the mode to one that is no fallback,
\* keeps its part.
LEMMA WholeStands ==
    ASSUME NEW x \in Run, UNCHANGED <<doctrine, profile>>,
           RunWhole(Script(x), at[x], mode[x], outcomes[x], results[x]),
           at'[x] = at[x], outcomes'[x] = outcomes[x],
           mode'[x] # "fallback" \/ (mode'[x] = mode[x] /\ results'[x] = results[x])
    PROVE  RunWhole(Script(x), at[x], mode[x], outcomes[x], results[x])'
BY ScriptStays DEF RunWhole

\* What a step of the worker leaves alone of every run but one.
LEMMA WholeAssembles ==
    ASSUME WholeInv, UNCHANGED <<doctrine, profile>>, NEW run \in Run,
           \A x \in Run \ {run} :
              /\ at'[x] = at[x] /\ mode'[x] = mode[x]
              /\ outcomes'[x] = outcomes[x] /\ results'[x] = results[x],
           RunWhole(Script(run), at[run], mode[run], outcomes[run], results[run])'
    PROVE  WholeInv'
<1>1. ASSUME NEW x \in Run \ {run}
      PROVE  RunWhole(Script(x), at[x], mode[x], outcomes[x], results[x])'
  BY WholeStands DEF WholeInv
<1> QED
  BY <1>1 DEF WholeInv

\* What is known of a run, with the places of its step.
LEMMA RunKnown ==
    ASSUME CrewInv, NEW run \in Run
    PROVE  /\ outcomes[run] \in Seq(Entry) /\ results[run] \in Seq(Entry)
           /\ OneDecide(Script(run)) /\ at[run] \in 1 .. Len(Script(run)) + 1
           /\ mode[run] = "steps" => results[run] = <<>>
           /\ mode[run] \in {"calls", "fallback"} =>
                 /\ at[run] \in 1 .. Len(Script(run)) /\ Script(run)[at[run]] = Decide
                 /\ \A i \in 1 .. Len(outcomes[run]) : ~outcomes[run][i].llm_driven
           /\ mode[run] = "calls" =>
                 \A i \in 1 .. Len(results[run]) : results[run][i].llm_driven
<1> DEFINE script == Script(run)
<1>1. RunOK(run, script, at[run], mode[run], stash[run], results[run],
            outcomes[run], PosetOf(run))
  BY DEF CrewInv, RunHolds
<1>2. OneDecide(script)
  BY AsksOnce
<1> HIDE DEF script
<1>3. /\ outcomes[run] \in Seq(Entry) /\ results[run] \in Seq(Entry)
      /\ at[run] \in 1 .. Len(script) + 1
      /\ mode[run] = "steps" => results[run] = <<>>
      /\ mode[run] = "calls" => \A i \in 1 .. Len(results[run]) : results[run][i].llm_driven
  BY <1>1 DEF RunOK
<1>4. ASSUME mode[run] \in {"calls", "fallback"}
      PROVE  /\ at[run] \in 1 .. Len(script) /\ script[at[run]] = Decide
             /\ \A i \in 1 .. Len(outcomes[run]) : ~outcomes[run][i].llm_driven
  <2>1. at[run] <= Len(script) /\ script[at[run]] = Decide
    BY <1>1, <1>4 DEF RunOK
  <2>2. Len(script) \in Nat
    BY <1>2 DEF OneDecide
  <2>3. at[run] \in 1 .. Len(script)
    BY <1>3, <2>1, <2>2
  <2>4. Unasked(script, at[run])
    BY <1>2, <2>1, <2>3 DEF OneDecide, Unasked
  <2> QED
    BY <1>1, <2>1, <2>3, <2>4 DEF RunOK
<1> QED
  BY <1>2, <1>3, <1>4 DEF script

\* Every step of the worker keeps what a run has reported of its script.
LEMMA WholeStep == CrewInv /\ WholeInv /\ [Next]_vars => WholeInv'
<1> SUFFICES ASSUME CrewInv, WholeInv, [Next]_vars PROVE WholeInv'
  OBVIOUS
<1> DEFINE Part(x) == RunWhole(Script(x), at[x], mode[x], outcomes[x], results[x])
<1>1. \A x \in Run : Part(x)
  BY DEF WholeInv
<1>2. DOMAIN at = Run /\ DOMAIN mode = Run /\ DOMAIN results = Run /\ DOMAIN outcomes = Run
  BY DEF CrewInv, Shapes
<1>3. ASSUME NEW r \in Slot, RunTurn(r) PROVE WholeInv'
  <2>1. /\ UNCHANGED <<doctrine, profile>>
        /\ mode' = [x \in Run |-> IF x \in Runs(r) THEN Begin(x) ELSE mode[x]]
        /\ at' = [x \in Run |-> IF x \in Runs(r) THEN 1 ELSE at[x]]
        /\ results' = [x \in Run |-> IF x \in Runs(r) THEN <<>> ELSE results[x]]
        /\ outcomes' = [x \in Run |-> IF x \in Runs(r) THEN <<>> ELSE outcomes[x]]
    BY <1>3 DEF RunTurn
  <2>2. ASSUME NEW x \in Run PROVE Part(x)'
    <3>1. CASE x \in Runs(r)
      <4>1. Begin(x) \in {"steps", "idle", "raised"}
        BY DEF Begin
      <4>2. at'[x] = 1 /\ mode'[x] = Begin(x) /\ outcomes'[x] = <<>> /\ results'[x] = <<>>
        BY <2>1, <3>1
      <4>3. RunWhole(Script(x), 1, Begin(x), <<>>, <<>>)
        BY <4>1, StartWhole
      <4> QED
        BY <2>1, <4>2, <4>3, ScriptStays
    <3>2. CASE x \notin Runs(r)
      BY <1>1, <2>1, <3>2, WholeStands
    <3> QED
      BY <3>1, <3>2
  <2> QED
    BY <2>2 DEF WholeInv
<1>4. ASSUME NEW run \in Run, Act(run) PROVE WholeInv'
  <2>1. PICK x : x = Outcome(run, {}, FALSE)
    OBVIOUS
  <2>2. /\ mode[run] = "steps" /\ at[run] <= Len(Script(run))
        /\ Script(run)[at[run]] # Decide
        /\ UNCHANGED <<doctrine, profile, mode, results>>
        /\ at' = [at EXCEPT ![run] = @ + 1]
        /\ outcomes' = [outcomes EXCEPT ![run] = Append(@, x)]
    BY <1>4, <2>1 DEF Act, Here
  <2>3. x \in Entry /\ ~x.llm_driven
    BY <2>1, NextOutcome DEF CrewInv, IsNext
  <2>4. /\ outcomes[run] \in Seq(Entry) /\ OneDecide(Script(run))
        /\ at[run] \in 1 .. Len(Script(run))
    <3>1. OneDecide(Script(run)) /\ at[run] \in 1 .. Len(Script(run)) + 1
      BY RunKnown
    <3> QED
      BY <2>2, <3>1, RunKnown DEF OneDecide
  <2>5. RunWhole(Script(run), at[run], "steps", outcomes[run], results[run])
    BY <1>1, <2>2
  <2>6. RunWhole(Script(run), at[run] + 1, "steps", Append(outcomes[run], x), results[run])
    BY <2>2, <2>3, <2>4, <2>5, ActWhole
  <2>7. /\ at'[run] = at[run] + 1 /\ mode'[run] = "steps"
        /\ outcomes'[run] = Append(outcomes[run], x) /\ results'[run] = results[run]
    BY <1>2, <2>2
  <2>8. Part(run)'
    BY <2>2, <2>6, <2>7, ScriptStays
  <2> QED
    BY <1>2, <2>2, <2>8, WholeAssembles
<1>5. ASSUME NEW run \in Run, Ask(run) PROVE WholeInv'
  <2>1. /\ UNCHANGED <<doctrine, profile, at, results, outcomes>>
        /\ mode' = [mode EXCEPT ![run] = "calls"]
    BY <1>5 DEF Ask
  <2>2. Part(run)'
    BY <1>1, <1>2, <2>1, WholeStands
  <2> QED
    BY <1>2, <2>1, <2>2, WholeAssembles
<1>6. ASSUME NEW run \in Run, Call(run) PROVE WholeInv'
  <2>1. PICK new : results' = [results EXCEPT ![run] = new]
    BY <1>6 DEF Call
  <2>2. UNCHANGED <<doctrine, profile, at, mode, outcomes>> /\ mode[run] = "calls"
    BY <1>6 DEF Call
  <2>3. Part(run)'
    BY <1>1, <1>2, <2>2, WholeStands
  <2> QED
    BY <1>2, <2>1, <2>2, <2>3, WholeAssembles
<1>7. ASSUME NEW run \in Run, FailCall(run) PROVE WholeInv'
  <2>1. /\ UNCHANGED <<doctrine, profile, at, outcomes>>
        /\ mode' = [mode EXCEPT ![run] = "fallback"]
        /\ results' = [results EXCEPT ![run] = <<>>]
    BY <1>7 DEF FailCall
  <2>2. results'[run] = <<>> /\ mode'[run] = "fallback"
    BY <1>2, <2>1
  <2>3. RunWhole(Script(run), at[run], "fallback", outcomes[run], <<>>)
    BY <1>1 DEF RunWhole
  <2>4. Part(run)'
    BY <2>1, <2>2, <2>3, ScriptStays
  <2> QED
    BY <1>2, <2>1, <2>4, WholeAssembles
<1>8. ASSUME NEW run \in Run, FallBack(run) PROVE WholeInv'
  <2>1. PICK x : x = Outcome(run, stash[run], FALSE)
    OBVIOUS
  <2>2. /\ mode[run] = "fallback"
        /\ UNCHANGED <<doctrine, profile, at, mode, outcomes>>
        /\ results' = [results EXCEPT ![run] = Append(@, x)]
    BY <1>8, <2>1 DEF FallBack
  <2>3. stash[run] = {}
    BY <2>2 DEF CrewInv, RunHolds, RunOK
  <2>4. x \in Entry /\ ~x.llm_driven
    BY <2>1, <2>3, NextOutcome DEF CrewInv, IsNext
  <2>5. RunWhole(Script(run), at[run], "fallback", outcomes[run], Append(results[run], x))
    BY <1>1, <2>2, <2>4, RunKnown, FallBackWhole
  <2>6. results'[run] = Append(results[run], x)
    BY <1>2, <2>2
  <2>7. Part(run)'
    BY <2>2, <2>5, <2>6, ScriptStays
  <2> QED
    BY <1>2, <2>2, <2>7, WholeAssembles
<1>9. ASSUME NEW run \in Run, Decided(run) PROVE WholeInv'
  <2>1. /\ mode[run] \in {"calls", "fallback"} /\ Complete(run)
        /\ UNCHANGED <<doctrine, profile>>
        /\ outcomes' = [outcomes EXCEPT ![run] = @ \o results[run]]
        /\ results' = [results EXCEPT ![run] = <<>>]
        /\ mode' = [mode EXCEPT ![run] = "steps"]
        /\ at' = [at EXCEPT ![run] = @ + 1]
    BY <1>9 DEF Decided
  <2>2. results[run] \in Seq(Entry) /\ outcomes[run] \in Seq(Entry)
    BY RunKnown
  <2>3. mode[run] = "calls" => results[run] # <<>>
    BY <2>1 DEF Complete
  <2>4. mode[run] = "calls" => Len(results[run]) > 0
    BY <2>2, <2>3, EmptySeq
  <2>5. mode[run] = "fallback" => Len(results[run]) = Len(FallbackPair)
    BY <2>1 DEF Complete
  <2>6. RunWhole(Script(run), at[run] + 1, "steps", outcomes[run] \o results[run], <<>>)
    <3>1. /\ OneDecide(Script(run)) /\ at[run] \in 1 .. Len(Script(run))
          /\ Script(run)[at[run]] = Decide
          /\ \A i \in 1 .. Len(outcomes[run]) : ~outcomes[run][i].llm_driven
          /\ mode[run] = "calls" =>
                \A i \in 1 .. Len(results[run]) : results[run][i].llm_driven
      BY <2>1, RunKnown
    <3>2. RunWhole(Script(run), at[run], mode[run], outcomes[run], results[run])
      BY <1>1
    <3> QED
      BY <2>1, <2>2, <2>4, <2>5, <3>1, <3>2, DecidedWhole
  <2>7. /\ at'[run] = at[run] + 1 /\ mode'[run] = "steps"
        /\ outcomes'[run] = outcomes[run] \o results[run] /\ results'[run] = <<>>
    BY <1>2, <2>1
  <2>8. Part(run)'
    BY <2>1, <2>6, <2>7, ScriptStays
  <2> QED
    BY <1>2, <2>1, <2>8, WholeAssembles
<1>10. ASSUME NEW run \in Run, Raise(run) PROVE WholeInv'
  <2>1. /\ UNCHANGED <<doctrine, profile, at, results, outcomes>>
        /\ mode' = [mode EXCEPT ![run] = "raised"]
    BY <1>10 DEF Raise
  <2>2. Part(run)'
    BY <1>1, <1>2, <2>1, WholeStands
  <2> QED
    BY <1>2, <2>1, <2>2, WholeAssembles
<1>11. ASSUME UNCHANGED <<doctrine, profile, crew>> PROVE WholeInv'
  BY <1>1, <1>11, WholeStands DEF WholeInv, crew
<1> QED
  BY <1>3, <1>4, <1>5, <1>6, <1>7, <1>8, <1>9, <1>10, <1>11
     DEF Next, Proceed, Answer, Fail, vars

\* A crew that gets through reports its whole script, with what the LLM decided
\* or else the fallback pair in S3's place, whatever failed in between.
THEOREM DecisionsAreWhole == Spec => []DecisionIsWhole
<1>1. ASSUME Init PROVE WholeInv
  <2> SUFFICES ASSUME NEW x \in Run
               PROVE  RunWhole(Script(x), at[x], mode[x], outcomes[x], results[x])
    BY DEF WholeInv
  <2> QED
    BY <1>1, StartWhole DEF Init
<1>2. ASSUME CrewInv, WholeInv PROVE DecisionIsWhole
  <2> SUFFICES ASSUME NEW run \in Run, Finished(run)
               PROVE  LET decided == Cardinality({i \in 1 .. Len(outcomes[run]) :
                                                     outcomes[run][i].llm_driven})
                          asks == \E i \in 1 .. Len(Script(run)) : Script(run)[i] = Decide
                          forS3 == IF decided > 0 THEN decided ELSE Len(FallbackPair)
                      IN  Len(outcomes[run]) =
                              Len(Script(run)) + (IF asks THEN forS3 - 1 ELSE 0)
    BY DEF DecisionIsWhole
  <2> DEFINE script == Script(run)
             n == Len(script)
             out == outcomes[run]
             decided == Cardinality(Driven(out))
             asks == \E i \in 1 .. n : script[i] = Decide
  <2>1. at[run] = n + 1
    BY DEF Finished
  <2>2. RunWhole(script, n + 1, mode[run], out, results[run])
    BY <1>2, <2>1 DEF WholeInv
  <2>3. n \in Nat /\ out \in Seq(Entry)
    BY <1>2, RunKnown DEF OneDecide
  <2>4. IsFiniteSet(Driven(out)) /\ decided \in Nat
    BY <2>3, DrivenFinite
  <2>5. decided > 0 <=> Driven(out) # {}
    BY <2>4, FS_EmptySet
  <2>6. asks <=> ~Unasked(script, n + 1)
    BY <2>3 DEF Unasked
  <2>7. ForDecide(out) = IF decided > 0 THEN decided ELSE Len(FallbackPair)
    BY <2>5 DEF ForDecide
  <2>8. Len(FallbackPair) = 2
    BY Longest2
  <2>9. Len(out) = n + (IF asks THEN ForDecide(out) - 1 ELSE 0)
    <3> HIDE DEF script, asks, decided
    <3>1. ForDecide(out) \in Nat
      BY <2>4, <2>7, <2>8
    <3> QED
      BY <2>2, <2>3, <2>6, <3>1 DEF RunWhole
  <2> QED
    BY <2>7, <2>9 DEF Driven
<1> QED
  BY <1>1, <1>2, CrewInvariant, WholeStep, PTL DEF Spec

-----------------------------------------------------------------------------
(* What the shipped scripts ask of the shipped profiles.                   *)

\* A call whose verb draws nothing only needs the verb.
LEMMA PlainPermits ==
    ASSUME NEW prof, NEW side, NEW step, ToolFamily(prof, step) = "none",
           step.verb \in RoleVerbs(side, step.role), step.verb \in prof.verbs
    PROVE  Permits(prof, side, step)
BY DEF Permits, Commits

\* The steps that draw nothing and that both scripts end with.
LEMMA CommonSteps ==
    ASSUME NEW prof \in ShippedProfile, NEW side \in Side,
           NEW step \in {Does("co_a", "assume_posture"), Does("co_a", "send"),
                         Does("co_b", "halt"), Does("co_c", "move_to"),
                         Does("s6", "send"), Does("s6", "report")}
    PROVE  Permits(prof, side, step)
<1>1. step.verb \in {"assume_posture", "send", "halt", "move_to", "report"}
  BY DEF Does, Draws
<1>2. ToolFamily(prof, step) = "none"
  BY <1>1 DEF ToolFamily, Fires
<1>3. step.verb \in RoleVerbs(side, step.role)
  BY DEF RoleVerbs, Does, Draws, Mover, Messages, Side
<1> QED
  BY <1>1, <1>2, <1>3, PlainPermits, VerbsOf

\* The shipped template of a fire mission.
LEMMA ArcTemplate ==
    TemplateRanges["indirect_fire_arc"] =
        [range_m |-> [min |-> 1000, max |-> 30000],
         dispersion_ellipse_a_m |-> [min |-> 5, max |-> 300],
         dispersion_ellipse_b_m |-> [min |-> 5, max |-> 300],
         time_of_flight_s |-> [min |-> 1, max |-> 90]]
BY DEF TemplateRanges, Between

\* Blue looks, classifies and fires within the ranges of its profile.
LEMMA BlueScriptRuns ==
    ASSUME TemplateRange = TemplateRanges,
           NEW i \in 1 .. Len(BlueScript), BlueScript[i] # Decide
    PROVE  Permits(UsBct, "blue", BlueScript[i])
<1> DEFINE look == Draws("s2", "detect", "RADAR", [range_m |-> 12000])
           name == Draws("s2", "classify", "-", [dwell_s |-> 15])
           fire == Draws("co_b", "suppress", "-",
                         [range_m |-> 8000, time_of_flight_s |-> 18])
<1>1. UsBct \in ShippedProfile /\ "blue" \in Side
  BY DEF ShippedProfile, Side
<1>2. Permits(UsBct, "blue", look)
  <2>1. ToolFamily(UsBct, look) = "radar_fan"
    BY DEF ToolFamily, DetectFamily, Draws, Fires, Masint
  <2>2. ToolParams(look) = [azimuth_deg |-> 0, sweep_arc_deg |-> 60, range_m |-> 12000]
    BY DEF ToolParams, Draws
  <2> DEFINE params == ToolParams(look)
  <2>3. ASSUME NEW param \in DOMAIN TemplateRanges["radar_fan"]
        PROVE  param \in DOMAIN params /\ InBounds(UsBct, "radar_fan", param, params[param])
    <3>1. param \in {"azimuth_deg", "sweep_arc_deg", "range_m"}
      BY DEF TemplateRanges
    <3>2. TemplateRange["radar_fan"] =
             [azimuth_deg |-> [min |-> 0, max |-> 359],
              sweep_arc_deg |-> [min |-> 5, max |-> 360],
              range_m |-> [min |-> 500, max |-> 80000]]
      BY DEF TemplateRanges, Between
    <3>3. InRange(TemplateRange, "radar_fan", param, params[param])
      BY <2>2, <3>1, <3>2 DEF InRange
    <3>4. param \in DOMAIN UsBct.ranges["radar_fan"] =>
             InRange(UsBct.ranges, "radar_fan", param, params[param])
      BY <2>2, <3>1 DEF UsBct, Radar, Between, InRange
    <3> QED
      BY <2>2, <3>1, <3>3, <3>4, Narrowed
  <2>4. "radar_fan" \in DOMAIN TemplateRanges \cap DOMAIN UsBct.ranges
    BY DEF TemplateRanges, UsBct
  <2>5. FAMILY_EMITTING_VERBS["radar_fan"] \cap UsBct.verbs # {}
    BY <1>1, VerbsOf DEF FAMILY_EMITTING_VERBS
  <2>6. Validate(UsBct, "radar_fan", params)
    BY <2>3, <2>4, <2>5, ValidWithin
  <2>7. look.verb \in UsBct.verbs /\ look.verb \in RoleVerbs("blue", look.role)
    BY <1>1, VerbsOf DEF Draws, RoleVerbs, Sensor
  <2> QED
    BY <2>1, <2>6, <2>7 DEF Permits, Commits
<1>3. Permits(UsBct, "blue", name)
  <2>1. ToolFamily(UsBct, name) = "keyhole_footprint"
    BY DEF ToolFamily, Draws, Fires
  <2>2. ToolParams(name) = [polygon_area_m2 |-> 1500]
    BY DEF ToolParams, Draws, FootprintArea, AtMost, AtLeast
  <2> DEFINE params == ToolParams(name)
  <2>3. ASSUME NEW param \in DOMAIN TemplateRanges["keyhole_footprint"]
        PROVE  /\ param \in DOMAIN params
               /\ InBounds(UsBct, "keyhole_footprint", param, params[param])
    <3>1. param = "polygon_area_m2"
      BY DEF TemplateRanges
    <3>2. TemplateRange["keyhole_footprint"] =
             [polygon_area_m2 |-> [min |-> 100, max |-> 200000]]
      BY DEF TemplateRanges, Between
    <3>3. InRange(TemplateRange, "keyhole_footprint", param, params[param])
      BY <2>2, <3>1, <3>2 DEF InRange
    <3>4. InRange(UsBct.ranges, "keyhole_footprint", param, params[param])
      BY <2>2, <3>1 DEF UsBct, Between, InRange
    <3> QED
      BY <2>2, <3>1, <3>3, <3>4, Narrowed
  <2>4. "keyhole_footprint" \in DOMAIN TemplateRanges \cap DOMAIN UsBct.ranges
    BY DEF TemplateRanges, UsBct
  <2>5. FAMILY_EMITTING_VERBS["keyhole_footprint"] \cap UsBct.verbs # {}
    BY <1>1, VerbsOf DEF FAMILY_EMITTING_VERBS
  <2>6. Validate(UsBct, "keyhole_footprint", params)
    BY <2>3, <2>4, <2>5, ValidWithin
  <2>7. name.verb \in UsBct.verbs /\ name.verb \in RoleVerbs("blue", name.role)
    BY <1>1, VerbsOf DEF Draws, RoleVerbs, Sensor
  <2> QED
    BY <2>1, <2>6, <2>7 DEF Permits, Commits
<1>4. Permits(UsBct, "blue", fire)
  <2>1. ToolFamily(UsBct, fire) = "indirect_fire_arc"
    BY DEF ToolFamily, Draws, Fires
  <2>2. ToolParams(fire) =
           [range_m |-> 8000, time_of_flight_s |-> 18,
            dispersion_ellipse_a_m |-> 80, dispersion_ellipse_b_m |-> 80]
    BY DEF ToolParams, Draws, Args, WithDefaults
  <2> DEFINE params == ToolParams(fire)
  <2>3. ASSUME NEW param \in ParamKeys("indirect_fire_arc")
        PROVE  /\ param \in DOMAIN params
               /\ InRange(TemplateRanges, "indirect_fire_arc", param, params[param])
               /\ InRange(UsBct.ranges, "indirect_fire_arc", param, params[param])
    <3>1. param \in {"range_m", "time_of_flight_s", "dispersion_ellipse_a_m",
                     "dispersion_ellipse_b_m"}
      BY DEF ParamKeys
    <3>2. InRange(TemplateRanges, "indirect_fire_arc", param, params[param])
      BY <2>2, <3>1, ArcTemplate DEF InRange
    <3>3. InRange(UsBct.ranges, "indirect_fire_arc", param, params[param])
      BY <2>2, <3>1 DEF UsBct, Fire, Between, InRange
    <3> QED
      BY <2>2, <3>1, <3>2, <3>3
  <2>4. "indirect_fire_arc" \in DOMAIN UsBct.ranges
    BY DEF UsBct
  <2>5. fire.verb \in UsBct.verbs /\ fire.verb \in Fires
        /\ fire.verb \in RoleVerbs("blue", fire.role)
    BY DEF Draws, RoleVerbs, UsBct, Verbs, Fires
  <2>6. Validate(UsBct, "indirect_fire_arc", params)
    BY <2>3, <2>4, <2>5, FireValid
  <2> QED
    BY <2>1, <2>5, <2>6 DEF Permits, Commits
<1>5. BlueScript[i] \in {look, name, fire,
                         Does("co_a", "assume_posture"), Does("co_a", "send"),
                         Does("co_b", "halt"), Does("co_c", "move_to"),
                         Does("s6", "send"), Does("s6", "report")}
  BY DEF BlueScript, BlueSensing
<1> HIDE DEF look, name, fire
<1> QED
  BY <1>1, <1>2, <1>3, <1>4, <1>5, CommonSteps

\* Blue's profile has the verbs of the pair that replaces a decision.
LEMMA BlueFallsBack ==
    ASSUME NEW step \in {Does("s3", "issue_order"), Does("s3", "request_support")}
    PROVE  Permits(UsBct, "blue", step)
<1>1. /\ step.verb \in {"issue_order", "request_support"}
      /\ step.verb \in RoleVerbs("blue", step.role)
  BY DEF Does, Draws, RoleVerbs, Commander
<1>2. ToolFamily(UsBct, step) = "none" /\ step.verb \in UsBct.verbs
  BY <1>1 DEF ToolFamily, Fires, UsBct, Verbs
<1> QED
  BY <1>1, <1>2, PlainPermits

\* Red's profiles of the doctrines with an S3 that decides have those verbs too.
LEMMA RedFallsBack ==
    ASSUME NEW step \in {Does("s3", "issue_order"), Does("s3", "request_support")},
           NEW prof \in {Peer, NearPeer}
    PROVE  Permits(prof, "red", step)
<1>1. /\ step.verb \in {"issue_order", "request_support"}
      /\ step.verb \in RoleVerbs("red", step.role)
  BY DEF Does, Draws, RoleVerbs, Commander
<1>2. ToolFamily(prof, step) = "none" /\ step.verb \in prof.verbs
  BY <1>1 DEF ToolFamily, Fires, Peer, NearPeer, Verbs
<1> QED
  BY <1>1, <1>2, PlainPermits

\* The arguments an engagement names are those the validator sees.
LEMMA EngageArguments ==
    ASSUME NEW step, step.verb = "engage"
    PROVE  \A param \in DOMAIN step.args :
              /\ param \in DOMAIN ToolParams(step)
              /\ ToolParams(step)[param] = step.args[param]
BY DEF ToolParams, Args, WithDefaults

\* Red's engagement is valid if its numbers are in the ranges of the profile.
LEMMA EngageRuns ==
    ASSUME TemplateRange = TemplateRanges, NEW prof,
           "engage" \in prof.verbs, "indirect_fire_arc" \in DOMAIN prof.ranges,
           NEW step, step.verb = "engage", step.role = "co_b",
           \A param \in ParamKeys("indirect_fire_arc") :
              /\ param \in DOMAIN step.args
              /\ InRange(TemplateRanges, "indirect_fire_arc", param, step.args[param])
              /\ InRange(prof.ranges, "indirect_fire_arc", param, step.args[param])
    PROVE  Permits(prof, "red", step)
<1>1. ToolFamily(prof, step) = "indirect_fire_arc"
  BY DEF ToolFamily, Fires
<1>2. \A param \in ParamKeys("indirect_fire_arc") :
          /\ param \in DOMAIN ToolParams(step)
          /\ InRange(TemplateRanges, "indirect_fire_arc", param, ToolParams(step)[param])
          /\ InRange(prof.ranges, "indirect_fire_arc", param, ToolParams(step)[param])
  BY EngageArguments
<1>3. Fires \cap prof.verbs # {}
  BY DEF Fires
<1>4. Validate(prof, "indirect_fire_arc", ToolParams(step))
  BY <1>2, <1>3, FireValid
<1>5. step.verb \in RoleVerbs("red", step.role)
  BY DEF RoleVerbs, Fires
<1> QED
  BY <1>1, <1>4, <1>5 DEF Permits, Commits

\* The range red fires at is its profile's largest, with every doctrine.
LEMMA EngageOf ==
    /\ Engage("peer", Peer) = Draws("co_b", "engage", "-",
          [range_m |-> 30000, time_of_flight_s |-> 35,
           dispersion_ellipse_a_m |-> 80, dispersion_ellipse_b_m |-> 80])
    /\ Engage("near-peer", NearPeer) = Draws("co_b", "engage", "-",
          [range_m |-> 22000, time_of_flight_s |-> 28,
           dispersion_ellipse_a_m |-> 80, dispersion_ellipse_b_m |-> 80])
    /\ Engage("hybrid", HybridIrregular) = Draws("co_b", "engage", "-",
          [range_m |-> 4000, time_of_flight_s |-> 18,
           dispersion_ellipse_a_m |-> 80, dispersion_ellipse_b_m |-> 80])
<1>1. /\ Peer.weapons[IndirectWeapon("peer")] = Weapon(30000, 35, 20)
      /\ Peer.ranges.indirect_fire_arc.range_m.max = 30000
  BY DEF Peer, IndirectWeapon, Fire, Between
<1>2. /\ NearPeer.weapons[IndirectWeapon("near-peer")] = Weapon(22000, 28, 30)
      /\ NearPeer.ranges.indirect_fire_arc.range_m.max = 22000
  BY DEF NearPeer, IndirectWeapon, Fire, Between
<1>3. /\ HybridIrregular.weapons[IndirectWeapon("hybrid")] = Weapon(4000, 18, 50)
      /\ HybridIrregular.ranges.indirect_fire_arc.range_m.max = 4000
  BY DEF HybridIrregular, IndirectWeapon, Fire, Between
<1>4. ASSUME NEW range \in Nat, NEW tof, NEW percent \in Nat
      PROVE  UpperWithBand(Weapon(range, tof, percent)) = (range * (100 + percent)) \div 100
             /\ Weapon(range, tof, percent).time_of_flight_s = tof
  BY DEF UpperWithBand, Weapon
<1>5. ChosenRange(Peer, Weapon(30000, 35, 20)) = 30000
  BY <1>1, <1>4 DEF ChosenRange, AtMost
<1>6. ChosenRange(NearPeer, Weapon(22000, 28, 30)) = 22000
  BY <1>2, <1>4 DEF ChosenRange, AtMost
<1>7. ChosenRange(HybridIrregular, Weapon(4000, 18, 50)) = 4000
  BY <1>3, <1>4 DEF ChosenRange, AtMost
<1> QED
  BY <1>1, <1>2, <1>3, <1>4, <1>5, <1>6, <1>7 DEF Engage, WeaponOf

\* So it is valid.
LEMMA EngagementsRun ==
    ASSUME TemplateRange = TemplateRanges, NEW d \in Doctrine
    PROVE  Permits(DoctrineProfile(d), "red", Engage(d, DoctrineProfile(d)))
<1> DEFINE arc == "indirect_fire_arc"
<1>1. CASE d = "peer"
  <2>1. "engage" \in Peer.verbs /\ arc \in DOMAIN Peer.ranges
    BY DEF Peer, Verbs
  <2> DEFINE step == Engage("peer", Peer)
  <2>2. /\ step.verb = "engage" /\ step.role = "co_b"
        /\ step.args = [range_m |-> 30000, time_of_flight_s |-> 35,
                        dispersion_ellipse_a_m |-> 80, dispersion_ellipse_b_m |-> 80]
    BY EngageOf DEF Draws
  <2>3. ASSUME NEW param \in ParamKeys(arc)
        PROVE  /\ param \in DOMAIN step.args
               /\ InRange(TemplateRanges, arc, param, step.args[param])
               /\ InRange(Peer.ranges, arc, param, step.args[param])
    <3>1. param \in {"range_m", "time_of_flight_s", "dispersion_ellipse_a_m",
                     "dispersion_ellipse_b_m"}
      BY DEF ParamKeys
    <3>2. InRange(TemplateRanges, arc, param, step.args[param])
      BY <2>2, <3>1, ArcTemplate DEF InRange
    <3>3. InRange(Peer.ranges, arc, param, step.args[param])
      BY <2>2, <3>1 DEF Peer, Fire, Between, InRange
    <3> QED
      BY <2>2, <3>1, <3>2, <3>3
  <2> HIDE DEF step, arc
  <2>4. Permits(Peer, "red", step)
    BY <2>1, <2>2, <2>3, EngageRuns DEF arc
  <2> QED
    BY <1>1, <2>4 DEF DoctrineProfile, step
<1>2. CASE d = "near-peer"
  <2>1. "engage" \in NearPeer.verbs /\ arc \in DOMAIN NearPeer.ranges
    BY DEF NearPeer, Verbs
  <2> DEFINE step == Engage("near-peer", NearPeer)
  <2>2. /\ step.verb = "engage" /\ step.role = "co_b"
        /\ step.args = [range_m |-> 22000, time_of_flight_s |-> 28,
                        dispersion_ellipse_a_m |-> 80, dispersion_ellipse_b_m |-> 80]
    BY EngageOf DEF Draws
  <2>3. ASSUME NEW param \in ParamKeys(arc)
        PROVE  /\ param \in DOMAIN step.args
               /\ InRange(TemplateRanges, arc, param, step.args[param])
               /\ InRange(NearPeer.ranges, arc, param, step.args[param])
    <3>1. param \in {"range_m", "time_of_flight_s", "dispersion_ellipse_a_m",
                     "dispersion_ellipse_b_m"}
      BY DEF ParamKeys
    <3>2. InRange(TemplateRanges, arc, param, step.args[param])
      BY <2>2, <3>1, ArcTemplate DEF InRange
    <3>3. InRange(NearPeer.ranges, arc, param, step.args[param])
      BY <2>2, <3>1 DEF NearPeer, Fire, Between, InRange
    <3> QED
      BY <2>2, <3>1, <3>2, <3>3
  <2> HIDE DEF step, arc
  <2>4. Permits(NearPeer, "red", step)
    BY <2>1, <2>2, <2>3, EngageRuns DEF arc
  <2> QED
    BY <1>2, <2>4 DEF DoctrineProfile, step
<1>3. CASE d = "hybrid"
  <2>1. "engage" \in HybridIrregular.verbs /\ arc \in DOMAIN HybridIrregular.ranges
    BY DEF HybridIrregular
  <2> DEFINE step == Engage("hybrid", HybridIrregular)
  <2>2. /\ step.verb = "engage" /\ step.role = "co_b"
        /\ step.args = [range_m |-> 4000, time_of_flight_s |-> 18,
                        dispersion_ellipse_a_m |-> 80, dispersion_ellipse_b_m |-> 80]
    BY EngageOf DEF Draws
  <2>3. ASSUME NEW param \in ParamKeys(arc)
        PROVE  /\ param \in DOMAIN step.args
               /\ InRange(TemplateRanges, arc, param, step.args[param])
               /\ InRange(HybridIrregular.ranges, arc, param, step.args[param])
    <3>1. param \in {"range_m", "time_of_flight_s", "dispersion_ellipse_a_m",
                     "dispersion_ellipse_b_m"}
      BY DEF ParamKeys
    <3>2. InRange(TemplateRanges, arc, param, step.args[param])
      BY <2>2, <3>1, ArcTemplate DEF InRange
    <3>3. InRange(HybridIrregular.ranges, arc, param, step.args[param])
      BY <2>2, <3>1 DEF HybridIrregular, Fire, Between, InRange
    <3> QED
      BY <2>2, <3>1, <3>2, <3>3
  <2> HIDE DEF step, arc
  <2>4. Permits(HybridIrregular, "red", step)
    BY <2>1, <2>2, <2>3, EngageRuns DEF arc
  <2> QED
    BY <1>3, <2>4 DEF DoctrineProfile, step
<1> QED
  BY <1>1, <1>2, <1>3 DEF Doctrine

\* All that red does with the profile of its doctrine passes.
LEMMA RedScriptRuns ==
    ASSUME TemplateRange = TemplateRanges, NEW d \in Doctrine,
           NEW i \in 1 .. Len(RedScript(d, DoctrineProfile(d))),
           RedScript(d, DoctrineProfile(d))[i] # Decide
    PROVE  Permits(DoctrineProfile(d), "red", RedScript(d, DoctrineProfile(d))[i])
<1> DEFINE prof == DoctrineProfile(d)
<1>1. prof \in ShippedProfile /\ "red" \in Side
  BY DEF DoctrineProfile, Doctrine, ShippedProfile, Side
<1>2. Permits(prof, "red", RedSensing)
  <2>1. RedSensing.verb = "detect" /\ ToolFamily(prof, RedSensing) = "none"
    BY DEF RedSensing, Draws, ToolFamily, DetectFamily, Fires, Masint
  <2>2. RedSensing.verb \in RoleVerbs("red", RedSensing.role)
    BY DEF RedSensing, Draws, RoleVerbs, Sensor
  <2> QED
    BY <1>1, <2>1, <2>2, VerbsOf, PlainPermits
<1>3. Permits(prof, "red", SendShadow)
  <2>1. SendShadow.verb = "send" /\ ToolFamily(prof, SendShadow) = "none"
    BY DEF SendShadow, Does, Draws, ToolFamily, Fires
  <2>2. SendShadow.verb \in RoleVerbs("red", SendShadow.role)
    BY DEF SendShadow, Does, Draws, RoleVerbs, AllTools, Messages
  <2> QED
    BY <1>1, <2>1, <2>2, VerbsOf, PlainPermits
<1>4. Permits(prof, "red", Engage(d, prof))
  BY EngagementsRun
<1>5. RedScript(d, prof)[i] \in {RedSensing, SendShadow, Engage(d, prof),
                         Does("co_a", "assume_posture"), Does("co_a", "send"),
                         Does("co_b", "halt"), Does("co_c", "move_to"),
                         Does("s6", "send"), Does("s6", "report")}
  BY DEF RedScript
<1> HIDE DEF prof
<1> QED
  BY <1>1, <1>2, <1>3, <1>4, <1>5, CommonSteps DEF prof

\* The profiles do not change, red's is that of its doctrine, and the only crew
\* that has raised at a step of its script is a blue one with another profile.
ScriptsInv ==
    /\ doctrine \in Doctrine => profile["red"] = DoctrineProfile(doctrine)
    /\ profile["blue"] \in BlueProfile
    /\ \A run \in Run :
          mode[run] = "raised" /\ Script(run) # <<>> =>
              run[2] = "blue" /\ profile["blue"] # UsBct

\* The steps of the fallback.
LEMMA StepsOfPair ==
    ASSUME CrewInv, NEW run \in Run, Len(results[run]) < Len(FallbackPair)
    PROVE  FallBackStep(run) \in {Does("s3", "issue_order"), Does("s3", "request_support")}
<1>1. Len(FallbackPair) = 2
  BY DEF FallbackPair
<1>2. results[run] \in Seq(Entry)
  BY RunKnown
<1>3. PICK n \in Nat : n = Len(results[run])
  BY <1>2, LenProperties
<1>4. n < 2
  BY <1>1, <1>3
<1>5. n \in {0, 1}
  BY <1>4
<1> QED
  BY <1>3, <1>5 DEF FallBackStep, FallbackPair

\* Hybrid's script never asks the LLM.
LEMMA HybridNeverAsks ==
    ASSUME NEW prof, NEW i \in 1 .. Len(RedScript("hybrid", prof))
    PROVE  RedScript("hybrid", prof)[i] # Decide
<1>1. Engage("hybrid", prof).verb = "engage"
  BY DEF Engage, Draws
<1>2. RedScript("hybrid", prof)[i].verb # "llm_decide"
  BY <1>1 DEF RedScript, RedSensing, SendShadow, Does, Draws
<1> QED
  BY <1>2, VerbOfDecide

\* A refused step is blue's, with a profile other than the shipped one.
LEMMA RefusedIsBlue ==
    ASSUME TemplateRange = TemplateRanges, CrewInv, ScriptsInv,
           NEW run \in Run, Refused(run), Script(run) # <<>>
    PROVE  run[2] = "blue" /\ profile["blue"] # UsBct
<1>1. run[2] \in Side
  BY DEF Run
<1>2. OneDecide(Script(run)) /\ at[run] \in 1 .. Len(Script(run)) + 1
  BY RunKnown
<1>3. mode[run] = "fallback" => Here(run) = Decide /\ at[run] \in 1 .. Len(Script(run))
  BY RunKnown DEF Here
<1>4. CASE run[2] = "blue"
  <2> SUFFICES ASSUME profile["blue"] = UsBct PROVE FALSE
    BY <1>4
  <2>1. Script(run) = BlueScript
    BY <1>4 DEF Script
  <2>2. CASE /\ mode[run] = "steps" /\ at[run] <= Len(Script(run))
             /\ Here(run) # Decide
             /\ ~Permits(profile[run[2]], run[2], Here(run))
    <3>1. at[run] \in 1 .. Len(BlueScript)
      BY <1>2, <2>1, <2>2 DEF OneDecide
    <3> QED
      BY <1>4, <2>1, <2>2, <3>1, BlueScriptRuns DEF Here
  <2>3. CASE /\ mode[run] = "fallback" /\ Len(results[run]) < Len(FallbackPair)
             /\ ~Permits(profile[run[2]], run[2], FallBackStep(run))
    <3>1. FallBackStep(run) \in {Does("s3", "issue_order"), Does("s3", "request_support")}
      BY <2>3, StepsOfPair
    <3> QED
      BY <1>4, <2>3, <3>1, BlueFallsBack
  <2> QED
    BY <2>2, <2>3 DEF Refused
<1>5. CASE run[2] = "red"
  <2>1. /\ doctrine \in Doctrine /\ profile["red"] = DoctrineProfile(doctrine)
        /\ Script(run) = RedScript(doctrine, DoctrineProfile(doctrine))
    BY <1>5 DEF Script, ScriptsInv
  <2>2. CASE /\ mode[run] = "steps" /\ at[run] <= Len(Script(run))
             /\ Here(run) # Decide
             /\ ~Permits(profile[run[2]], run[2], Here(run))
    <3>1. at[run] \in 1 .. Len(Script(run))
      BY <1>2, <2>2 DEF OneDecide
    <3> QED
      BY <1>5, <2>1, <2>2, <3>1, RedScriptRuns DEF Here
  <2>3. CASE /\ mode[run] = "fallback" /\ Len(results[run]) < Len(FallbackPair)
             /\ ~Permits(profile[run[2]], run[2], FallBackStep(run))
    <3>1. FallBackStep(run) \in {Does("s3", "issue_order"), Does("s3", "request_support")}
      BY <2>3, StepsOfPair
    <3>2. doctrine # "hybrid"
      BY <1>3, <2>1, <2>3, HybridNeverAsks DEF Here
    <3>3. DoctrineProfile(doctrine) \in {Peer, NearPeer}
      BY <2>1, <3>2 DEF DoctrineProfile, Doctrine
    <3> QED
      BY <1>5, <2>1, <2>3, <3>1, <3>3, RedFallsBack
  <2> QED
    BY <2>2, <2>3 DEF Refused
<1> QED
  BY <1>1, <1>4, <1>5 DEF Side

\* A step after which no other run has raised keeps the invariant.
LEMMA ScriptsStand ==
    ASSUME ScriptsInv, UNCHANGED <<doctrine, profile>>,
           \A run \in Run : mode'[run] = "raised" /\ Script(run) # <<>> =>
              mode[run] = "raised" \/ (run[2] = "blue" /\ profile["blue"] # UsBct)
    PROVE  ScriptsInv'
BY ScriptStays DEF ScriptsInv

\* So it is kept.
LEMMA ScriptsStep ==
    ASSUME TemplateRange = TemplateRanges, CrewInv, ScriptsInv, [Next]_vars
    PROVE  ScriptsInv'
<1>1. DOMAIN mode = Run
  BY DEF CrewInv, Shapes
<1>2. ASSUME NEW r \in Slot, RunTurn(r) PROVE ScriptsInv'
  <2>1. /\ UNCHANGED <<doctrine, profile>>
        /\ mode' = [x \in Run |-> IF x \in Runs(r) THEN Begin(x) ELSE mode[x]]
    BY <1>2 DEF RunTurn
  <2>2. ASSUME NEW x \in Run, Begin(x) = "raised" PROVE Script(x) = <<>>
    BY <2>2 DEF Begin, Script
  <2> QED
    BY <2>1, <2>2, ScriptsStand
<1>3. ASSUME NEW run \in Run, NEW new, new # "raised",
             UNCHANGED <<doctrine, profile>>, mode' = [mode EXCEPT ![run] = new]
      PROVE  ScriptsInv'
  BY <1>1, <1>3, ScriptsStand
<1>4. ASSUME UNCHANGED <<doctrine, profile, mode>> PROVE ScriptsInv'
  BY <1>4, ScriptsStand
<1>5. ASSUME NEW run \in Run, Raise(run) PROVE ScriptsInv'
  <2>1. /\ Refused(run) /\ UNCHANGED <<doctrine, profile>>
        /\ mode' = [mode EXCEPT ![run] = "raised"]
    BY <1>5 DEF Raise
  <2>2. \A x \in Run : x # run => mode'[x] = mode[x]
    BY <1>1, <2>1
  <2> QED
    BY <2>1, <2>2, RefusedIsBlue, ScriptsStand
<1>6. ASSUME NEW run \in Run, Act(run) PROVE ScriptsInv'
  BY <1>4, <1>6 DEF Act
<1>7. ASSUME NEW run \in Run, Ask(run) PROVE ScriptsInv'
  BY <1>3, <1>7 DEF Ask
<1>8. ASSUME NEW run \in Run, FailCall(run) PROVE ScriptsInv'
  BY <1>3, <1>8 DEF FailCall
<1>9. ASSUME NEW run \in Run, FallBack(run) \/ Call(run) PROVE ScriptsInv'
  BY <1>4, <1>9 DEF FallBack, Call
<1>10. ASSUME NEW run \in Run, Decided(run) PROVE ScriptsInv'
  BY <1>3, <1>10 DEF Decided
<1>11. ASSUME NEW r \in Slot, Answer(r) \/ Fail(r) PROVE ScriptsInv'
  BY <1>4, <1>11 DEF Answer, Fail, crew
<1>12. ASSUME UNCHANGED vars PROVE ScriptsInv'
  BY <1>4, <1>12 DEF vars, crew
<1> QED
  BY <1>2, <1>5, <1>6, <1>7, <1>8, <1>9, <1>10, <1>11, <1>12 DEF Next, Proceed

\* With the shipped templates and the profile shipped for a side and doctrine, no
\* step of a crew is ever refused, and none of the fallback's, whatever the LLM
\* does.  Profiles of red's doctrines are not given to blue.
THEOREM ShippedScriptsAreRun ==
    ASSUME TemplateRange = TemplateRanges,
           \A d \in Doctrine : RedProfile(d) = DoctrineProfile(d),
           BlueProfile \cap {Peer, NearPeer, HybridIrregular} = {}
    PROVE  Spec => []ShippedScriptsRun
<1>1. Init => ScriptsInv
  <2> SUFFICES ASSUME Init PROVE ScriptsInv
    OBVIOUS
  <2>1. PICK p \in BlueProfile : profile = [blue |-> p, red |-> LoadedProfile]
    BY DEF Init
  <2>2. profile["blue"] \in BlueProfile /\ profile["red"] = LoadedProfile
    BY <2>1
  <2>3. \A run \in Run : mode[run] = "idle"
    BY DEF Init
  <2> QED
    BY <2>2, <2>3 DEF ScriptsInv, LoadedProfile
<1>2. ScriptsInv => ShippedScriptsRun
  <2> SUFFICES ASSUME ScriptsInv, NEW run \in Run, mode[run] = "raised", Script(run) # <<>>
               PROVE  profile[run[2]] \notin {UsBct, Peer, NearPeer, HybridIrregular}
    BY DEF ShippedScriptsRun
  <2>1. run[2] = "blue" /\ profile["blue"] # UsBct /\ profile["blue"] \in BlueProfile
    BY DEF ScriptsInv
  <2> QED
    BY <2>1
<1>3. CrewInv /\ ScriptsInv /\ [Next]_vars => ScriptsInv'
  BY ScriptsStep
<1> QED
  BY <1>1, <1>2, <1>3, CrewInvariant, PTL DEF Spec

\* The steps of the scripts name what the adapter indexes, and none disables.
LEMMA ScriptsName ==
    ASSUME NEW step, NEW d, NEW prof,
           \/ \E i \in 1 .. Len(BlueScript) : step = BlueScript[i]
           \/ \E i \in 1 .. Len(RedScript(d, prof)) : step = RedScript(d, prof)[i]
    PROVE  NamesArguments(step) /\ step.verb \notin {"disable", "relay"}
<1>1. /\ Engage(d, prof).verb = "engage"
      /\ "range_m" \in DOMAIN Engage(d, prof).args
  BY DEF Engage, Draws
<1>2. CASE \E i \in 1 .. Len(BlueScript) : step = BlueScript[i]
  <2> DEFINE look == Draws("s2", "detect", "RADAR", [range_m |-> 12000])
             name == Draws("s2", "classify", "-", [dwell_s |-> 15])
             fire == Draws("co_b", "suppress", "-",
                           [range_m |-> 8000, time_of_flight_s |-> 18])
  <2>1. step \in {look, name, fire, Decide,
                  Does("co_a", "assume_posture"), Does("co_a", "send"),
                  Does("co_b", "halt"), Does("co_c", "move_to"),
                  Does("s6", "send"), Does("s6", "report")}
    BY <1>2 DEF BlueScript, BlueSensing
  <2>2. CASE step = look
    BY <2>2 DEF Draws, NamesArguments, Fires
  <2>3. CASE step = name
    BY <2>3 DEF Draws, NamesArguments, Fires
  <2>4. CASE step = fire
    BY <2>4 DEF Draws, NamesArguments, Fires
  <2>5. CASE step \notin {look, name, fire}
    <3>1. step.verb \in {"llm_decide", "assume_posture", "send", "halt", "move_to",
                         "report"}
      BY <2>1, <2>5 DEF Decide, Does, Draws
    <3> QED
      BY <3>1 DEF NamesArguments, Fires
  <2> QED
    BY <2>2, <2>3, <2>4, <2>5
<1>3. CASE \E i \in 1 .. Len(RedScript(d, prof)) : step = RedScript(d, prof)[i]
  BY <1>1, <1>3 DEF RedScript, RedSensing, SendShadow, Decide, Does, Draws,
                    NamesArguments, Fires
<1> QED
  BY <1>2, <1>3

\* From the script to the map: with the shipped templates and the profile shipped
\* for the side and doctrine, an adapter of that profile draws exactly those
\* steps that the tools take for drawing, and none of them ends it.
THEOREM ShippedScriptsAreDrawn ==
    ASSUME TemplateRange = TemplateRanges, NEW d \in Doctrine, NEW side \in Side,
           NEW prof, prof = IF side = "blue" THEN UsBct ELSE DoctrineProfile(d),
           NEW script, script = IF side = "blue" THEN BlueScript ELSE RedScript(d, prof),
           NEW i \in 1 .. Len(script), script[i] # Decide
    PROVE  Translate(prof, script[i]) =
              IF ToolFamily(prof, script[i]) = "none" THEN "skipped" ELSE "accepted"
<1> DEFINE step == script[i]
<1>1. Commits(prof, step)
  <2>1. CASE side = "blue"
    BY <2>1, BlueScriptRuns DEF Permits
  <2>2. CASE side # "blue"
    BY <2>2, RedScriptRuns DEF Permits
  <2> QED
    BY <2>1, <2>2
<1>2. NamesArguments(step) /\ step.verb \notin {"disable", "relay"}
  <2>1. CASE side = "blue"
    BY <2>1, ScriptsName
  <2>2. CASE side # "blue"
    BY <2>2, ScriptsName
  <2> QED
    BY <2>1, <2>2
<1>3. prof \in ShippedProfile
  BY DEF DoctrineProfile, Doctrine, ShippedProfile
<1>4. TemplatesAskFor /\ AllowsOwnNumbers(prof)
  BY <1>3, ShippedTemplatesAsk, ShippedOwnNumbers
<1> HIDE DEF step
<1>5. CASE ToolFamily(prof, step) # "none"
  BY <1>1, <1>2, <1>4, <1>5, GatedIsDrawn DEF step
<1>6. CASE ToolFamily(prof, step) = "none"
  <2>1. Handler(step) # "uas_corridor"
    BY <1>2 DEF Handler, DisableFamily, DetectFamily
  <2>2. Handler(step) = "none"
    BY <1>6, <2>1, HandlersDiffer
  <2> QED
    BY <1>6, <2>2 DEF Translate, step
<1> QED
  BY <1>5, <1>6 DEF step

=============================================================================
