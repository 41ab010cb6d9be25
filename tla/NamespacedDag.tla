---------------------------- MODULE NamespacedDag ---------------------------
(***************************************************************************)
(* The kernel's causal DAG (kernel/almighty_kernel/dag.py) as a value: a   *)
(* poset of events for each (tenant_id, scenario_id) pair, in commit order,*)
(* and an index from event ids to the places of their events.  Whoever     *)
(* owns a DAG keeps it in a variable and commits with Committed.           *)
(*                                                                         *)
(* A node's causes are places, not ids: PyRapide's Poset links the event   *)
(* objects the index held when the node was committed.                     *)
(***************************************************************************)
EXTENDS Integers, Sequences

CONSTANT Namespace   \* (tenant_id, scenario_id) pairs

ASSUME NamespacesExist == Namespace # {}

Place(ns, position) == [ns |-> ns, position |-> position]

NewDag == [posets |-> [ns \in Namespace |-> <<>>], index |-> <<>>]

\* The predecessors of a commit: an unknown one is a KeyError, one of another
\* namespace a NamespaceMismatchError.
Resolves(dag, ns, predecessors) ==
    /\ predecessors \subseteq DOMAIN dag.index
    /\ \A p \in predecessors : dag.index[p].ns = ns

\* Mutant of NextPlace: positions are counted from 0.
NextPlaceFromZero(dag, ns) == Place(ns, Len(dag.posets[ns]))
NextPlace(dag, ns) == Place(ns, Len(dag.posets[ns]) + 1)

\* commit of an event whose predecessors resolve.  An id that is committed
\* again gets a second event, and the index the newer one.
Committed(dag, ns, id, predecessors) ==
    LET node == [id |-> id, causes |-> {dag.index[p] : p \in predecessors}]
    IN  [posets |-> [dag.posets EXCEPT ![ns] = Append(@, node)],
         index |-> [e \in DOMAIN dag.index \cup {id} |->
                       IF e = id THEN NextPlace(dag, ns) ELSE dag.index[e]]]

\* The ids read returns, whatever the order.
Read(dag, ns) == {dag.posets[ns][i].id : i \in 1 .. Len(dag.posets[ns])}

-----------------------------------------------------------------------------
\* The index points into the posets.
Indexed(dag) ==
    \A e \in DOMAIN dag.index :
        /\ dag.index[e].ns \in Namespace
        /\ dag.index[e].position \in 1 .. Len(dag.posets[dag.index[e].ns])

\* Every cause is an earlier event of the same namespace, so that commit order
\* is a causal order and no edge leaves a namespace.
CausesEarlier(dag) ==
    \A ns \in Namespace :
        \A i \in 1 .. Len(dag.posets[ns]) :
            \A cause \in dag.posets[ns][i].causes :
                /\ cause.ns = ns
                /\ cause.position \in 1 .. i - 1

=============================================================================
