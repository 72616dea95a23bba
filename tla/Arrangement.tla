------------------------------ MODULE Arrangement ------------------------------
(***************************************************************************)
(* The data model of the connection fabric: an arrangement (nodes, wires,  *)
(* active tip), the three typed actions that edit it, the structural gate  *)
(* every transport passes them through, and their append-only application. *)
(* Pure functions of bridge/convo_protocol.py, whose GDScript port is      *)
(* runtime/convo_protocol.gd.                                              *)
(*                                                                         *)
(* An id is the sequence of its parts: <<"a">> is the id "a", <<"a", 1>>   *)
(* the renamed "a_1", and <<>> the empty string; a port is a sequence too. *)
(* The type and the params of a node are one opaque value, its kind.       *)
(* Nodes and wires are sets: nothing here depends on their order in the    *)
(* JSON lists.                                                             *)
(***************************************************************************)
EXTENDS Naturals, Sequences, FiniteSets

NoId == << >>       \* "" or an absent field

ParentPort == <<"parent">>
ReplyPort  == <<"reply">>

NodeIds(arr) == {n.id : n \in arr.nodes}

EmptyArr == [nodes |-> {}, wires |-> {}, tip |-> NoId]

ParentWire(p, c) == [from |-> p, out |-> ReplyPort, to |-> c, in |-> ParentPort]

\* Nothing of the old graph is missing from the new one.
Extends(new, old) ==
    /\ old.nodes \subseteq new.nodes
    /\ old.wires \subseteq new.wires

(***************************************************************************)
(* Forward: what a selection of nodes pulls into a model's context.        *)
(***************************************************************************)
ParentsOf(arr, id) ==
    {w.from : w \in {x \in arr.wires : x.to = id /\ x.in = ParentPort}}

\* Mutant: the walk stops at the grandparents.
AncestorsShort(arr, id) ==
    ParentsOf(arr, id) \cup UNION {ParentsOf(arr, p) : p \in ParentsOf(arr, id)}

\* The visited-set walk up the parent wires: what it has seen after so many levels.
Climbed(arr, id) ==
    LET grow[k \in 0 .. Cardinality(arr.wires)] ==
            IF k = 0 THEN ParentsOf(arr, id)
            ELSE grow[k-1] \cup UNION {ParentsOf(arr, p) : p \in grow[k-1]}
    IN  grow

\* All it sees.  The node itself is in it when it lies on a cycle.
Ancestors(arr, id) == Climbed(arr, id)[Cardinality(arr.wires)]

ContextNodes(arr, selected) ==
    LET want == selected \cup UNION {Ancestors(arr, id) : id \in selected}
    IN  {n \in arr.nodes : n.id \in want}

\* Mutant: only a node that is its own grandparent counts.
HasCycleShort(arr) == \E n \in arr.nodes : n.id \in AncestorsShort(arr, n.id)

(***************************************************************************)
(* A cycle in the parent graph is a set of nodes each of which has a       *)
(* parent in the set.                                                      *)
(***************************************************************************)
HasCycle(arr) ==
    \E S \in (SUBSET {w.to : w \in arr.wires}) \ {{}} :
        \A c \in S : \E w \in arr.wires :
            w.to = c /\ w.in = ParentPort /\ w.from \in S

Dangling(arr) ==
    {w \in arr.wires : w.from \notin NodeIds(arr) \/ w.to \notin NodeIds(arr)}

ValidateArrangement(arr) ==
    /\ Dangling(arr) = {}
    /\ arr.tip \in NodeIds(arr) \cup {NoId}
    /\ ~HasCycle(arr)

(***************************************************************************)
(* Backward: actions.  `proper' stands for the checks of an added node's   *)
(* own fields (a kind, an object for params, a role for a Message); `id'   *)
(* is the id the action names or the hash of its content, which is the     *)
(* same each time the same content is added.                               *)
(***************************************************************************)
AddNode(id, kind, parent) ==
    [op |-> "add_node", id |-> id, kind |-> kind, parent |-> parent, proper |-> TRUE]
AddWire(from, to, in) ==
    [op |-> "wire", wire |-> [from |-> from, out |-> ReplyPort, to |-> to, in |-> in]]
SetTip(node) == [op |-> "set_active_tip", node |-> node]

\* Mutant: the tip may be set to any id.
AdmissibleAnyTip(known, a) ==
    \/ /\ a.op = "add_node"
       /\ a.proper
       /\ a.parent \in known \cup {NoId}
    \/ /\ a.op = "wire"
       /\ NoId \notin {a.wire.from, a.wire.to}
       /\ a.wire.from # a.wire.to
       /\ {a.wire.from, a.wire.to} \subseteq known
    \/ a.op = "set_active_tip" /\ a.node # NoId

Admissible(known, a) ==
    \/ /\ a.op = "add_node"
       /\ a.proper
       /\ a.parent \in known \cup {NoId}
    \/ /\ a.op = "wire"
       /\ NoId \notin {a.wire.from, a.wire.to}
       /\ a.wire.from # a.wire.to
       /\ {a.wire.from, a.wire.to} \subseteq known
    \/ /\ a.op = "set_active_tip"
       /\ a.node # NoId
       /\ a.node \in known

\* "a" if free, else the first free of "a_1", "a_2", ...; an empty base is "msg".
UniqueId(arr, base) ==
    LET existing == NodeIds(arr)
        stem     == IF base = NoId THEN <<"msg">> ELSE base
        free(i)  == Append(stem, i) \notin existing
    IN  IF base # NoId /\ base \notin existing THEN base
        ELSE Append(stem, CHOOSE i \in 1 .. Cardinality(existing) + 1 :
                              free(i) /\ \A j \in 1 .. i-1 : ~free(j))

Added(arr, a, nid) ==
    [nodes |-> arr.nodes \cup {[id |-> nid, kind |-> a.kind]},
     wires |-> arr.wires \cup (IF a.parent = NoId THEN {} ELSE {ParentWire(a.parent, nid)}),
     tip   |-> arr.tip]

\* Mutant: a node of the same id is replaced.
ApplyReplacing(arr, a) ==
    IF a.op = "add_node" THEN Added([arr EXCEPT !.nodes = {n \in @ : n.id # a.id}], a, a.id)
    ELSE IF a.op = "wire" THEN [arr EXCEPT !.wires = @ \cup {a.wire}]
    ELSE [arr EXCEPT !.tip = a.node]

ApplyOne(arr, a) ==
    IF a.op = "add_node" THEN Added(arr, a, UniqueId(arr, a.id))
    ELSE IF a.op = "wire"
         THEN [nodes |-> arr.nodes, wires |-> arr.wires \cup {a.wire}, tip |-> arr.tip]
         ELSE [nodes |-> arr.nodes, wires |-> arr.wires, tip |-> a.node]

\* A batch is a list: of finitely many actions, in order.
IsBatch(b) == b \in Seq({b[k] : k \in DOMAIN b})

\* The batch applied action by action, nothing removed or replaced: the graph
\* after each number of actions.
Applied(arr, actions) ==
    LET after[k \in 0 .. Len(actions)] ==
            IF k = 0 THEN arr ELSE ApplyOne(after[k-1], actions[k])
    IN  after

Apply(arr, actions) == Applied(arr, actions)[Len(actions)]

\* The ids the k-th action of a batch may refer to: those of the graph and those
\* the add_node actions before it named.
Known(arr, actions, k) ==
    NodeIds(arr) \cup {actions[j].id : j \in {i \in 1 .. k-1 : actions[i].op = "add_node"}}

\* The verdict on a whole batch: one refused action refuses all of it.
ValidateActions(arr, actions) ==
    /\ \A k \in 1 .. Len(actions) : Admissible(Known(arr, actions, k), actions[k])
    /\ actions # << >> => ~HasCycle(Apply(arr, actions))
=============================================================================
