------------------------------- MODULE ChipGraph -------------------------------
(***************************************************************************)
(* One arrangement edited through the store one commit after another:      *)
(* action batches (commit_actions), and the two structural edits,          *)
(* abstract and decompose (graph_commit), each refused if its result is    *)
(* not sound.                                                              *)
(***************************************************************************)
EXTENDS ChipOps

CONSTANTS
    EditBatches, \* the action batches proposed
    FirstGraph,  \* the arrangement at the start
    KnownKinds,  \* the kinds of its nodes, of nodes that are added, and in such chips
    MaxEdits     \* bound: commits in a behaviour

VARIABLES graph, edits

IsWire(w) == w = [from |-> w.from, out |-> w.out, to |-> w.to, in |-> w.in]

\* An arrangement has finitely many nodes, of these kinds, and its wires have two ends.
Shaped(arr, kinds) ==
    /\ arr = [nodes |-> arr.nodes, wires |-> arr.wires, tip |-> arr.tip]
    /\ IsFiniteSet(arr.nodes)
    /\ \A n \in arr.nodes : n.kind \in kinds
    /\ \A w \in arr.wires : IsWire(w)

\* A chip holds the nodes and wires of an arrangement.
Whole(chip, kinds) ==
    /\ IsFiniteSet(chip.nodes)
    /\ \A n \in chip.nodes : n.kind \in kinds
    /\ \A w \in chip.wires : IsWire(w)

ASSUME ChipGraphAssumption ==
    /\ ValidateArrangement(FirstGraph) /\ Shaped(FirstGraph, KnownKinds)
    /\ \A k \in KnownKinds : k.type = "Chip" => Whole(k, KnownKinds)
    /\ \A b \in EditBatches :
          /\ IsBatch(b)
          /\ \A i \in DOMAIN b :
                /\ b[i].op = "add_node" => b[i].kind \in KnownKinds
                /\ b[i].op = "wire" => IsWire(b[i].wire)

editVars == <<graph, edits>>

EditInit == graph = FirstGraph /\ edits = 0

Commit(result) ==
    /\ edits < MaxEdits
    /\ ValidateArrangement(result)
    /\ graph' = result
    /\ edits' = edits + 1

CommitBatch(b) == ValidateActions(graph, b) /\ Commit(Apply(graph, b))

CommitAbstract(ids) == Commit(Group(graph, ids))

CommitDecompose(id) == Commit(Ungroup(graph, id))

EditNext ==
    \/ \E b \in EditBatches : CommitBatch(b)
    \/ \E ids \in (SUBSET NodeIds(graph)) \ {{}} : CommitAbstract(ids)
    \/ \E n \in graph.nodes : IsChip(n) /\ CommitDecompose(n.id)

EditSpec == EditInit /\ [][EditNext]_editVars

-----------------------------------------------------------------------------

(***************************************************************************)
(* Every edit leaves a sound graph, chips included: the ports a fold cuts  *)
(* and an unfold restores never leave a wire or the tip without its node.  *)
(***************************************************************************)
StaysSound == ValidateArrangement(graph)

(***************************************************************************)
(* Unfolding the chip of any selection, at once, gives back the graph:     *)
(* ids, kinds and every wire on its own port ("ungroup() is the EXACT      *)
(* inverse", chip_ops.py), in every graph the edits reach, also when the   *)
(* selection holds chips or some of its wires end at one.                  *)
(***************************************************************************)
RoundTrip ==
    \A ids \in (SUBSET NodeIds(graph)) \ {{}} :
        Ungroup(Group(graph, ids), ChipId(graph, ids)) = graph

(***************************************************************************)
(* No two nodes of the graph have one id ("Unique within this arrangement; *)
(* stable across hotloads", the schema of a node's id): the runtime indexes*)
(* nodes by id and would drop one of them.                                 *)
(***************************************************************************)
UniqueIds == \A m, n \in graph.nodes : m.id = n.id => m = n

(***************************************************************************)
(* Unfolding a chip keeps the conversation that went on outside it: a node *)
(* that was under another before is still under some node after ("Edits    *)
(* add nodes/wires/versions; they do not rewrite history").                *)
(***************************************************************************)
UnfoldKeepsReplies ==
    [][\A c \in graph.nodes : IsChip(c) /\ CommitDecompose(c.id) =>
          \A n \in graph.nodes \cap graph'.nodes :
             ParentsOf(graph, n.id) # {} => ParentsOf(graph', n.id) # {}]_editVars

(***************************************************************************)
(* Folding part of a thread does not cut the rest of it off: what a        *)
(* message outside the fold had among its ancestors, and was not folded,   *)
(* stays among them and goes to the model with it ("the union of their     *)
(* ancestors + themselves ... 'send a whole structure to Claude'",         *)
(* graph_assemble_context).                                                *)
(***************************************************************************)
FoldKeepsThread ==
    [][\A ids \in (SUBSET NodeIds(graph)) \ {{}} : CommitAbstract(ids) =>
          \A n \in graph.nodes : n.id \notin ids =>
             Ancestors(graph, n.id) \ ids \subseteq Ancestors(graph', n.id)]_editVars

\* Batches, folds and unfolds in any order keep the arrangement valid, and a fold that
\* is undone at once leaves what was there.
FoldsAreSound ==
    StaysSound /\ RoundTrip
=============================================================================
