------------------------------ MODULE Conversation ------------------------------
(***************************************************************************)
(* One arrangement edited by batches that pass the structural gate and     *)
(* nothing else: convo_protocol's validate_actions followed by apply, as   *)
(* the canvas and the engine call them.  The soundness check that          *)
(* commit_actions adds is left out on purpose, to see what the gate alone  *)
(* guarantees, and what a reader of the graph can rely on.                 *)
(***************************************************************************)
EXTENDS Arrangement

CONSTANTS
    Batches,    \* the action batches proposed
    InitArr,    \* the arrangement at the start
    MaxNodes    \* bound: nodes of the arrangement

ASSUME ConversationAssumption ==
    /\ ValidateArrangement(InitArr) /\ IsFiniteSet(InitArr.wires)
    /\ \A b \in Batches : IsBatch(b)

VARIABLE arr

Init == arr = InitArr

Land(b) ==
    /\ Cardinality(arr.nodes) < MaxNodes
    /\ ValidateActions(arr, b)
    /\ arr' = Apply(arr, b)

Next == \E b \in Batches : Land(b)

Spec == Init /\ [][Next]_arr

-----------------------------------------------------------------------------

(***************************************************************************)
(* The gate keeps the graph sound by itself: whatever batches it admits,   *)
(* in whatever order, no wire or tip lacks its node and the parents form   *)
(* no cycle.                                                               *)
(***************************************************************************)
GateSuffices == ValidateArrangement(arr)

(***************************************************************************)
(* The walk a context is built from never comes back to where it started   *)
(* (ancestors: "all ancestors of node_id, excluding it"), which the gate's *)
(* own cycle search is there to ensure.                                    *)
(***************************************************************************)
NotOwnAncestor == \A n \in arr.nodes : n.id \notin Ancestors(arr, n.id)

(***************************************************************************)
(* A context has no gap: every parent of a node in it is in it, so the     *)
(* thread that led to each message goes to the model with it.              *)
(***************************************************************************)
ContextClosed ==
    \A n \in arr.nodes :
        LET ctx == {m.id : m \in ContextNodes(arr, {n.id})}
        IN  \A id \in ctx : ParentsOf(arr, id) \subseteq ctx

(***************************************************************************)
(* What a selection pulled into its context it pulls in for ever: a later  *)
(* batch never takes a message out of a thread.                            *)
(***************************************************************************)
ContextOnlyGrows ==
    [][\A n \in arr.nodes :
          ContextNodes(arr, {n.id}) \subseteq ContextNodes(arr', {n.id})]_arr

(***************************************************************************)
(* A node a batch adds can be wired up later in the same batch under the   *)
(* id the batch gave it ("added node referenceable later", the tests of    *)
(* the gate): the wire ends at the node the batch added.                   *)
(***************************************************************************)
BatchLocalReference ==
    [][\A b \in Batches : Land(b) =>
          \A i, j \in 1 .. Len(b) :
             i < j /\ b[i].op = "add_node" /\ b[j].op = "wire" /\ b[j].wire.to = b[i].id
                => \E n \in arr'.nodes \ arr.nodes :
                      n.kind = b[i].kind /\ [b[j].wire EXCEPT !.to = n.id] \in arr'.wires]_arr

\* No message is among its own ancestors, and a context has every ancestor of its own.
ThreadsAreSound ==
    NotOwnAncestor /\ ContextClosed
=============================================================================
