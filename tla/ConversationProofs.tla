--------------------------- MODULE ConversationProofs ---------------------------
(***************************************************************************)
(* The engines, for every value of the constants: the structural gate      *)
(* alone keeps the conversation sound, and folds are undone exactly; nodes *)
(* are evaluated in their order; a load of a scene does what it says; and  *)
(* each node type is registered with the module of its own file.           *)
(***************************************************************************)
EXTENDS Conversation, ChipGraph, TopoOrder, NodeTypes, SceneLoad, ArrangementProofs

(* Whatever batches the gate admits, in whatever order, the graph stays    *)
(* sound: no wire or tip without its node, no cycle of parents.            *)
THEOREM GateIsEnough == Spec => []GateSuffices
<1>1. Init => GateSuffices
  BY ConversationAssumption DEF Init, GateSuffices
<1>2. GateSuffices /\ [Next]_arr => GateSuffices'
  <2> SUFFICES ASSUME GateSuffices, [Next]_arr PROVE GateSuffices'
    OBVIOUS
  <2>1. ASSUME NEW b \in Batches, Land(b) PROVE GateSuffices'
    BY <2>1, GateKeepsSound, ConversationAssumption DEF Land, GateSuffices
  <2>2. CASE UNCHANGED arr
    BY <2>2 DEF GateSuffices
  <2> QED
    BY <2>1, <2>2 DEF Next
<1> QED
  BY <1>1, <1>2, PTL DEF Spec

-----------------------------------------------------------------------------
(* The walk of a context ends, which takes a finite graph. *)
FiniteGraph == IsFiniteSet(arr.wires)

ThreadInv == GateSuffices /\ FiniteGraph

LEMMA ThreadInvariant == Spec => []ThreadInv
<1>1. Init => FiniteGraph
  BY ConversationAssumption DEF Init, FiniteGraph
<1>2. FiniteGraph /\ [Next]_arr => FiniteGraph'
  <2> SUFFICES ASSUME FiniteGraph, [Next]_arr PROVE FiniteGraph'
    OBVIOUS
  <2>1. ASSUME NEW b \in Batches, Land(b) PROVE FiniteGraph'
    BY <2>1, ApplyFinite, ConversationAssumption DEF Land, FiniteGraph
  <2>2. CASE UNCHANGED arr
    BY <2>2 DEF FiniteGraph
  <2> QED
    BY <2>1, <2>2 DEF Next
<1> QED
  BY <1>1, <1>2, GateIsEnough, PTL DEF Spec, ThreadInv

(* No message comes to be among its own ancestors, and every context holds *)
(* the parents of what it holds, so a thread goes to the model whole.      *)
THEOREM ThreadsAlwaysSound == Spec => []ThreadsAreSound
<1>1. ThreadInv => ThreadsAreSound
  <2> SUFFICES ASSUME ThreadInv PROVE ThreadsAreSound
    OBVIOUS
  <2>0. IsFiniteSet(arr.wires) /\ Dangling(arr) = {} /\ ~HasCycle(arr)
    BY DEF ThreadInv, FiniteGraph, GateSuffices, ValidateArrangement
  <2>1. NotOwnAncestor
    BY <2>0, OwnAncestorMakesCycle DEF NotOwnAncestor
  <2>2. ASSUME NEW n \in arr.nodes,
               NEW id \in {m.id : m \in ContextNodes(arr, {n.id})},
               NEW p \in ParentsOf(arr, id)
        PROVE  p \in {m.id : m \in ContextNodes(arr, {n.id})}
    <3>1. id = n.id \/ id \in Ancestors(arr, n.id)
      BY DEF ContextNodes
    <3>2. p \in Ancestors(arr, n.id)
      BY <2>0, <3>1, AncestorsClosed
    <3>3. p \in NodeIds(arr)
      BY <2>0 DEF Dangling, ParentsOf
    <3> QED
      BY <3>2, <3>3 DEF ContextNodes, NodeIds
  <2>3. ContextClosed
    BY <2>2 DEF ContextClosed
  <2> QED
    BY <2>1, <2>3 DEF ThreadsAreSound
<1> QED
  BY <1>1, ThreadInvariant, PTL

(* No batch takes a message out of a thread: the context of every node     *)
(* keeps all it had.                                                       *)
THEOREM ContextsOnlyGrow == Spec => ContextOnlyGrows
<1> DEFINE Kept == \A n \in arr.nodes :
              ContextNodes(arr, {n.id}) \subseteq ContextNodes(arr', {n.id})
<1>1. ThreadInv /\ ThreadInv' /\ [Next]_arr => [Kept]_arr
  <2> SUFFICES ASSUME ThreadInv, ThreadInv', NEW b \in Batches, Land(b) PROVE Kept
    BY DEF Next
  <2>1. Extends(arr', arr)
    BY ApplyExtends, ConversationAssumption DEF Land
  <2>2. IsFiniteSet(arr.wires) /\ IsFiniteSet(arr'.wires)
    BY DEF ThreadInv, FiniteGraph
  <2> QED
    BY <2>1, <2>2, ContextGrows
<1> QED
  BY <1>1, ThreadInvariant, PTL DEF Spec, ContextOnlyGrows

-----------------------------------------------------------------------------
(***************************************************************************)
(* Folds.  A fold is undone exactly because the chip's id is free, because *)
(* a port is named after the site it stands for, and because no wire of a  *)
(* sound graph ends at an id that is free.                                 *)
(***************************************************************************)
LEMMA NumberedIds ==
    ASSUME NEW base, base \in Seq({base[1], base[2]}), NEW i \in Nat, NEW j \in Nat, i # j
    PROVE  Append(base, i) # Append(base, j)
<1> DEFINE S == {base[1], base[2]} \cup Nat
<1>1. base \in Seq(S) /\ i \in S /\ j \in S
  OBVIOUS
<1>2. Append(base, i)[Len(base) + 1] = i /\ Append(base, j)[Len(base) + 1] = j
  BY <1>1
<1> QED
  BY <1>2

\* Among one number more than there are nodes, one is free.
LEMMA SomeNumberFree ==
    ASSUME NEW g, IsFiniteSet(g.nodes), NEW ids
    PROVE  \E i \in 2 .. Cardinality(g.nodes) + 2 :
              /\ Append(<<"chip", ids>>, i) \notin NodeIds(g)
              /\ \A j \in 2 .. i - 1 : Append(<<"chip", ids>>, j) \in NodeIds(g)
<1> DEFINE base == <<"chip", ids>>
           n == Cardinality(g.nodes)
           T == {i \in 2 .. n + 2 : Append(base, i) \notin NodeIds(g)}
<1>0. n \in Nat
  BY FS_CardinalityType
<1>1. \A i, j \in Nat : i # j => Append(base, i) # Append(base, j)
  <2>1. base \in Seq({base[1], base[2]})
    OBVIOUS
  <2> HIDE DEF base
  <2> QED
    BY <2>1, NumberedIds
<1>2. T # {}
  <2> SUFFICES ASSUME T = {} PROVE FALSE
    OBVIOUS
  <2> DEFINE f == [i \in 2 .. n + 2 |-> CHOOSE m \in g.nodes : m.id = Append(base, i)]
  <2> HIDE DEF base
  <2>1. ASSUME NEW i \in 2 .. n + 2 PROVE f[i] \in g.nodes /\ f[i].id = Append(base, i)
    <3>1. \E m \in g.nodes : m.id = Append(base, i)
      BY <2>1 DEF NodeIds
    <3> QED
      BY <2>1, <3>1
  <2>2. f \in [2 .. n + 2 -> g.nodes]
    BY <2>1
  <2>3. IsFiniteSet(2 .. n + 2) /\ Cardinality(2 .. n + 2) = n + 1
    BY <1>0, FS_Interval
  <2>4. \E x, y \in 2 .. n + 2 : x # y /\ f[x] = f[y]
    <3> HIDE DEF f
    <3> QED
      BY <1>0, <2>2, <2>3, FS_PigeonHole
  <2> HIDE DEF f
  <2> QED
    BY <1>0, <1>1, <2>1, <2>4
<1>3. PICK i \in T : \A y \in T : i <= y
  <2>1. T \subseteq Nat
    BY <1>0
  <2> HIDE DEF T
  <2> QED
    BY <1>2, <2>1, LeastElement
<1> QED
  BY <1>0, <1>3

LEMMA ChipIdFree ==
    ASSUME NEW g, IsFiniteSet(g.nodes), NEW ids
    PROVE  ChipId(g, ids) \notin NodeIds(g)
<1> DEFINE base == <<"chip", ids>>
           least(i) == /\ Append(base, i) \notin NodeIds(g)
                       /\ \A j \in 2 .. i - 1 : Append(base, j) \in NodeIds(g)
<1>1. \E i \in 2 .. Cardinality(g.nodes) + 2 : least(i)
  BY SomeNumberFree
<1>2. least(CHOOSE i \in 2 .. Cardinality(g.nodes) + 2 : least(i))
  <2> HIDE DEF least
  <2> QED
    BY <1>1
<1> QED
  BY <1>2 DEF ChipId

\* A record with these fields is told by them.
LEMMA PortSites ==
    ASSUME NEW node, NEW port, NEW other, NEW at
    PROVE  /\ InPort(node, port).name = InPort(other, at).name => node = other /\ port = at
           /\ OutPort(node, port).name = OutPort(other, at).name => node = other /\ port = at
BY DEF InPort, OutPort

LEMMA FoldedBack ==
    ASSUME NEW g, g = [nodes |-> g.nodes, wires |-> g.wires, tip |-> g.tip],
           \A w \in g.wires : IsWire(w), Dangling(g) = {},
           NEW ids, NEW id, id \notin NodeIds(g), ids \subseteq NodeIds(g), id = ChipId(g, ids)
    PROVE  Ungroup(Group(g, ids), id) = g
<1> DEFINE inside   == {w \in g.wires : w.from \in ids /\ w.to \in ids}
           outside  == {w \in g.wires : w.from \notin ids /\ w.to \notin ids}
           entering == {w \in g.wires : w.from \notin ids /\ w.to \in ids}
           leaving  == {w \in g.wires : w.from \in ids /\ w.to \notin ids}
           chip     == Chip({n \in g.nodes : n.id \in ids}, inside,
                            {InPort(w.to, w.in) : w \in entering},
                            {OutPort(w.from, w.out) : w \in leaving})
           cell     == [id |-> id, kind |-> chip]
           In(w)    == Into(w, id, InPort(w.to, w.in).name)
           Out(w)   == OutOf(w, id, OutPort(w.from, w.out).name)
           folded   == Group(g, ids)
<1>1. /\ folded.nodes = {n \in g.nodes : n.id \notin ids} \cup {cell}
      /\ folded.wires = outside \cup {In(w) : w \in entering} \cup {Out(w) : w \in leaving}
      /\ folded.tip = g.tip
  BY DEF Group
<1>2. \A w \in g.wires : w.from \in NodeIds(g) /\ w.to \in NodeIds(g)
  BY DEF Dangling
<1>3. /\ chip.type = "Chip" /\ chip.wires = inside
      /\ chip.nodes = {n \in g.nodes : n.id \in ids}
      /\ chip.ins = {InPort(w.to, w.in) : w \in entering}
      /\ chip.outs = {OutPort(w.from, w.out) : w \in leaving}
  BY DEF Chip
<1>4. cell.id = id /\ cell.kind = chip
  OBVIOUS
<1>5. {n \in folded.nodes : n.id = id /\ IsChip(n)} = {cell}
  <2>1. \A n \in g.nodes : n.id # id
    BY DEF NodeIds
  <2>2. IsChip(cell)
    BY <1>3, <1>4 DEF IsChip
  <2> HIDE DEF chip, cell, folded
  <2> QED
    BY <1>1, <1>4, <2>1, <2>2
\* Each wire of the folded graph comes from one wire, and goes back to it.
<1>6. ASSUME NEW w \in outside PROVE Reattached(w, id, chip) = {w}
  BY <1>2 DEF Reattached
<1>7. ASSUME NEW w \in entering PROVE Reattached(In(w), id, chip) = {w}
  <2>0. w = [from |-> w.from, out |-> w.out, to |-> w.to, in |-> w.in]
    BY DEF IsWire
  <2>1. In(w).to = id /\ In(w).in = InPort(w.to, w.in).name
    BY DEF Into
  <2>2. Reattached(In(w), id, chip) =
           {Into(In(w), p.node, p.port) :
               p \in {q \in chip.ins : q.name = InPort(w.to, w.in).name}}
    BY <2>1 DEF Reattached
  <2>3. {q \in chip.ins : q.name = InPort(w.to, w.in).name} = {InPort(w.to, w.in)}
    <3> HIDE DEF chip, entering, leaving
    <3> QED
      BY <1>3, PortSites, SMTT(20)
  <2>4. Into(In(w), InPort(w.to, w.in).node, InPort(w.to, w.in).port) = w
    BY <2>0 DEF InPort, Into
  <2> HIDE DEF chip, In
  <2> QED
    BY <2>2, <2>3, <2>4
<1>8. ASSUME NEW w \in leaving PROVE Reattached(Out(w), id, chip) = {w}
  <2>0. w = [from |-> w.from, out |-> w.out, to |-> w.to, in |-> w.in]
    BY DEF IsWire
  <2>1. Out(w).from = id /\ Out(w).out = OutPort(w.from, w.out).name /\ Out(w).to # id
    BY <1>2 DEF OutOf
  <2>2. Reattached(Out(w), id, chip) =
           {OutOf(Out(w), p.node, p.port) :
               p \in {q \in chip.outs : q.name = OutPort(w.from, w.out).name}}
    BY <2>1 DEF Reattached
  <2>3. {q \in chip.outs : q.name = OutPort(w.from, w.out).name} = {OutPort(w.from, w.out)}
    <3> HIDE DEF chip, entering, leaving
    <3> QED
      BY <1>3, PortSites
  <2>4. OutOf(Out(w), OutPort(w.from, w.out).node, OutPort(w.from, w.out).port) = w
    BY <2>0 DEF OutPort, OutOf
  <2> HIDE DEF chip, Out
  <2> QED
    BY <2>2, <2>3, <2>4
<1>9. UNION {Reattached(w, id, chip) : w \in folded.wires} = outside \cup entering \cup leaving
  <2> HIDE DEF chip, cell, folded, In, Out, outside, entering, leaving, inside
  <2> QED
    BY <1>1, <1>6, <1>7, <1>8
<1>10. inside \cup (outside \cup entering \cup leaving) = g.wires
  OBVIOUS
<1>11. (folded.nodes \ {cell}) \cup {n \in g.nodes : n.id \in ids} = g.nodes
  <2>1. cell \notin g.nodes
    BY <1>4 DEF NodeIds
  <2> HIDE DEF cell, folded
  <2> QED
    BY <1>1, <2>1
<1>12. Ungroup(folded, id) =
          [nodes |-> (folded.nodes \ {cell}) \cup chip.nodes,
           wires |-> chip.wires \cup UNION {Reattached(w, id, chip) : w \in folded.wires},
           tip   |-> folded.tip]
  <2>1. (CHOOSE n \in {cell} : TRUE) = cell /\ {cell} # {}
    OBVIOUS
  <2> HIDE DEF chip, cell, folded
  <2> QED
    BY <1>4, <1>5, <2>1 DEF Ungroup
<1> HIDE DEF chip, cell, folded, outside, entering, leaving, inside
<1> QED
  BY <1>1, <1>3, <1>9, <1>10, <1>11, <1>12 DEF folded

(***************************************************************************)
(* The edits keep the arrangement an arrangement.  A chip that is unfolded *)
(* puts what it holds back, so what every chip holds, at any depth, must   *)
(* be well formed as well: the kinds there are belong to a family that is  *)
(* closed under looking into chips.                                        *)
(***************************************************************************)
Closed(kinds) == \A k \in kinds : k.type = "Chip" => Whole(k, kinds)

Nested == \E kinds : Closed(kinds) /\ KnownKinds \subseteq kinds /\ Shaped(graph, kinds)

\* A wire moved at one end is a wire.
LEMMA MovedWire ==
    ASSUME NEW w, NEW node, NEW port
    PROVE  IsWire(Into(w, node, port)) /\ IsWire(OutOf(w, node, port))
BY DEF IsWire, Into, OutOf

LEMMA OneShaped ==
    ASSUME NEW g, NEW kinds, Shaped(g, kinds), NEW a,
           a.op = "add_node" => a.kind \in kinds,
           a.op = "wire" => IsWire(a.wire)
    PROVE  Shaped(ApplyOne(g, a), kinds)
<1>1. CASE a.op = "add_node"
  <2> DEFINE nid == UniqueId(g, a.id)
             node == [id |-> nid, kind |-> a.kind]
             more == IF a.parent = NoId THEN {} ELSE {ParentWire(a.parent, nid)}
  <2>1. ApplyOne(g, a) =
           [nodes |-> g.nodes \cup {node}, wires |-> g.wires \cup more, tip |-> g.tip]
    BY <1>1 DEF ApplyOne, Added
  <2>2. \A w \in more : IsWire(w)
    BY DEF ParentWire, IsWire
  <2>3. IsFiniteSet(g.nodes \cup {node}) /\ node.kind = a.kind
    BY FS_AddElement DEF Shaped
  <2> HIDE DEF node, more
  <2> QED
    BY <1>1, <2>1, <2>2, <2>3 DEF Shaped
<1>2. CASE a.op = "wire"
  BY <1>2 DEF ApplyOne, Shaped
<1>3. CASE a.op \notin {"add_node", "wire"}
  BY <1>3 DEF ApplyOne, Shaped
<1> QED
  BY <1>1, <1>2, <1>3

LEMMA BatchShaped ==
    ASSUME NEW g, NEW kinds, Shaped(g, kinds), KnownKinds \subseteq kinds,
           NEW b \in EditBatches
    PROVE  Shaped(Apply(g, b), kinds)
<1> DEFINE n == Len(b)
           after == Applied(g, b)
           S == {k \in 0 .. n : Shaped(after[k], kinds)}
<1>0. n \in Nat /\ DOMAIN b = 1 .. n
  BY ChipGraphAssumption DEF IsBatch
<1>1. 0 \in S
  BY <1>0, AppliedFirst
<1>2. ASSUME NEW k \in 1 .. n, k - 1 \in S PROVE k \in S
  <2>1. Shaped(after[k-1], kinds)
    BY <1>2
  <2>2. after[k] = ApplyOne(after[k-1], b[k])
    BY <1>0, AppliedNext
  <2>3. /\ b[k].op = "add_node" => b[k].kind \in kinds
        /\ b[k].op = "wire" => IsWire(b[k].wire)
    BY <1>0, ChipGraphAssumption
  <2>4. Shaped(after[k], kinds)
    <3> HIDE DEF after
    <3> QED
      BY <2>1, <2>2, <2>3, OneShaped
  <2> QED
    BY <2>4
<1>3. n \in S
  <2> HIDE DEF S, n
  <2> QED
    BY <1>0, <1>1, <1>2, IntervalInduction
<1> QED
  BY <1>3 DEF Apply

\* A fold adds one kind, which holds nodes of the kinds there were.
LEMMA GroupShaped ==
    ASSUME NEW g, NEW kinds, Closed(kinds), Shaped(g, kinds), NEW ids
    PROVE  \E more : Closed(more) /\ kinds \subseteq more /\ Shaped(Group(g, ids), more)
<1> DEFINE id       == ChipId(g, ids)
           inside   == {w \in g.wires : w.from \in ids /\ w.to \in ids}
           outside  == {w \in g.wires : w.from \notin ids /\ w.to \notin ids}
           entering == {w \in g.wires : w.from \notin ids /\ w.to \in ids}
           leaving  == {w \in g.wires : w.from \in ids /\ w.to \notin ids}
           chip     == Chip({n \in g.nodes : n.id \in ids}, inside,
                            {InPort(w.to, w.in) : w \in entering},
                            {OutPort(w.from, w.out) : w \in leaving})
           cell     == [id |-> id, kind |-> chip]
           rest     == {n \in g.nodes : n.id \notin ids} \cup {cell}
           joined   == outside
                       \cup {Into(w, id, InPort(w.to, w.in).name) : w \in entering}
                       \cup {OutOf(w, id, OutPort(w.from, w.out).name) : w \in leaving}
           more     == kinds \cup {chip}
<1>1. Group(g, ids) = [nodes |-> rest, wires |-> joined, tip |-> g.tip]
  BY DEF Group
<1>2. \A w \in joined : IsWire(w)
  <2>1. \A w \in g.wires : IsWire(w)
    BY DEF Shaped
  <2>2. ASSUME NEW w \in entering
        PROVE  IsWire(Into(w, id, InPort(w.to, w.in).name))
    BY <2>1, MovedWire
  <2>3. ASSUME NEW w \in leaving
        PROVE  IsWire(OutOf(w, id, OutPort(w.from, w.out).name))
    BY <2>1, MovedWire
  <2>4. \A w \in outside : IsWire(w)
    BY DEF Shaped
  <2> HIDE DEF entering, leaving, outside, id
  <2> QED
    BY <2>2, <2>3, <2>4
<1>3. IsFiniteSet(rest)
  BY FS_Subset, FS_AddElement DEF Shaped
<1>4. cell.kind = chip /\ chip.nodes = {n \in g.nodes : n.id \in ids} /\ chip.wires = inside
  BY DEF Chip
<1>5. \A n \in rest : n.kind \in more
  <2> HIDE DEF cell, chip
  <2> QED
    BY <1>4 DEF Shaped
<1>6. Whole(chip, more)
  <2>1. IsFiniteSet({n \in g.nodes : n.id \in ids})
    BY FS_Subset DEF Shaped
  <2> HIDE DEF chip
  <2> QED
    BY <1>4, <2>1 DEF Whole, Shaped
<1>7. Closed(more)
  <2> HIDE DEF chip
  <2> QED
    BY <1>6 DEF Closed, Whole
<1>8. Shaped(Group(g, ids), more)
  <2> HIDE DEF rest, joined, more
  <2> QED
    BY <1>1, <1>2, <1>3, <1>5 DEF Shaped
<1> HIDE DEF more
<1> QED
  BY <1>7, <1>8 DEF more

LEMMA ReattachedShaped ==
    ASSUME NEW w, IsWire(w), NEW id, NEW chip, NEW x \in Reattached(w, id, chip)
    PROVE  IsWire(x)
<1>1. CASE w.to = id
  BY <1>1, MovedWire DEF Reattached
<1>2. CASE w.to # id /\ w.from = id
  BY <1>2, MovedWire DEF Reattached
<1>3. CASE w.to # id /\ w.from # id
  BY <1>3 DEF Reattached
<1> QED
  BY <1>1, <1>2, <1>3

\* An unfold puts nodes and wires back that are well formed inside the chip.
LEMMA UngroupShaped ==
    ASSUME NEW g, NEW kinds, Closed(kinds), Shaped(g, kinds), NEW id
    PROVE  Shaped(Ungroup(g, id), kinds)
<1> DEFINE chips == {n \in g.nodes : n.id = id /\ IsChip(n)}
           chip  == (CHOOSE n \in chips : TRUE).kind
<1>1. CASE chips = {}
  BY <1>1 DEF Ungroup
<1>2. CASE chips # {}
  <2>1. Ungroup(g, id) =
           [nodes |-> (g.nodes \ chips) \cup chip.nodes,
            wires |-> chip.wires \cup UNION {Reattached(w, id, chip) : w \in g.wires},
            tip   |-> g.tip]
    BY <1>2 DEF Ungroup
  <2>2. Whole(chip, kinds)
    <3>1. (CHOOSE n \in chips : TRUE) \in chips
      BY <1>2
    <3>2. chip \in kinds /\ chip.type = "Chip"
      BY <3>1 DEF IsChip, Shaped
    <3> QED
      BY <3>2 DEF Closed
  <2>3. IsFiniteSet((g.nodes \ chips) \cup chip.nodes)
    <3>1. IsFiniteSet(g.nodes \ chips)
      BY FS_Subset DEF Shaped
    <3>2. IsFiniteSet(chip.nodes)
      BY <2>2 DEF Whole
    <3> HIDE DEF chip, chips
    <3> QED
      BY <3>1, <3>2, FS_Union
  <2>4. \A x \in UNION {Reattached(w, id, chip) : w \in g.wires} : IsWire(x)
    <3> HIDE DEF chip
    <3> QED
      BY ReattachedShaped DEF Shaped
  <2> HIDE DEF chip, chips
  <2> QED
    BY <2>1, <2>2, <2>3, <2>4 DEF Shaped, Whole
<1> QED
  BY <1>1, <1>2

LEMMA EditInvariant == EditSpec => [](StaysSound /\ Nested)
<1>1. EditInit => StaysSound /\ Nested
  BY ChipGraphAssumption DEF EditInit, StaysSound, Nested, Closed
<1>2. StaysSound /\ Nested /\ [EditNext]_editVars => (StaysSound /\ Nested)'
  <2> SUFFICES ASSUME StaysSound, Nested, [EditNext]_editVars PROVE (StaysSound /\ Nested)'
    OBVIOUS
  <2> PICK kinds : Closed(kinds) /\ KnownKinds \subseteq kinds /\ Shaped(graph, kinds)
    BY DEF Nested
  <2>1. ASSUME NEW result, Commit(result),
               NEW more, Closed(more), KnownKinds \subseteq more, Shaped(result, more)
        PROVE  (StaysSound /\ Nested)'
    BY <2>1 DEF Commit, StaysSound, Nested
  <2>2. ASSUME NEW b \in EditBatches, CommitBatch(b) PROVE (StaysSound /\ Nested)'
    BY <2>1, <2>2, BatchShaped DEF CommitBatch
  <2>3. ASSUME NEW ids, CommitAbstract(ids) PROVE (StaysSound /\ Nested)'
    <3> PICK more : Closed(more) /\ kinds \subseteq more /\ Shaped(Group(graph, ids), more)
      BY GroupShaped
    <3> QED
      BY <2>1, <2>3 DEF CommitAbstract
  <2>4. ASSUME NEW id, CommitDecompose(id) PROVE (StaysSound /\ Nested)'
    BY <2>1, <2>4, UngroupShaped DEF CommitDecompose
  <2>5. CASE UNCHANGED editVars
    BY <2>5 DEF editVars, StaysSound, Nested
  <2> QED
    BY <2>2, <2>3, <2>4, <2>5 DEF EditNext
<1> QED
  BY <1>1, <1>2, PTL DEF EditSpec

(* Through any batches, folds and unfolds, nested to any depth, the graph  *)
(* stays sound and every fold of any selection is undone exactly.          *)
THEOREM FoldsAreAlwaysSound == EditSpec => []FoldsAreSound
<1>1. StaysSound /\ Nested => FoldsAreSound
  <2> SUFFICES ASSUME StaysSound, Nested,
                      NEW ids \in (SUBSET NodeIds(graph)) \ {{}}
               PROVE  Ungroup(Group(graph, ids), ChipId(graph, ids)) = graph
    BY DEF FoldsAreSound, RoundTrip
  <2>1. /\ graph = [nodes |-> graph.nodes, wires |-> graph.wires, tip |-> graph.tip]
        /\ \A w \in graph.wires : IsWire(w)
        /\ IsFiniteSet(graph.nodes)
    BY DEF Nested, Shaped
  <2>2. Dangling(graph) = {}
    BY DEF StaysSound, ValidateArrangement
  <2>3. ChipId(graph, ids) \notin NodeIds(graph)
    BY <2>1, ChipIdFree
  <2> QED
    BY <2>1, <2>2, <2>3, FoldedBack
<1> QED
  BY <1>1, EditInvariant, PTL

-----------------------------------------------------------------------------
(* The order of evaluation. *)

OnceIn(s) == \A i, j \in 1 .. Len(s) : s[i] = s[j] => i = j
Members(s) == {s[i] : i \in 1 .. Len(s)}

LEMMA RangeIsMembers == \A S : \A s \in Seq(S) : Range(s) = Members(s) /\ Members(s) \subseteq S
  <1> SUFFICES ASSUME NEW S, NEW s \in Seq(S) PROVE Range(s) = Members(s) /\ Members(s) \subseteq S
    OBVIOUS
  <1>1. DOMAIN s = 1 .. Len(s) /\ \A i \in 1 .. Len(s) : s[i] \in S
    OBVIOUS
  <1> QED
    BY <1>1 DEF Range, Members

\* A list in which each element is once is as long as it has elements.
LEMMA OnceCounts ==
    ASSUME NEW S, NEW s \in Seq(S), OnceIn(s)
    PROVE  IsFiniteSet(Members(s)) /\ Cardinality(Members(s)) = Len(s)
  <1>1. s \in [1 .. Len(s) -> Members(s)]
    BY DEF Members
  <1>2. s \in Surjection(1 .. Len(s), Members(s))
    BY <1>1 DEF Surjection, Members
  <1>3. s \in Injection(1 .. Len(s), Members(s))
    BY <1>1 DEF Injection, IsInjective, OnceIn
  <1>4. s \in Bijection(1 .. Len(s), Members(s))
    BY <1>2, <1>3 DEF Bijection
  <1>5. ExistsBijection(1 .. Len(s), Members(s)) /\ Len(s) \in Nat
    BY <1>4 DEF ExistsBijection
  <1> QED
    BY <1>5, FS_NatBijection, FS_CountingElements

LEMMA NodesFinite == IsFiniteSet(Nodes) /\ Cardinality(Nodes) = Len(Ids)
  <1>1. OnceIn(Ids) /\ Ids \in Seq(Nodes)
    BY TopoAssumption DEF OnceIn, Nodes
  <1>2. Nodes = Members(Ids)
    BY <1>1, RangeIsMembers DEF Nodes
  <1> QED
    BY <1>1, <1>2, OnceCounts

\* A list of a set has each of its elements, and each once.
LEMMA ListOfSet ==
    ASSUME NEW S, IsFiniteSet(S), NEW s \in SetToSeqs(S)
    PROVE  s \in Seq(S) /\ Members(s) = S /\ OnceIn(s) /\ Len(s) = Cardinality(S)
  <1> DEFINE n == Cardinality(S)
  <1>1. n \in Nat
    BY FS_CardinalityType
  <1>2. s \in [1 .. n -> S] /\ \A i, j \in 1 .. n : i # j => s[i] # s[j]
    BY DEF SetToSeqs
  <1> HIDE DEF n
  <1>3. s \in Seq(S) /\ Len(s) = n
    BY <1>1, <1>2
  <1>4. OnceIn(s)
    BY <1>2, <1>3 DEF OnceIn
  <1>5. Members(s) \subseteq S
    BY <1>2, <1>3 DEF Members
  <1>6. Cardinality(Members(s)) = n
    BY <1>3, <1>4, OnceCounts
  <1>7. Members(s) = S
    BY <1>5, <1>6, FS_Subset DEF n
  <1> QED
    BY <1>3, <1>4, <1>7 DEF n

-----------------------------------------------------------------------------
\* Wires that still count

Counted(ws, t, U) == {e \in (Nodes \ U) \X (1 .. MaxParallel) : e[2] <= ws[<<e[1], t>>]}
Wired(ws) == ws \in [Nodes \X Nodes -> 0 .. MaxParallel]

LEMMA CountedFinite ==
    ASSUME NEW ws, NEW t \in Nodes, NEW U
    PROVE  IsFiniteSet(Counted(ws, t, U)) /\ Cardinality(Counted(ws, t, U)) \in Nat
  <1>1. IsFiniteSet(Nodes \ U)
    BY NodesFinite, FS_Difference
  <1>2. IsFiniteSet(1 .. MaxParallel)
    BY TopoAssumption, FS_Interval
  <1>3. IsFiniteSet((Nodes \ U) \X (1 .. MaxParallel))
    BY <1>1, <1>2, FS_Product
  <1> QED
    BY <1>3, FS_Subset, FS_CardinalityType DEF Counted

LEMMA AllCounted ==
    ASSUME NEW ws, NEW t \in Nodes
    PROVE  InDegree(ws, t) = Cardinality(Counted(ws, t, {}))
  BY DEF InDegree, Counted

\* No wire counts if all sources are among U.
LEMMA NoneCounted ==
    ASSUME Wired(wires), NEW t \in Nodes, NEW U
    PROVE  Cardinality(Counted(wires, t, U)) = 0 <=> Sources(t) \subseteq U
  <1>1. Cardinality(Counted(wires, t, U)) = 0 <=> Counted(wires, t, U) = {}
    BY CountedFinite, FS_EmptySet
  <1>2. ASSUME Sources(t) \subseteq U PROVE Counted(wires, t, U) = {}
    <2> SUFFICES ASSUME NEW f \in Nodes \ U, NEW k \in 1 .. MaxParallel, k <= wires[<<f, t>>] PROVE FALSE
      BY DEF Counted
    <2>1. wires[<<f, t>>] \in Nat
      BY DEF Wired
    <2>2. f \in Sources(t)
      BY <2>1, TopoAssumption DEF Sources
    <2> QED
      BY <1>2, <2>2
  <1>3. ASSUME NEW f \in Sources(t), f \notin U PROVE Counted(wires, t, U) # {}
    <2>1. f \in Nodes /\ wires[<<f, t>>] \in 1 .. MaxParallel
      BY TopoAssumption DEF Wired, Sources
    <2>2. <<f, 1>> \in Counted(wires, t, U)
      BY <1>3, <2>1, TopoAssumption DEF Counted
    <2> QED
      BY <2>2
  <1> QED
    BY <1>1, <1>2, <1>3

\* The wires of a node that is done with count no longer.
LEMMA CountedLess ==
    ASSUME Wired(wires), NEW t \in Nodes, NEW U, NEW n \in Nodes \ U
    PROVE  /\ wires[<<n, t>>] \in Nat
           /\ Cardinality(Counted(wires, t, U \cup {n})) = Cardinality(Counted(wires, t, U)) - wires[<<n, t>>]
  <1> DEFINE A == Counted(wires, t, U)
             w == wires[<<n, t>>]
             B == {n} \X (1 .. w)
  <1>1. w \in Nat /\ w <= MaxParallel /\ MaxParallel \in Nat
    BY TopoAssumption DEF Wired
  <1>2. B \subseteq A
    <2> SUFFICES ASSUME NEW k \in 1 .. w PROVE <<n, k>> \in A
      OBVIOUS
    <2> QED
      BY <1>1 DEF Counted
  <1>3. Counted(wires, t, U \cup {n}) = A \ B
    <2>1. ASSUME NEW f \in Nodes, NEW k \in 1 .. MaxParallel
          PROVE  <<f, k>> \in Counted(wires, t, U \cup {n}) <=> <<f, k>> \in A \ B
      BY <1>1 DEF Counted
    <2>2. \A x \in Counted(wires, t, U \cup {n}) \cup A : \E f \in Nodes, k \in 1 .. MaxParallel : x = <<f, k>>
      BY DEF Counted
    <2> DEFINE C == Counted(wires, t, U \cup {n})
    <2> HIDE DEF A, B, C
    <2>3. ASSUME NEW x \in C PROVE x \in A \ B
      <3> PICK f \in Nodes, k \in 1 .. MaxParallel : x = <<f, k>>
        BY <2>2 DEF C
      <3> QED
        BY <2>1 DEF C
    <2>4. ASSUME NEW x \in A \ B PROVE x \in C
      <3> PICK f \in Nodes, k \in 1 .. MaxParallel : x = <<f, k>>
        BY <2>2
      <3> QED
        BY <2>1 DEF C
    <2>5. C = A \ B
      BY <2>3, <2>4
    <2> QED
      BY <2>5 DEF C
  <1>4. IsFiniteSet(B) /\ Cardinality(B) = w
    <2>1. IsFiniteSet(1 .. w) /\ Cardinality(1 .. w) = w
      <3> HIDE DEF w
      <3>1. 1 \in Int /\ w \in Int /\ (1 > w => w = 0) /\ w - 1 + 1 = w
        BY <1>1
      <3> QED
        BY <3>1, FS_Interval
    <2>2. IsFiniteSet({n}) /\ Cardinality({n}) = 1
      BY FS_Singleton
    <2>3. IsFiniteSet(B) /\ Cardinality(B) = Cardinality({n}) * Cardinality(1 .. w)
      <3> DEFINE V == 1 .. w
                 N == {n}
      <3>1. IsFiniteSet(V) /\ IsFiniteSet(N)
        BY <2>1, <2>2
      <3> HIDE DEF V, N
      <3>2. IsFiniteSet(N \X V) /\ Cardinality(N \X V) = Cardinality(N) * Cardinality(V)
        BY <3>1, FS_Product
      <3> QED
        BY <3>2 DEF V, N
    <2>4. Cardinality(B) = 1 * w
      BY <2>1, <2>2, <2>3
    <2> QED
      BY <1>1, <2>3, <2>4
  <1>5. IsFiniteSet(A)
    BY CountedFinite
  <1>6. A \cap B = B
    BY <1>2
  <1> HIDE DEF A, B
  <1>7. Cardinality(A \ B) = Cardinality(A) - Cardinality(A \cap B)
    BY <1>5, FS_Difference
  <1> QED
    BY <1>1, <1>3, <1>4, <1>6, <1>7 DEF A

-----------------------------------------------------------------------------
\* Upstream

LEMMA UpstreamClosed ==
    ASSUME NEW t \in Nodes
    PROVE  /\ Upstream(t) \subseteq Nodes /\ Sources(t) \subseteq Upstream(t)
           /\ \A f \in Upstream(t) : Sources(f) \subseteq Upstream(t)
  <1>1. \A f : Sources(f) \subseteq Nodes
    BY DEF Sources
  <1> QED
    BY <1>1 DEF Upstream

LEMMA UpstreamNested ==
    ASSUME NEW t \in Nodes, NEW f \in Nodes, Sources(f) \subseteq Upstream(t)
    PROVE  Upstream(f) \subseteq Upstream(t)
  <1>1. Upstream(t) \in SUBSET Nodes /\ \A g \in Upstream(t) : Sources(g) \subseteq Upstream(t)
    BY UpstreamClosed
  <1> QED
    BY <1>1 DEF Upstream

\* If each node of R has a source in R, a cycle is upstream of each.
LEMMA NoEndlessDescent ==
    ASSUME NEW R \in SUBSET Nodes, \A x \in R : Sources(x) \cap R # {}, NEW t \in R
    PROVE  \E x \in Upstream(t) \cup {t} : OnCycle(x)
  <1> DEFINE W == R \cap (Upstream(t) \cup {t})
             K == {Cardinality(Upstream(x)) : x \in W}
  <1>1. \A x \in W : x \in Nodes /\ IsFiniteSet(Upstream(x)) /\ Cardinality(Upstream(x)) \in Nat
    BY UpstreamClosed, NodesFinite, FS_Subset, FS_CardinalityType
  <1>2. K \subseteq Nat /\ K # {}
    BY <1>1
  <1> HIDE DEF K
  <1>3. PICK k \in K : \A l \in K : k <= l
    BY <1>2, LeastElement
  <1>4. PICK x \in W : k = Cardinality(Upstream(x))
    BY DEF K
  <1>5. PICK y \in R : y \in Sources(x)
    OBVIOUS
  <1>6. x \in Nodes /\ y \in Nodes /\ y \in Upstream(x)
    BY <1>5, UpstreamClosed
  <1>7. y \in Upstream(t)
    BY <1>4, <1>5, <1>6, UpstreamClosed
  <1>8. y \in W
    BY <1>7
  <1>9. Upstream(y) \subseteq Upstream(x)
    BY <1>6, UpstreamClosed, UpstreamNested
  <1>10. Cardinality(Upstream(x)) <= Cardinality(Upstream(y))
    BY <1>3, <1>4, <1>8 DEF K
  <1>11. IsFiniteSet(Upstream(x)) /\ Cardinality(Upstream(y)) <= Cardinality(Upstream(x))
    BY <1>1, <1>9, FS_Subset
  <1>12. Upstream(y) = Upstream(x)
    <2>1. Cardinality(Upstream(x)) = Cardinality(Upstream(y))
      BY <1>1, <1>8, <1>10, <1>11
    <2> QED
      BY <1>9, <1>11, <2>1, FS_Subset
  <1> QED
    BY <1>6, <1>7, <1>12 DEF OnCycle

-----------------------------------------------------------------------------
\* The sort

\* As long as it runs: in-degrees count the wires from nodes not yet in the order,
\* who has none is in the order or in the queue, and who is in the order is after
\* all its sources.
Sorting ==
    /\ \A t \in Nodes : indeg[t] = Cardinality(Counted(wires, t, Members(order)))
    /\ \A t \in Nodes : indeg[t] = 0 <=> t \in Members(order) \cup Members(queue)
    /\ OnceIn(order) /\ OnceIn(queue) /\ Members(order) \cap Members(queue) = {}
    /\ \A t \in Members(order) : \A f \in Sources(t) : Before(f, t)

TopoInv ==
    /\ Wired(wires)
    /\ indeg \in [Nodes -> Int]
    /\ queue \in Seq(Nodes) /\ order \in Seq(Nodes)
    /\ done \in BOOLEAN
    /\ ~done => Sorting
    /\ done => queue = << >> /\ SourcesFirst /\ AllOnce

LEMMA HeldBack ==
    ASSUME TopoInv, ~done, queue = << >>, NEW t \in Nodes \ Members(order)
    PROVE  \E x \in Upstream(t) \cup {t} : OnCycle(x)
  <1> DEFINE R == Nodes \ Members(order)
  <1>1. ASSUME NEW x \in R PROVE Sources(x) \cap R # {}
    <2>1. indeg[x] # 0 /\ indeg[x] = Cardinality(Counted(wires, x, Members(order)))
      BY DEF TopoInv, Sorting, Members
    <2>2. ~(Sources(x) \subseteq Members(order))
      BY <2>1, NoneCounted DEF TopoInv
    <2> QED
      BY <2>2 DEF Sources
  <1> HIDE DEF R
  <1>2. R \in SUBSET Nodes /\ t \in R
    BY DEF R
  <1> QED
    BY <1>1, <1>2, NoEndlessDescent

LEMMA InvSuffices == TopoInv => SourcesFirst /\ HeldBackByCycles /\ (done => AllOnce)
  <1> SUFFICES ASSUME TopoInv PROVE SourcesFirst /\ HeldBackByCycles /\ (done => AllOnce)
    OBVIOUS
  <1>1. Range(order) = Members(order)
    BY RangeIsMembers DEF TopoInv
  <1>2. SourcesFirst
    BY <1>1 DEF TopoInv, Sorting, SourcesFirst
  <1>3. HeldBackByCycles
    BY <1>1, HeldBack DEF HeldBackByCycles
  <1> QED
    BY <1>2, <1>3 DEF TopoInv

LEMMA TopoStarts == TopoInit => TopoInv
  <1> SUFFICES ASSUME TopoInit PROVE TopoInv
    OBVIOUS
  <1> DEFINE S == {id \in Nodes : indeg[id] = 0}
  <1>1. Wired(wires) /\ order = << >> /\ ~done /\ done \in BOOLEAN
    BY DEF TopoInit, Wired
  <1>2. Members(order) = {} /\ order \in Seq(Nodes) /\ OnceIn(order)
    BY <1>1 DEF Members, OnceIn
  <1>3. \A t \in Nodes : indeg[t] = Cardinality(Counted(wires, t, {})) /\ indeg[t] \in Nat
    BY AllCounted, CountedFinite DEF TopoInit
  <1>4. indeg \in [Nodes -> Int]
    BY <1>3 DEF TopoInit
  <1>5. queue \in SetToSeqs(S) /\ IsFiniteSet(S)
    BY NodesFinite, FS_Subset DEF TopoInit, InKeyOrder
  <1>6. queue \in Seq(S) /\ Members(queue) = S /\ OnceIn(queue)
    BY <1>5, ListOfSet
  <1>7. queue \in Seq(Nodes)
    BY <1>6
  <1>8. Sorting
    BY <1>2, <1>3, <1>6 DEF Sorting
  <1> QED
    BY <1>1, <1>2, <1>4, <1>7, <1>8 DEF TopoInv

LEMMA PopKeeps == TopoInv /\ Pop => TopoInv'
  <1> SUFFICES ASSUME TopoInv, Pop PROVE TopoInv'
    OBVIOUS
  <1> DEFINE n == Head(queue)
             ready == {m \in Nodes : wires[<<n, m>>] > 0 /\ indeg[m] = wires[<<n, m>>]}
             rest == Tail(queue)
  <1>1. /\ queue # << >> /\ wires' = wires /\ done' = done
        /\ order' = Append(order, n)
        /\ indeg' = [m \in Nodes |-> indeg[m] - wires[<<n, m>>]]
    BY DEF Pop
  <1>2. PICK s \in SetToSeqs(ready) : queue' = rest \o s
    BY DEF Pop
  <1>3. queue \in Seq(Nodes) /\ order \in Seq(Nodes) /\ Wired(wires) /\ indeg \in [Nodes -> Int]
    BY DEF TopoInv
  <1>4. ~done /\ Sorting
    BY <1>1 DEF TopoInv
  <1>5. /\ n \in Nodes /\ n \in Members(queue) /\ rest \in Seq(Nodes)
        /\ Members(rest) = Members(queue) \ {n} /\ OnceIn(rest)
    <2>1. /\ Len(queue) \in Nat /\ Len(queue) >= 1 /\ n = queue[1]
          /\ rest \in Seq(Nodes) /\ Len(rest) = Len(queue) - 1
          /\ \A i \in 1 .. Len(rest) : rest[i] = queue[i + 1]
          /\ \A i \in 1 .. Len(queue) : queue[i] \in Nodes
      BY <1>1, <1>3
    <2>2. \A i, j \in 1 .. Len(queue) : queue[i] = queue[j] => i = j
      BY <1>4 DEF Sorting, OnceIn
    <2> HIDE DEF n, rest
    <2>3. OnceIn(rest)
      BY <2>1, <2>2 DEF OnceIn
    <2>4. ASSUME NEW i \in 1 .. Len(queue), queue[i] # n PROVE queue[i] \in Members(rest)
      <3>1. i - 1 \in 1 .. Len(rest)
        BY <2>1, <2>4
      <3>2. queue[i] = rest[i - 1]
        BY <2>1, <3>1
      <3> QED
        BY <3>1, <3>2 DEF Members
    <2>5. ASSUME NEW i \in 1 .. Len(rest) PROVE rest[i] \in Members(queue) /\ rest[i] # n
      <3>1. i + 1 \in 1 .. Len(queue) /\ 1 \in 1 .. Len(queue) /\ i + 1 # 1
        BY <2>1
      <3> QED
        BY <2>1, <2>2, <3>1 DEF Members
    <2>6. n \in Members(queue) /\ n \in Nodes
      BY <2>1 DEF Members
    <2>7. Members(rest) = Members(queue) \ {n}
      BY <2>4, <2>5 DEF Members
    <2> QED
      BY <2>1, <2>3, <2>6, <2>7
  <1>6. IsFiniteSet(ready) /\ ready \subseteq Nodes
    BY NodesFinite, FS_Subset
  <1>7. s \in Seq(ready) /\ Members(s) = ready /\ OnceIn(s)
    BY <1>2, <1>6, ListOfSet
  <1> HIDE DEF n, rest
  <1>8. n \notin Members(order) /\ indeg[n] = 0
    BY <1>4, <1>5 DEF Sorting
  <1>9. Members(order') = Members(order) \cup {n} /\ OnceIn(order') /\ order' \in Seq(Nodes)
    <2>1. /\ order' \in Seq(Nodes) /\ Len(order') = Len(order) + 1 /\ Len(order) \in Nat
          /\ order'[Len(order) + 1] = n
          /\ \A i \in 1 .. Len(order) : order'[i] = order[i]
      BY <1>1, <1>3, <1>5
    <2>2. \A i \in 1 .. Len(order') : i \in 1 .. Len(order) \/ i = Len(order) + 1
      BY <2>1
    <2>3. OnceIn(order')
      <3>1. \A i \in 1 .. Len(order) : order'[i] # order'[Len(order) + 1]
        BY <1>8, <2>1 DEF Members
      <3>2. \A i, j \in 1 .. Len(order) : order'[i] = order'[j] => i = j
        BY <1>4, <2>1 DEF Sorting, OnceIn
      <3> QED
        BY <2>2, <3>1, <3>2 DEF OnceIn
    <2> QED
      BY <2>1, <2>2, <2>3 DEF Members
  <1>10. ASSUME NEW m \in Nodes
         PROVE  /\ wires[<<n, m>>] \in Nat /\ indeg'[m] = indeg[m] - wires[<<n, m>>]
                /\ indeg'[m] = Cardinality(Counted(wires, m, Members(order')))
                /\ indeg'[m] \in Nat
    <2>1. indeg'[m] = indeg[m] - wires[<<n, m>>]
      BY <1>1
    <2>2. indeg[m] = Cardinality(Counted(wires, m, Members(order)))
      BY <1>4 DEF Sorting
    <2>3. /\ wires[<<n, m>>] \in Nat
          /\ Cardinality(Counted(wires, m, Members(order) \cup {n}))
               = Cardinality(Counted(wires, m, Members(order))) - wires[<<n, m>>]
      BY <1>3, <1>5, <1>8, CountedLess
    <2>4. Cardinality(Counted(wires, m, Members(order'))) \in Nat
      BY CountedFinite
    <2> QED
      BY <1>9, <2>1, <2>2, <2>3, <2>4
  <1>11. Members(queue') = Members(rest) \cup ready /\ OnceIn(queue') /\ queue' \in Seq(Nodes)
    <2>1. ready \cap Members(queue) = {}
      <3>1. ASSUME NEW m \in ready \cap Members(queue) PROVE FALSE
        <4>1. m \in Nodes /\ indeg[m] = 0 /\ indeg[m] > 0
          BY <1>4 DEF Sorting
        <4> QED
          BY <4>1
      <3> QED
        BY <3>1
    <2>2. s \in Seq(Nodes)
      <3> HIDE DEF ready
      <3> QED
        BY <1>6, <1>7
    <2>3. /\ queue' \in Seq(Nodes) /\ Len(queue') = Len(rest) + Len(s)
          /\ Len(rest) \in Nat /\ Len(s) \in Nat
          /\ \A i \in 1 .. Len(rest) : queue'[i] = rest[i]
          /\ \A i \in 1 .. Len(s) : queue'[Len(rest) + i] = s[i]
      BY <1>2, <1>5, <2>2
    <2>4. ASSUME NEW i \in 1 .. Len(queue'), i \notin 1 .. Len(rest)
          PROVE  i - Len(rest) \in 1 .. Len(s) /\ queue'[i] = s[i - Len(rest)]
      <3>1. i - Len(rest) \in 1 .. Len(s)
        BY <2>3, <2>4
      <3> QED
        BY <2>3, <3>1
    <2> HIDE DEF ready
    <2>5. ASSUME NEW i \in 1 .. Len(queue')
          PROVE  queue'[i] \in Members(rest) \cup ready
      BY <1>7, <2>3, <2>4 DEF Members
    <2>6. Members(rest) \cup ready \subseteq Members(queue')
      <3>1. ASSUME NEW i \in 1 .. Len(rest) PROVE i \in 1 .. Len(queue')
        BY <2>3
      <3>2. ASSUME NEW i \in 1 .. Len(s) PROVE Len(rest) + i \in 1 .. Len(queue')
        BY <2>3
      <3>3. Members(rest) \subseteq Members(queue')
        BY <2>3, <3>1 DEF Members
      <3>4. Members(s) \subseteq Members(queue')
        BY <2>3, <3>2 DEF Members
      <3> QED
        BY <1>7, <3>3, <3>4
    <2>7. ASSUME NEW i \in 1 .. Len(queue'), NEW j \in 1 .. Len(queue'), queue'[i] = queue'[j]
          PROVE  i = j
      <3>1. CASE i \in 1 .. Len(rest) /\ j \in 1 .. Len(rest)
        BY <1>5, <2>3, <2>7, <3>1 DEF OnceIn
      <3>2. CASE i \notin 1 .. Len(rest) /\ j \notin 1 .. Len(rest)
        <4>1. i - Len(rest) = j - Len(rest)
          BY <1>7, <2>4, <2>7, <3>2 DEF OnceIn
        <4> QED
          BY <2>3, <4>1
      <3>3. ASSUME NEW a \in 1 .. Len(rest), NEW b \in 1 .. Len(queue'), b \notin 1 .. Len(rest)
            PROVE  queue'[a] # queue'[b]
        <4>1. queue'[a] \in Members(queue)
          BY <1>5, <2>3 DEF Members
        <4>2. queue'[b] \in ready
          BY <1>7, <2>4, <3>3 DEF Members
        <4> QED
          BY <2>1, <4>1, <4>2
      <3> QED
        BY <2>7, <3>1, <3>2, <3>3
    <2>8. OnceIn(queue')
      BY <2>7 DEF OnceIn
    <2> QED
      BY <2>3, <2>5, <2>6, <2>8 DEF Members
  <1>12. ASSUME NEW t \in Nodes
         PROVE  indeg'[t] = 0 <=> t \in Members(order') \cup Members(queue')
    <2>1. indeg[t] = 0 => wires[<<n, t>>] = 0 /\ indeg'[t] = 0
      <3>1. indeg[t] \in Int
        BY <1>3
      <3> QED
        BY <1>10, <3>1
    <2>2. indeg[t] # 0 => (indeg'[t] = 0 <=> t \in ready)
      <3>1. indeg[t] \in Int
        BY <1>3
      <3> QED
        BY <1>10, <3>1
    <2>3. indeg[t] = 0 => t \notin ready
      BY <2>1
    <2>4. Members(order') \cup Members(queue') = Members(order) \cup Members(queue) \cup ready
      BY <1>5, <1>9, <1>11
    <2>5. indeg[t] = 0 <=> t \in Members(order) \cup Members(queue)
      BY <1>4 DEF Sorting
    <2> HIDE DEF ready
    <2> QED
      BY <2>1, <2>2, <2>3, <2>4, <2>5
  <1>13. Members(order') \cap Members(queue') = {}
    <2>1. n \notin ready /\ n \notin Members(rest)
      BY <1>5, <1>8
    <2>2. Members(order) \cap ready = {}
      <3>1. ASSUME NEW m \in ready \cap Members(order) PROVE FALSE
        <4>1. m \in Nodes /\ indeg[m] = 0 /\ indeg[m] > 0
          BY <1>4 DEF Sorting
        <4> QED
          BY <4>1
      <3> QED
        BY <3>1
    <2>3. Members(order) \cap Members(queue) = {}
      BY <1>4 DEF Sorting
    <2> HIDE DEF ready
    <2> QED
      BY <1>5, <1>9, <1>11, <2>1, <2>2, <2>3
  <1>14. ASSUME NEW t \in Members(order'), NEW f \in Sources(t)'
         PROVE  Before(f, t)'
    <2>1. f \in Sources(t)
      BY <1>1 DEF Sources
    <2>2. /\ Len(order') = Len(order) + 1 /\ Len(order) \in Nat /\ order'[Len(order) + 1] = n
          /\ \A i \in 1 .. Len(order) : order'[i] = order[i]
      BY <1>1, <1>3
    <2>3. CASE t \in Members(order)
      <3>1. PICK i, j \in 1 .. Len(order) : i < j /\ order[i] = f /\ order[j] = t
        BY <1>4, <2>1, <2>3 DEF Sorting, Before
      <3>2. i \in 1 .. Len(order') /\ j \in 1 .. Len(order') /\ order'[i] = f /\ order'[j] = t
        BY <2>2, <3>1
      <3> QED
        BY <3>1, <3>2 DEF Before
    <2>4. CASE t = n
      <3>1. Sources(n) \subseteq Members(order)
        BY <1>3, <1>4, <1>5, <1>8, NoneCounted DEF Sorting
      <3>2. PICK i \in 1 .. Len(order) : order[i] = f
        BY <2>1, <2>4, <3>1 DEF Members
      <3>3. i \in 1 .. Len(order') /\ Len(order) + 1 \in 1 .. Len(order') /\ i < Len(order) + 1
        BY <2>2
      <3> QED
        BY <2>2, <2>4, <3>2, <3>3 DEF Before
    <2> QED
      BY <1>9, <2>3, <2>4
  <1>15. Sorting'
    BY <1>1, <1>9, <1>10, <1>11, <1>12, <1>13, <1>14 DEF Sorting
  <1>16. indeg' \in [Nodes -> Int]
    BY <1>1, <1>10
  <1> QED
    BY <1>1, <1>3, <1>4, <1>9, <1>11, <1>15, <1>16 DEF TopoInv

LEMMA RemnantsKeep == TopoInv /\ AppendRemnants => TopoInv'
  <1> SUFFICES ASSUME TopoInv, AppendRemnants PROVE TopoInv'
    OBVIOUS
  <1>1. queue = << >> /\ ~done /\ done' = TRUE /\ UNCHANGED <<wires, indeg, queue>>
    BY DEF AppendRemnants
  <1>2. order \in Seq(Nodes) /\ Sorting
    BY <1>1 DEF TopoInv
  <1>3. Range(order) = Members(order) /\ Members(order) \subseteq Nodes
    BY <1>2, RangeIsMembers
  <1> DEFINE S == Nodes \ Members(order)
  <1>4. PICK s \in SetToSeqs(S) : order' = order \o s
    BY <1>3 DEF AppendRemnants, InKeyOrder
  <1>5. IsFiniteSet(S) /\ Cardinality(S) = Cardinality(Nodes) - Cardinality(Members(order))
    <2>1. Nodes \cap Members(order) = Members(order)
      BY <1>3
    <2>2. Cardinality(S) = Cardinality(Nodes) - Cardinality(Nodes \cap Members(order))
      BY NodesFinite, FS_Difference
    <2>3. IsFiniteSet(S)
      BY NodesFinite, FS_Difference
    <2> QED
      BY <2>1, <2>2, <2>3
  <1>6. s \in Seq(S) /\ Members(s) = S /\ Len(s) = Cardinality(S)
    BY <1>4, <1>5, ListOfSet
  <1>7. /\ order' \in Seq(Nodes) /\ Len(order') = Len(order) + Len(s)
        /\ Len(order) \in Nat /\ Len(s) \in Nat
        /\ \A i \in 1 .. Len(order) : order'[i] = order[i]
        /\ \A i \in 1 .. Len(s) : order'[Len(order) + i] = s[i]
    <2>1. s \in Seq(Nodes)
      BY <1>6
    <2> QED
      BY <1>2, <1>4, <2>1
  <1>8. Range(order') = Nodes
    <2>1. ASSUME NEW i \in 1 .. Len(order) PROVE i \in 1 .. Len(order')
      BY <1>7
    <2>2. ASSUME NEW i \in 1 .. Len(s) PROVE Len(order) + i \in 1 .. Len(order')
      BY <1>7
    <2>3. Members(order) \cup S \subseteq Members(order')
      <3> HIDE DEF S
      <3> QED
        BY <1>6, <1>7, <2>1, <2>2 DEF Members
    <2>4. Range(order') = Members(order') /\ Members(order') \subseteq Nodes
      BY <1>7, RangeIsMembers
    <2> QED
      BY <2>3, <2>4
  <1>9. Len(order') = Len(Ids)
    <2>1. Cardinality(Members(order)) = Len(order)
      BY <1>2, OnceCounts DEF Sorting
    <2>2. Len(Ids) \in Nat
      BY TopoAssumption
    <2> QED
      BY <1>5, <1>6, <1>7, <2>1, <2>2, NodesFinite
  <1>10. SourcesFirst'
    <2> SUFFICES ASSUME NEW t \in Nodes, \A x \in Upstream(t) \cup {t} : ~OnCycle(x),
                        NEW f \in Sources(t)
                 PROVE  Before(f, t)'
      BY <1>1, <1>8 DEF SourcesFirst, Upstream, OnCycle, Sources
    <2>1. t \in Members(order)
      BY <1>1, HeldBack
    <2>2. PICK i, j \in 1 .. Len(order) : i < j /\ order[i] = f /\ order[j] = t
      BY <1>2, <2>1 DEF Sorting, Before
    <2>3. i \in 1 .. Len(order') /\ j \in 1 .. Len(order') /\ order'[i] = f /\ order'[j] = t
      BY <1>7, <2>2
    <2> QED
      BY <2>2, <2>3 DEF Before
  <1> QED
    BY <1>1, <1>7, <1>8, <1>9, <1>10 DEF TopoInv, AllOnce

LEMMA TopoStays == TopoInv /\ UNCHANGED topoVars => TopoInv'
  <1> SUFFICES ASSUME TopoInv, UNCHANGED topoVars PROVE TopoInv'
    OBVIOUS
  <1>1. UNCHANGED <<wires, indeg, queue, order, done>>
    BY DEF topoVars
  <1>2. Sorting => Sorting'
    BY <1>1 DEF Sorting, Sources, Before
  <1>3. SourcesFirst => SourcesFirst'
    <2>1. \A t : Sources(t)' = Sources(t) /\ \A f : Before(f, t)' <=> Before(f, t)
      BY <1>1 DEF Sources, Before
    <2>2. \A t : Upstream(t)' = Upstream(t) /\ (OnCycle(t)' <=> OnCycle(t))
      BY <2>1 DEF Upstream, OnCycle
    <2> QED
      BY <1>1, <2>1, <2>2 DEF SourcesFirst
  <1> QED
    BY <1>1, <1>2, <1>3 DEF TopoInv, AllOnce

(* For any nodes and any number of parallel wires: a node no cycle is      *)
(* upstream of is evaluated after all its sources, what the queue does not *)
(* let through hangs from a cycle, and the sort ends with each node once.  *)
THEOREM OrderSound == TopoSpec => [](SourcesFirst /\ HeldBackByCycles /\ (done => AllOnce))
  <1>1. TopoInv /\ [TopoNext]_topoVars => TopoInv'
    BY PopKeeps, RemnantsKeep, TopoStays DEF TopoNext
  <1> QED
    BY <1>1, TopoStarts, InvSuffices, PTL DEF TopoSpec

-----------------------------------------------------------------------------
(* The scene of the Python engine. *)

(* What a load finds of the state while it goes on.                        *)
LoadStates ==
    [pc    : {"idle", "read", "spawn", "hook", "view", "answer"},
     text  : [whole : BOOLEAN, nodes : SUBSET Instances, at : Nat],
     todo  : SUBSET Instances,
     size  : Nat,
     ok    : BOOLEAN,
     alone : BOOLEAN]

SceneTypes ==
    /\ disk \in [whole : BOOLEAN, nodes : SUBSET Instances, at : 1 .. MaxSceneSaves]
    /\ seen \in 1 .. disk.at
    /\ nodes \in [Instances -> [at : Nat, dead : BOOLEAN]]
    /\ cache \in [Instances -> Nat]
    /\ load \in [Threads -> LoadStates]
    /\ view \in [current : BOOLEAN, ok : BOOLEAN]
    /\ answers \in [Tabs -> [said : BOOLEAN, did : BOOLEAN, alone : BOOLEAN]]
    /\ deaths \in Nat

NodeOK(n) ==
    /\ nodes[n].at <= disk.at /\ cache[n] <= disk.at
    /\ nodes[n].dead => deaths > 0

\* A load with the engine to itself has done what it says it has.
Progress(t) ==
    /\ \A u \in Threads \ {t} : load[u].pc = "idle"
    /\ load[t].pc = "answer" => view.ok = load[t].ok
    /\ load[t].pc = "spawn" =>
          \A n \in load[t].text.nodes \ load[t].todo : nodes[n].at = load[t].text.at
    /\ load[t].pc = "hook" =>
          /\ load[t].size = Cardinality(Spawned)
          /\ \A n \in load[t].text.nodes : nodes[n].at = load[t].text.at
          /\ \A n \in Spawned \ load[t].todo : cache[n] = nodes[n].at \/ deaths > 0

LoadOK(t) ==
    /\ load[t].text.at <= disk.at
    /\ load[t].pc \in {"spawn", "hook"} => load[t].text.at >= 1
    /\ load[t].pc \in {"view", "answer"} => t # Watcher
    /\ load[t].alone /\ load[t].pc # "idle" => Progress(t)

SceneInv ==
    /\ SceneTypes
    /\ \A n \in Instances : NodeOK(n)
    /\ \A t \in Threads : LoadOK(t)
    /\ AnswerIsOwn

LoadedStep ==
    \A t \in Threads :
          load[t].pc = "hook" /\ load'[t].pc # "hook" /\ load[t].alone =>
             \A n \in load[t].text.nodes :
                nodes[n].at = load[t].text.at /\ (cache[n] = nodes[n].at \/ deaths > 0)

LEMMA SpawnedCounted == IsFiniteSet(Spawned) /\ Cardinality(Spawned) \in Nat
  BY SceneLoadAssumption, FS_Subset, FS_CardinalityType DEF Spawned

LEMMA MinIsIn ==
    ASSUME NEW T \in SUBSET Instances, T # {}
    PROVE  Min(T) \in T
  <1>1. \E x \in T : \A y \in T : x <= y
    BY SceneLoadAssumption, LeastElement
  <1> QED
    BY <1>1 DEF Min

LEMMA SceneStarts == SceneInit => SceneInv
  <1> SUFFICES ASSUME SceneInit PROVE SceneInv
    OBVIOUS
  <1>1. disk \in [whole : BOOLEAN, nodes : SUBSET Instances, at : 1 .. MaxSceneSaves] /\ disk.at = 1
    <2>1. PICK ns \in SUBSET Instances : disk \in {SceneText(TRUE, ns, 1), SceneText(FALSE, {}, 1)}
      BY DEF SceneInit
    <2>2. 1 \in 1 .. MaxSceneSaves
      BY SceneLoadAssumption
    <2>3. CASE disk = SceneText(TRUE, ns, 1)
      BY <2>2, <2>3 DEF SceneText
    <2>4. CASE disk = SceneText(FALSE, {}, 1)
      BY <2>2, <2>4 DEF SceneText
    <2> QED
      BY <2>1, <2>3, <2>4
  <1>2. Idle \in LoadStates /\ Idle.pc = "idle" /\ Idle.text.at = 0
    BY DEF Idle, LoadStates
  <1>3. /\ nodes \in [Instances -> [at : Nat, dead : BOOLEAN]]
        /\ \A n \in Instances : nodes[n].at \in {0, 1} /\ ~nodes[n].dead
    BY DEF SceneInit, Absent
  <1>4. SceneTypes
    BY <1>1, <1>2, <1>3 DEF SceneInit, SceneTypes
  <1>5. ASSUME NEW n \in Instances PROVE NodeOK(n)
    BY <1>1, <1>3 DEF SceneInit, NodeOK
  <1>6. ASSUME NEW t \in Threads PROVE LoadOK(t)
    BY <1>1, <1>2 DEF SceneInit, LoadOK
  <1>7. AnswerIsOwn
    BY DEF SceneInit, AnswerIsOwn
  <1> QED
    BY <1>4, <1>5, <1>6, <1>7 DEF SceneInv

\* What a load has done is not undone by what leaves the nodes' versions alone.
LEMMA LoadsStay ==
    ASSUME SceneInv, load' = load, view' = view, cache' = cache,
           disk'.at \in Nat, disk'.at >= disk.at, deaths' \in Nat, deaths' >= deaths,
           \A n \in Instances : nodes'[n].at = nodes[n].at
    PROVE  \A t \in Threads : LoadOK(t)'
  <1>1. Spawned' = Spawned /\ Spawned \subseteq Instances
    BY DEF Spawned
  <1>2. disk.at \in Nat /\ deaths \in Nat
    BY DEF SceneInv, SceneTypes
  <1> SUFFICES ASSUME NEW t \in Threads PROVE LoadOK(t)'
    OBVIOUS
  <1>3. LoadOK(t) /\ load[t] \in LoadStates
    BY DEF SceneInv, SceneTypes
  <1>4. load[t].text.nodes \subseteq Instances /\ load[t].text.at \in Nat
    BY <1>3 DEF LoadStates
  <1>5. ASSUME Progress(t) PROVE Progress(t)'
    BY <1>1, <1>2, <1>4, <1>5 DEF Progress
  <1> QED
    BY <1>2, <1>3, <1>4, <1>5 DEF LoadOK

\* While one load goes on, no other has the engine to itself.
LEMMA OthersKept ==
    ASSUME SceneInv, NEW t \in Threads, load[t].pc # "idle", disk' = disk,
           NEW u \in Threads, u # t, load'[u] = load[u]
    PROVE  LoadOK(u)'
  BY DEF SceneInv, LoadOK, Progress

-----------------------------------------------------------------------------
\* Loads begin

LEMMA BeginKeeps ==
    ASSUME SceneInv, NEW t \in Threads, NEW pc \in {"read", "answer"}, Begin(t, pc),
           pc = "answer" => t # Watcher, load[t].pc = "idle", disk' = disk
    PROVE  /\ load' \in [Threads -> LoadStates]
           /\ \A u \in Threads : LoadOK(u)' /\ (load[u].pc = "hook" => load'[u].pc = "hook")
  <1>1. Idle \in LoadStates /\ Idle.text.at = 0 /\ [Idle EXCEPT !.pc = pc].text.at = 0
    BY DEF Idle, LoadStates
  <1>2. load' \in [Threads -> LoadStates]
    <2>1. [Idle EXCEPT !.pc = pc, !.alone = pc = "read" /\ \A v \in Threads \ {t} : load[v].pc = "idle"]
            \in LoadStates
      BY DEF Idle, LoadStates
    <2>2. \A u \in Threads : [load[u] EXCEPT !.alone = FALSE] \in LoadStates
      <3>1. ASSUME NEW r \in LoadStates PROVE [r EXCEPT !.alone = FALSE] \in LoadStates
        BY DEF LoadStates
      <3> QED
        BY <3>1 DEF SceneInv, SceneTypes
    <2> QED
      BY <2>1, <2>2 DEF Begin
  <1>3. /\ load'[t].text.at = 0 /\ load'[t].pc = pc
        /\ load'[t].alone => pc = "read" /\ \A v \in Threads \ {t} : load[v].pc = "idle"
    BY <1>1 DEF Begin, SceneInv, SceneTypes, Idle
  <1>4. ASSUME NEW u \in Threads, u # t
        PROVE  load'[u].text = load[u].text /\ load'[u].pc = load[u].pc /\ ~load'[u].alone
    <2>1. load[u] \in LoadStates /\ load'[u] = [load[u] EXCEPT !.alone = FALSE]
      BY <1>4 DEF Begin, SceneInv, SceneTypes
    <2> QED
      BY <2>1 DEF LoadStates
  <1>5. LoadOK(t)'
    <2>1. disk'.at \in Nat /\ disk'.at >= 1
      BY DEF SceneInv, SceneTypes
    <2>2. load'[t].alone => Progress(t)'
      BY <1>3, <1>4 DEF Progress
    <2> QED
      BY <1>3, <2>1, <2>2, 0 <= disk'.at DEF LoadOK
  <1>6. ASSUME NEW u \in Threads, u # t PROVE LoadOK(u)'
    BY <1>4, <1>6 DEF LoadOK, SceneInv
  <1> QED
    BY <1>2, <1>4, <1>5, <1>6

LEMMA PollKeeps == SceneInv /\ Poll => SceneInv' /\ LoadedStep
  <1> SUFFICES ASSUME SceneInv, Poll PROVE SceneInv' /\ LoadedStep
    OBVIOUS
  <1>1. Watcher \in Threads
    BY DEF Threads
  <1>2. /\ load' \in [Threads -> LoadStates]
        /\ \A u \in Threads : LoadOK(u)' /\ (load[u].pc = "hook" => load'[u].pc = "hook")
    <2>1. CASE view.current
      BY <1>1, <2>1, BeginKeeps DEF Poll
    <2>2. CASE ~view.current
      <3>1. UNCHANGED <<load, disk, nodes, cache, view, deaths>>
        BY <2>2 DEF Poll
      <3> QED
        BY <3>1, LoadsStay DEF SceneInv, SceneTypes
    <2> QED
      BY <2>1, <2>2
  <1>3. SceneTypes'
    <2>1. UNCHANGED <<disk, nodes, cache, view, answers, deaths>> /\ seen' = disk.at
      BY DEF Poll
    <2>2. disk.at \in 1 .. disk.at
      BY DEF SceneInv, SceneTypes
    <2> QED
      BY <1>2, <2>1, <2>2 DEF SceneInv, SceneTypes
  <1>4. (\A n \in Instances : NodeOK(n)') /\ AnswerIsOwn'
    BY DEF Poll, SceneInv, NodeOK, AnswerIsOwn
  <1>5. LoadedStep
    BY <1>2 DEF LoadedStep
  <1> QED
    BY <1>2, <1>3, <1>4, <1>5 DEF SceneInv

LEMMA CommandKeeps ==
    ASSUME SceneInv, NEW t \in Tabs, Command(t)
    PROVE  SceneInv' /\ LoadedStep
  <1>1. t \in Threads /\ t # Watcher
    BY SceneLoadAssumption DEF Threads
  <1>2. /\ load' \in [Threads -> LoadStates]
        /\ \A u \in Threads : LoadOK(u)' /\ (load[u].pc = "hook" => load'[u].pc = "hook")
    <2>1. CASE Live(Loader)
      BY <1>1, <2>1, BeginKeeps DEF Command
    <2>2. CASE ~Live(Loader)
      BY <1>1, <2>2, BeginKeeps DEF Command
    <2> QED
      BY <2>1, <2>2
  <1>3. SceneTypes'
    BY <1>2 DEF Command, SceneInv, SceneTypes
  <1>4. (\A n \in Instances : NodeOK(n)') /\ AnswerIsOwn'
    BY DEF Command, SceneInv, NodeOK, AnswerIsOwn
  <1>5. LoadedStep
    BY <1>2 DEF LoadedStep
  <1> QED
    BY <1>2, <1>3, <1>4, <1>5 DEF SceneInv

-----------------------------------------------------------------------------
\* Loads go on

LEMMA ReadKeeps ==
    ASSUME SceneInv, NEW t \in Threads, Read(t)
    PROVE  SceneInv' /\ LoadedStep
  <1>1. /\ load[t].pc = "read" /\ load[t] \in LoadStates
        /\ UNCHANGED <<disk, nodes, cache, seen, view, answers, deaths, commands>>
    BY DEF Read, SceneInv, SceneTypes
  <1>2. disk \in [whole : BOOLEAN, nodes : SUBSET Instances, at : Nat] /\ disk.at >= 1
    BY DEF SceneInv, SceneTypes
  <1>3. PICK r \in LoadStates :
          /\ load' = [load EXCEPT ![t] = r]
          /\ \/ r.pc = "spawn" /\ r.text = disk /\ r.todo = disk.nodes /\ r.alone = load[t].alone
             \/ r.pc = "view" /\ t # Watcher /\ r.text = load[t].text /\ r.alone = load[t].alone
             \/ r = Idle
    <2>1. CASE disk.whole
      <3> DEFINE r == [load[t] EXCEPT !.pc = "spawn", !.text = disk, !.todo = disk.nodes]
      <3>1. r \in LoadStates /\ r.pc = "spawn" /\ r.text = disk /\ r.todo = disk.nodes /\ r.alone = load[t].alone
        BY <1>1, <1>2 DEF LoadStates
      <3>2. load' = [load EXCEPT ![t] = r]
        BY <2>1 DEF Read
      <3> HIDE DEF r
      <3> QED
        BY <3>1, <3>2
    <2>2. CASE ~disk.whole /\ t = Watcher
      <3>1. Idle \in LoadStates
        BY DEF Idle, LoadStates
      <3> QED
        BY <2>2, <3>1 DEF Read, Ends
    <2>3. CASE ~disk.whole /\ t # Watcher
      <3> DEFINE r == [load[t] EXCEPT !.pc = "view", !.ok = FALSE]
      <3>1. r \in LoadStates /\ r.pc = "view" /\ r.text = load[t].text /\ r.alone = load[t].alone
        BY <1>1 DEF LoadStates
      <3>2. load' = [load EXCEPT ![t] = r]
        BY <2>3 DEF Read, Ends
      <3> HIDE DEF r
      <3> QED
        BY <2>3, <3>1, <3>2
    <2> QED
      BY <2>1, <2>2, <2>3
  <1>4. load' \in [Threads -> LoadStates] /\ load'[t] = r
        /\ \A u \in Threads : u # t => load'[u] = load[u]
    BY <1>3 DEF SceneInv, SceneTypes
  <1>5. LoadOK(t)'
    <2>1. load[t].text.at <= disk.at /\ (load[t].alone => Progress(t))
      BY <1>1 DEF SceneInv, LoadOK
    <2>2. Idle.pc = "idle" /\ Idle.text.at = 0
      BY DEF Idle
    <2> QED
      BY <1>1, <1>2, <1>3, <1>4, <2>1, <2>2 DEF LoadOK, Progress
  <1>6. \A u \in Threads : LoadOK(u)'
    BY <1>1, <1>4, <1>5, OthersKept
  <1>7. SceneTypes' /\ (\A n \in Instances : NodeOK(n)') /\ AnswerIsOwn'
    BY <1>1, <1>4 DEF SceneInv, SceneTypes, NodeOK, AnswerIsOwn
  <1>8. LoadedStep
    BY <1>1, <1>4 DEF LoadedStep
  <1> QED
    BY <1>6, <1>7, <1>8 DEF SceneInv

LEMMA SpawnKeeps ==
    ASSUME SceneInv, NEW t \in Threads, Spawn(t)
    PROVE  SceneInv' /\ LoadedStep
  <1> DEFINE n == Min(load[t].todo)
             at == load[t].text.at
             r == [load[t] EXCEPT !.todo = @ \ {n}]
  <1>1. /\ load[t].pc = "spawn" /\ load[t].todo # {}
        /\ load[t] \in LoadStates
        /\ nodes' = [nodes EXCEPT ![n] = [at |-> at, dead |-> FALSE]]
        /\ load' = [load EXCEPT ![t] = r]
        /\ UNCHANGED <<disk, cache, seen, view, answers, deaths>>
    BY DEF Spawn, SceneInv, SceneTypes
  <1>2. n \in load[t].todo /\ n \in Instances
    BY <1>1, MinIsIn DEF LoadStates
  <1>3. r \in LoadStates /\ r.todo = load[t].todo \ {n} /\ r.pc = "spawn" /\ r.text = load[t].text
        /\ r.alone = load[t].alone
    BY <1>1 DEF LoadStates
  <1>4. at \in Nat /\ 1 <= at /\ at <= disk.at /\ (load[t].alone => Progress(t))
    BY <1>1 DEF SceneInv, LoadOK, LoadStates
  <1> HIDE DEF n, at, r
  <1>5. /\ load' \in [Threads -> LoadStates] /\ load'[t] = r
        /\ \A u \in Threads : u # t => load'[u] = load[u]
    BY <1>1, <1>3 DEF SceneInv, SceneTypes
  <1>6. /\ nodes' \in [Instances -> [at : Nat, dead : BOOLEAN]]
        /\ nodes'[n].at = at /\ ~nodes'[n].dead
        /\ \A m \in Instances : m # n => nodes'[m] = nodes[m]
    BY <1>1, <1>2, <1>4 DEF SceneInv, SceneTypes
  <1>7. LoadOK(t)'
    <2>1. ASSUME load[t].alone, NEW m \in r.text.nodes \ r.todo
          PROVE  nodes'[m].at = at
      BY <1>1, <1>2, <1>3, <1>4, <1>6, <2>1 DEF Progress, at, LoadStates
    <2>2. ASSUME load[t].alone PROVE Progress(t)'
      BY <1>1, <1>3, <1>4, <1>5, <2>1, <2>2 DEF Progress, at
    <2> QED
      BY <1>1, <1>3, <1>4, <1>5, <2>2 DEF LoadOK, at
  <1>8. \A u \in Threads : LoadOK(u)'
    BY <1>1, <1>5, <1>7, OthersKept
  <1>9. SceneTypes'
    BY <1>1, <1>5, <1>6 DEF SceneInv, SceneTypes
  <1>10. (\A m \in Instances : NodeOK(m)') /\ AnswerIsOwn'
    BY <1>1, <1>4, <1>6 DEF SceneInv, NodeOK, AnswerIsOwn
  <1>11. LoadedStep
    BY <1>1, <1>3, <1>5 DEF LoadedStep
  <1> QED
    BY <1>8, <1>9, <1>10, <1>11 DEF SceneInv

LEMMA PrecomputeKeeps ==
    ASSUME SceneInv, NEW t \in Threads, Precompute(t)
    PROVE  SceneInv' /\ LoadedStep
  <1> DEFINE r == [load[t] EXCEPT !.pc = "hook", !.todo = Spawned, !.size = Cardinality(Spawned)]
  <1>1. /\ load[t].pc = "spawn" /\ load[t].todo = {}
        /\ load[t] \in LoadStates
        /\ load' = [load EXCEPT ![t] = r]
        /\ UNCHANGED <<disk, nodes, cache, seen, view, answers, deaths>>
    BY DEF Precompute, SceneInv, SceneTypes
  <1>2. Spawned \in SUBSET Instances
    BY DEF Spawned
  <1>3. r \in LoadStates /\ r.todo = Spawned /\ r.size = Cardinality(Spawned)
        /\ r.pc = "hook" /\ r.text = load[t].text /\ r.alone = load[t].alone
    BY <1>1, <1>2, SpawnedCounted DEF LoadStates
  <1>4. LoadOK(t) /\ (load[t].alone => Progress(t))
    BY <1>1 DEF SceneInv, LoadOK
  <1> HIDE DEF r
  <1>5. /\ load' \in [Threads -> LoadStates] /\ load'[t] = r
        /\ \A u \in Threads : u # t => load'[u] = load[u]
    BY <1>1, <1>3 DEF SceneInv, SceneTypes
  <1>6. Spawned' = Spawned
    BY <1>1 DEF Spawned
  <1>7. LoadOK(t)'
    BY <1>1, <1>3, <1>4, <1>5, <1>6 DEF LoadOK, Progress
  <1>8. \A u \in Threads : LoadOK(u)'
    BY <1>1, <1>5, <1>7, OthersKept
  <1>9. SceneTypes' /\ (\A n \in Instances : NodeOK(n)') /\ AnswerIsOwn'
    BY <1>1, <1>5 DEF SceneInv, SceneTypes, NodeOK, AnswerIsOwn
  <1>10. LoadedStep
    BY <1>1, <1>5 DEF LoadedStep
  <1> QED
    BY <1>8, <1>9, <1>10 DEF SceneInv

LEMMA HookKeeps ==
    ASSUME SceneInv, NEW t \in Threads, Hook(t)
    PROVE  SceneInv' /\ LoadedStep
  <1> DEFINE n == Min(load[t].todo)
             r == [load[t] EXCEPT !.todo = @ \ {n}]
  <1>1. /\ load[t].pc = "hook" /\ load[t].todo # {}
        /\ load[t] \in LoadStates
        /\ cache' = IF nodes[n].dead THEN cache ELSE [cache EXCEPT ![n] = nodes[n].at]
        /\ load' = [load EXCEPT ![t] = r]
        /\ UNCHANGED <<disk, nodes, seen, view, answers, deaths>>
    BY DEF Hook, SceneInv, SceneTypes
  <1>2. n \in load[t].todo /\ n \in Instances
    BY <1>1, MinIsIn DEF LoadStates
  <1>3. r \in LoadStates /\ r.todo = load[t].todo \ {n} /\ r.size = load[t].size
        /\ r.pc = "hook" /\ r.text = load[t].text /\ r.alone = load[t].alone
    BY <1>1 DEF LoadStates
  <1>4. LoadOK(t) /\ (load[t].alone => Progress(t)) /\ NodeOK(n)
    BY <1>1, <1>2 DEF SceneInv, LoadOK
  <1> HIDE DEF n, r
  <1>5. /\ load' \in [Threads -> LoadStates] /\ load'[t] = r
        /\ \A u \in Threads : u # t => load'[u] = load[u]
    BY <1>1, <1>3 DEF SceneInv, SceneTypes
  <1>6. /\ cache' \in [Instances -> Nat]
        /\ cache'[n] = nodes[n].at \/ deaths > 0
        /\ cache'[n] \in {cache[n], nodes[n].at}
        /\ \A m \in Instances : m # n => cache'[m] = cache[m]
    BY <1>1, <1>2, <1>4 DEF SceneInv, SceneTypes, NodeOK
  <1>7. Spawned' = Spawned /\ Spawned \subseteq Instances
    BY <1>1 DEF Spawned
  <1>8. LoadOK(t)'
    <2>1. ASSUME load[t].alone, NEW m \in Spawned \ r.todo
          PROVE  cache'[m] = nodes[m].at \/ deaths > 0
      BY <1>1, <1>3, <1>4, <1>6, <1>7, <2>1 DEF Progress
    <2>2. ASSUME load[t].alone PROVE Progress(t)'
      BY <1>1, <1>3, <1>4, <1>5, <1>7, <2>1, <2>2 DEF Progress
    <2> QED
      BY <1>1, <1>3, <1>4, <1>5, <2>2 DEF LoadOK
  <1>9. \A u \in Threads : LoadOK(u)'
    BY <1>1, <1>5, <1>8, OthersKept
  <1>10. SceneTypes'
    BY <1>1, <1>5, <1>6 DEF SceneInv, SceneTypes
  <1>11. (\A m \in Instances : NodeOK(m)') /\ AnswerIsOwn'
    BY <1>1, <1>6 DEF SceneInv, NodeOK, AnswerIsOwn
  <1>12. LoadedStep
    BY <1>1, <1>3, <1>5 DEF LoadedStep
  <1> QED
    BY <1>9, <1>10, <1>11, <1>12 DEF SceneInv

LEMMA HooksEndKeeps ==
    ASSUME SceneInv, NEW t \in Threads, HooksEnd(t)
    PROVE  SceneInv' /\ LoadedStep
  <1>1. /\ load[t].pc = "hook" /\ (Grown(t) \/ load[t].todo = {})
        /\ load[t] \in LoadStates
        /\ UNCHANGED <<disk, nodes, cache, seen, view, answers, deaths>>
    BY DEF HooksEnd, SceneInv, SceneTypes
  <1>2. PICK r \in LoadStates :
          /\ load' = [load EXCEPT ![t] = r]
          /\ r = Idle \/ (/\ r.pc = "view" /\ t # Watcher /\ r.text = load[t].text
                          /\ r.alone = load[t].alone)
    <2>1. CASE t = Watcher
      <3>1. Idle \in LoadStates
        BY DEF Idle, LoadStates
      <3> QED
        BY <2>1, <3>1 DEF HooksEnd, Ends
    <2>2. CASE t # Watcher
      <3> DEFINE r == [load[t] EXCEPT !.pc = "view", !.ok = ~Grown(t)]
      <3>1. r \in LoadStates /\ r.pc = "view" /\ r.text = load[t].text /\ r.alone = load[t].alone
        BY <1>1 DEF LoadStates, Grown
      <3>2. load' = [load EXCEPT ![t] = r]
        BY <2>2 DEF HooksEnd, Ends
      <3> HIDE DEF r
      <3> QED
        BY <2>2, <3>1, <3>2
    <2> QED
      BY <2>1, <2>2
  <1>3. LoadOK(t) /\ (load[t].alone => Progress(t))
    BY <1>1 DEF SceneInv, LoadOK
  <1>4. /\ load' \in [Threads -> LoadStates] /\ load'[t] = r
        /\ \A u \in Threads : u # t => load'[u] = load[u]
    BY <1>2 DEF SceneInv, SceneTypes
  <1>5. LoadOK(t)'
    <2>1. Idle.pc = "idle" /\ Idle.text.at = 0 /\ disk.at \in Nat /\ 0 <= disk.at
      BY DEF Idle, SceneInv, SceneTypes
    <2> QED
      BY <1>1, <1>2, <1>3, <1>4, <2>1 DEF LoadOK, Progress
  <1>6. \A u \in Threads : LoadOK(u)'
    BY <1>1, <1>4, <1>5, OthersKept
  <1>7. SceneTypes' /\ (\A n \in Instances : NodeOK(n)') /\ AnswerIsOwn'
    BY <1>1, <1>4 DEF SceneInv, SceneTypes, NodeOK, AnswerIsOwn
  <1>8. LoadedStep
    <2> SUFFICES ASSUME load[t].alone, NEW n \in load[t].text.nodes
                 PROVE  nodes[n].at = load[t].text.at /\ (cache[n] = nodes[n].at \/ deaths > 0)
      BY <1>4 DEF LoadedStep
    <2>1. load[t].todo = {}
      BY <1>1, <1>3 DEF Progress, Grown
    <2>2. n \in Instances /\ nodes[n].at = load[t].text.at /\ load[t].text.at >= 1
      BY <1>1, <1>3 DEF Progress, LoadOK, LoadStates
    <2>3. n \in Spawned
      BY <2>2 DEF Spawned
    <2> QED
      BY <1>1, <1>3, <2>1, <2>2, <2>3 DEF Progress
  <1> QED
    BY <1>6, <1>7, <1>8 DEF SceneInv

-----------------------------------------------------------------------------
\* Answers, and what is no load

LEMMA MergeKeeps ==
    ASSUME SceneInv, NEW t \in Tabs, Merge(t)
    PROVE  SceneInv' /\ LoadedStep
  <1> DEFINE r == [load[t] EXCEPT !.pc = "answer"]
  <1>1. t \in Threads /\ t # Watcher
    BY SceneLoadAssumption DEF Threads
  <1>2. /\ load[t].pc = "view" /\ load[t] \in LoadStates
        /\ load' = [load EXCEPT ![t] = r]
        /\ view' = [current |-> view.current \/ load[t].ok, ok |-> load[t].ok]
        /\ UNCHANGED <<disk, nodes, cache, seen, answers, deaths>>
    BY <1>1 DEF Merge, SceneInv, SceneTypes
  <1>3. /\ r \in LoadStates /\ r.pc = "answer" /\ r.ok = load[t].ok
        /\ r.text = load[t].text /\ r.alone = load[t].alone
    BY <1>2 DEF LoadStates
  <1> HIDE DEF r
  <1>4. /\ load' \in [Threads -> LoadStates] /\ load'[t] = r
        /\ \A u \in Threads : u # t => load'[u] = load[u]
    BY <1>1, <1>2, <1>3 DEF SceneInv, SceneTypes
  <1>5. LoadOK(t) /\ (load[t].alone => Progress(t))
    BY <1>1, <1>2 DEF SceneInv, LoadOK
  <1>6. LoadOK(t)'
    BY <1>1, <1>2, <1>3, <1>4, <1>5 DEF LoadOK, Progress
  <1>7. \A u \in Threads : LoadOK(u)'
    BY <1>1, <1>2, <1>4, <1>6, OthersKept
  <1>8. view' \in [current : BOOLEAN, ok : BOOLEAN]
    BY <1>1, <1>2 DEF SceneInv, SceneTypes, LoadStates
  <1>9. SceneTypes' /\ (\A n \in Instances : NodeOK(n)') /\ AnswerIsOwn'
    BY <1>2, <1>4, <1>8 DEF SceneInv, SceneTypes, NodeOK, AnswerIsOwn
  <1>10. LoadedStep
    BY <1>2, <1>3, <1>4 DEF LoadedStep
  <1> QED
    BY <1>7, <1>9, <1>10 DEF SceneInv

LEMMA AnswerKeeps ==
    ASSUME SceneInv, NEW t \in Tabs, Answer(t)
    PROVE  SceneInv' /\ LoadedStep
  <1> DEFINE a == [said |-> view.ok, did |-> load[t].ok, alone |-> load[t].alone]
  <1>1. t \in Threads
    BY DEF Threads
  <1>2. /\ load[t].pc = "answer" /\ load[t] \in LoadStates
        /\ load' = [load EXCEPT ![t] = Idle]
        /\ answers' = [answers EXCEPT ![t] = a]
        /\ UNCHANGED <<disk, nodes, cache, seen, view, deaths>>
    BY <1>1 DEF Answer, SceneInv, SceneTypes
  <1>3. Idle \in LoadStates /\ Idle.pc = "idle" /\ Idle.text.at = 0
    BY DEF Idle, LoadStates
  <1>4. /\ load' \in [Threads -> LoadStates] /\ load'[t] = Idle
        /\ \A u \in Threads : u # t => load'[u] = load[u]
    BY <1>1, <1>2, <1>3 DEF SceneInv, SceneTypes
  <1>5. LoadOK(t)'
    BY <1>2, <1>3, <1>4, 0 <= disk.at DEF LoadOK, SceneInv, SceneTypes
  <1>6. \A u \in Threads : LoadOK(u)'
    BY <1>1, <1>2, <1>4, <1>5, OthersKept
  <1>7. /\ a \in [said : BOOLEAN, did : BOOLEAN, alone : BOOLEAN]
        /\ a.alone => a.said = a.did
    <2>1. load[t].alone => Progress(t)
      BY <1>1, <1>2 DEF SceneInv, LoadOK
    <2> QED
      BY <1>2, <2>1 DEF Progress, SceneInv, SceneTypes, LoadStates
  <1> HIDE DEF a
  <1>8. /\ answers' \in [Tabs -> [said : BOOLEAN, did : BOOLEAN, alone : BOOLEAN]]
        /\ AnswerIsOwn'
    BY <1>2, <1>7 DEF SceneInv, SceneTypes, AnswerIsOwn
  <1>9. SceneTypes' /\ (\A n \in Instances : NodeOK(n)')
    BY <1>2, <1>4, <1>8 DEF SceneInv, SceneTypes, NodeOK
  <1>10. LoadedStep
    BY <1>2, <1>4 DEF LoadedStep
  <1> QED
    BY <1>6, <1>8, <1>9, <1>10 DEF SceneInv

LEMMA SaveKeeps ==
    ASSUME SceneInv, NEW ns \in SUBSET Instances, NEW whole \in BOOLEAN, SaveScene(ns, whole)
    PROVE  SceneInv' /\ LoadedStep
  <1>1. /\ disk' \in [whole : BOOLEAN, nodes : SUBSET Instances, at : 1 .. MaxSceneSaves]
        /\ disk'.at = disk.at + 1 /\ disk.at \in Nat
        /\ UNCHANGED <<nodes, cache, seen, load, view, answers, deaths>>
    BY SceneLoadAssumption DEF SaveScene, SceneText, SceneInv, SceneTypes
  <1>2. \A t \in Threads : LoadOK(t)'
    BY <1>1, LoadsStay DEF SceneInv, SceneTypes
  <1>3. SceneTypes' /\ (\A n \in Instances : NodeOK(n)') /\ AnswerIsOwn'
    BY <1>1 DEF SceneInv, SceneTypes, NodeOK, AnswerIsOwn
  <1>4. LoadedStep
    BY <1>1 DEF LoadedStep
  <1> QED
    BY <1>2, <1>3, <1>4 DEF SceneInv

LEMMA MarkKeeps ==
    ASSUME SceneInv, NEW n \in Instances, EmitFails(n) \/ Restore(n)
    PROVE  SceneInv' /\ LoadedStep
  <1>1. /\ UNCHANGED <<disk, cache, seen, load, view, answers>>
        /\ deaths' \in Nat /\ deaths' >= deaths
    BY DEF EmitFails, Restore, SceneInv, SceneTypes
  <1>2. /\ nodes' \in [Instances -> [at : Nat, dead : BOOLEAN]]
        /\ \A m \in Instances : /\ nodes'[m].at = nodes[m].at
                                /\ nodes'[m].dead => nodes[m].dead \/ deaths' > 0
    <2> PICK d \in BOOLEAN : nodes' = [nodes EXCEPT ![n].dead = d] /\ (d => deaths' = deaths + 1)
      BY DEF EmitFails, Restore
    <2>1. nodes \in [Instances -> [at : Nat, dead : BOOLEAN]] /\ deaths \in Nat
      BY DEF SceneInv, SceneTypes
    <2>2. nodes'[n] = [at |-> nodes[n].at, dead |-> d]
      BY <2>1
    <2>3. ASSUME NEW m \in Instances, m # n PROVE nodes'[m] = nodes[m]
      BY <2>1, <2>3
    <2>4. nodes' \in [Instances -> [at : Nat, dead : BOOLEAN]]
      BY <2>1
    <2> QED
      BY <2>1, <2>2, <2>3, <2>4
  <1>3. \A t \in Threads : LoadOK(t)'
    BY <1>1, <1>2, LoadsStay DEF SceneInv, SceneTypes
  <1>4. SceneTypes' /\ AnswerIsOwn'
    BY <1>1, <1>2 DEF SceneInv, SceneTypes, AnswerIsOwn
  <1>5. ASSUME NEW m \in Instances PROVE NodeOK(m)'
    BY <1>1, <1>2 DEF SceneInv, SceneTypes, NodeOK
  <1>6. LoadedStep
    BY <1>1 DEF LoadedStep
  <1> QED
    BY <1>3, <1>4, <1>5, <1>6 DEF SceneInv

-----------------------------------------------------------------------------
LEMMA SceneKeeps == SceneInv /\ [SceneNext]_sceneVars => SceneInv' /\ LoadedStep
  <1> SUFFICES ASSUME SceneInv, [SceneNext]_sceneVars PROVE SceneInv' /\ LoadedStep
    OBVIOUS
  <1>1. CASE UNCHANGED sceneVars
    <2>1. UNCHANGED <<disk, nodes, cache, seen, load, view, answers, deaths>>
      BY <1>1 DEF sceneVars
    <2>2. \A t \in Threads : LoadOK(t)'
      BY <2>1, LoadsStay DEF SceneInv, SceneTypes
    <2> QED
      BY <2>1, <2>2 DEF SceneInv, SceneTypes, NodeOK, AnswerIsOwn, LoadedStep
  <1>2. ASSUME NEW t \in Threads, Step(t) PROVE SceneInv' /\ LoadedStep
    BY <1>2, ReadKeeps, SpawnKeeps, PrecomputeKeeps, HookKeeps, HooksEndKeeps DEF Step
  <1>3. ASSUME NEW t \in Tabs, Command(t) \/ Merge(t) \/ Answer(t) PROVE SceneInv' /\ LoadedStep
    BY <1>3, CommandKeeps, MergeKeeps, AnswerKeeps
  <1> QED
    BY <1>1, <1>2, <1>3, SaveKeeps, PollKeeps, MarkKeeps DEF SceneNext

(* However saves, loads of the watcher and of the tabs, and failures of     *)
(* emit interleave: a load with the engine to itself leaves each node of    *)
(* its file as the file has it, and its tab is told what it did.            *)
THEOREM LoadsSound == SceneSpec => [](SceneTypeOK /\ AnswerIsOwn) /\ LoadedExactly
  <1>1. SceneInv => SceneTypeOK /\ AnswerIsOwn
    BY DEF SceneInv, SceneTypes, NodeOK, LoadOK, LoadStates, SceneTypeOK
  <1>2. SceneInv /\ [SceneNext]_sceneVars => [LoadedStep]_sceneVars
    BY SceneKeeps
  <1>3. SceneSpec => []SceneInv
    BY SceneStarts, SceneKeeps, PTL DEF SceneSpec
  <1>4. SceneSpec => [][LoadedStep]_sceneVars
    BY <1>2, <1>3, PTL DEF SceneSpec
  <1> QED
    BY <1>1, <1>3, <1>4, PTL DEF LoadedExactly, LoadedStep

-----------------------------------------------------------------------------
(* The node types of the Python engine and their reload. *)

Texts == [file : Nat, runs : {"whole", "late", "bare", "gone"}, name : Names \cup {NoName}, at : Nat]
TextOf(f, x) == x \in Texts /\ x.file = f /\ (Declares(x) => x.name \in Names)
Whys  == {"early", "broken", "blocked", "twin", "renamed"}

FilesTyped ==
    /\ clock \in 1 .. MaxSaves
    /\ source \in [Files -> Texts] /\ modules \in [Files -> Texts]
    /\ mtimes \in [Files -> Nat] /\ named \in [Files -> Names \cup {NoName}]
    /\ \A f \in Files :
          /\ TextOf(f, source[f]) /\ TextOf(f, modules[f])
          /\ source[f].at <= clock /\ mtimes[f] <= clock
          /\ Exists(f) => source[f].at >= 1

PollTyped ==
    /\ poll \in [at : {"rest", "scan", "act"}, glob : SUBSET Files, todo : SUBSET Files,
                 file : Nat, mtime : Nat]
    /\ poll.todo \subseteq poll.glob
    /\ poll.mtime <= clock

RegistryTyped ==
    /\ types \in [Names -> Texts]
    /\ \A n \in Names :
          types[n].runs = "gone" \/ (Declares(types[n]) /\ types[n].name = n /\ types[n].file \in Files)

\* Two files that have a name in common are known to have.
TwinsKnown ==
    /\ hinders \in [Files -> SUBSET Whys]
    /\ \A f \in Files : \A g \in Files \ {f} :
          NamesOf(modules, named, f) \cap NamesOf(modules, named, g) # {} => "twin" \in hinders[f]

TypesInv == FilesTyped /\ PollTyped /\ RegistryTyped /\ TwinsKnown /\ RegistryMatches

OwnTypeStep ==
    \A n \in Names :
        types'[n] # types[n] => types'[n].file = poll.file \/ "twin" \in hinders[poll.file]

LEMMA HinderedTyped ==
    ASSUME NEW mods, NEW nms
    PROVE  /\ \A f \in Files : Hindered(mods, nms)[f] \subseteq Whys
           /\ \A f \in Files : \A g \in Files \ {f} :
                NamesOf(mods, nms, f) \cap NamesOf(mods, nms, g) # {} => "twin" \in Hindered(mods, nms)[f]
  BY DEF Hindered, Whys

LEMMA MinOfFiles ==
    ASSUME NEW T \in SUBSET Files, T # {}
    PROVE  Min(T) \in T
  <1>1. \E x \in T : \A y \in T : x <= y
    <2>1. T \subseteq Nat
      BY NodeTypesAssumption DEF Files
    <2> QED
      BY <2>1, LeastElement
  <1> QED
    BY <1>1 DEF Min

LEMMA MaxOfFiles ==
    ASSUME NEW T \in SUBSET Files, T # {}
    PROVE  Max(T) \in T
  <1> DEFINE U == {FileCount - x : x \in T}
  <1>1. FileCount \in Nat /\ T \subseteq 1 .. FileCount
    BY NodeTypesAssumption DEF Files
  <1>2. U \subseteq Nat /\ U # {}
    <2>1. \A x \in T : FileCount - x \in Nat
      BY <1>1
    <2> QED
      BY <2>1
  <1> HIDE DEF U
  <1>3. PICK u \in U : \A v \in U : u <= v
    BY <1>2, LeastElement
  <1>4. PICK x \in T : u = FileCount - x
    BY DEF U
  <1>5. ASSUME NEW y \in T PROVE x >= y
    <2>1. FileCount - y \in U
      BY DEF U
    <2>2. u <= FileCount - y
      BY <1>3, <2>1
    <2>3. x \in Nat /\ y \in Nat
      BY <1>1
    <2> QED
      BY <1>1, <1>4, <2>2, <2>3
  <1> QED
    BY <1>5 DEF Max

LEMMA TextsTyped ==
    ASSUME NEW f \in Files, NEW at \in Nat, NEW x \in {Gone(f), Bare(f)} \cup TextsOf(f, at)
    PROVE  TextOf(f, x) /\ x.at \in {0, at} /\ (x.runs = "gone" \/ x.at = at \/ x = Bare(f))
  <1>1. f \in Nat
    BY DEF Files
  <1>2. CASE x = Gone(f) \/ x = Bare(f)
    BY <1>1, <1>2 DEF Gone, Bare, Text, TextOf, Texts, Declares
  <1>3. CASE x \in TextsOf(f, at)
    <2>1. CASE x = Text(f, "bare", NoName, at)
      BY <1>1, <2>1 DEF Text, TextOf, Texts, Declares
    <2>2. ASSUME NEW runs \in {"whole", "late"}, NEW n \in Names, x = Text(f, runs, n, at)
          PROVE  TextOf(f, x) /\ x.at = at
      BY <1>1, <2>2 DEF Text, TextOf, Texts, Declares
    <2> QED
      BY <1>3, <2>1, <2>2 DEF TextsOf, Text
  <1> QED
    BY <1>2, <1>3

LEMMA TypesStart == TypesInit => TypesInv
  <1> SUFFICES ASSUME TypesInit PROVE TypesInv
    OBVIOUS
  <1>1. ASSUME NEW f \in Files
        PROVE  TextOf(f, source[f]) /\ source[f].at \in {0, 1} /\ (Exists(f) => source[f].at = 1)
    <2>1. source[f].file = f /\ source[f] \in UNION {{Gone(g)} \cup TextsOf(g, 1) : g \in Files}
      BY DEF TypesInit
    <2>2. PICK g \in Files : source[f] \in {Gone(g)} \cup TextsOf(g, 1)
      BY <2>1
    <2>3. TextOf(g, source[f])
      BY <2>2, TextsTyped
    <2>4. g = f
      BY <2>1, <2>3 DEF TextOf
    <2>5. source[f] # Bare(f) \/ source[f].at = 1
      BY <2>2, <2>4 DEF Bare, Gone, Text, TextsOf
    <2> QED
      BY <2>2, <2>4, <2>5, TextsTyped DEF Exists
  <1>2. source \in [Files -> Texts]
    BY <1>1 DEF TypesInit, TextOf
  <1>3. FilesTyped
    <2>1. 1 \in 1 .. MaxSaves
      BY NodeTypesAssumption
    <2> QED
      BY <1>1, <1>2, <2>1 DEF TypesInit, FilesTyped
  <1>4. PollTyped
    BY <1>3 DEF TypesInit, PollTyped, FilesTyped, Resting
  <1>5. ASSUME NEW n \in Names
        PROVE  \/ types[n] = Gone(0)
               \/ \E f \in Files : types[n] = source[f] /\ source[f].name = n /\ source[f].runs = "whole"
    <2> DEFINE of == {f \in Files : source[f].name = n /\ source[f].runs = "whole"}
    <2>1. types[n] = IF of = {} THEN Gone(0) ELSE source[Max(of)]
      BY DEF TypesInit
    <2>2. of # {} => Max(of) \in of
      BY MaxOfFiles
    <2> QED
      BY <2>1, <2>2
  <1>6. RegistryTyped
    <2>1. Gone(0) \in Texts /\ Gone(0).runs = "gone"
      BY DEF Gone, Text, Texts
    <2>2. types \in [Names -> Texts]
      <3>1. \A n \in Names : types[n] \in Texts
        BY <1>2, <1>5, <2>1
      <3> QED
        BY <3>1 DEF TypesInit
    <2> QED
      BY <1>1, <1>5, <2>1, <2>2 DEF RegistryTyped, TextOf, Declares
  <1>7. TwinsKnown
    <2>1. hinders = Hindered(modules, named)
      BY DEF TypesInit
    <2>2. hinders \in [Files -> SUBSET Whys]
      BY <2>1, HinderedTyped DEF Hindered
    <2> QED
      BY <2>1, <2>2, HinderedTyped DEF TwinsKnown
  <1>8. RegistryMatches
    <2> SUFFICES ASSUME NEW n \in Names, types[n].runs # "gone" PROVE modules[types[n].file] = types[n]
      BY DEF RegistryMatches
    <2>1. Gone(0).runs = "gone"
      BY DEF Gone, Text
    <2>2. PICK f \in Files : types[n] = source[f]
      BY <1>5, <2>1
    <2> QED
      BY <1>1, <2>2 DEF TypesInit, TextOf
  <1> QED
    BY <1>3, <1>4, <1>6, <1>7, <1>8 DEF TypesInv

-----------------------------------------------------------------------------
\* Editors, and the watcher's passes

LEMMA WriteKeeps ==
    ASSUME TypesInv, NEW f \in Files, NEW text \in {Gone(f)} \cup TextsOf(f, clock + 1), Write(f, text)
    PROVE  TypesInv' /\ OwnTypeStep
  <1>1. /\ clock < MaxSaves /\ clock' = clock + 1
        /\ source' = [source EXCEPT ![f] = text]
        /\ UNCHANGED <<modules, types, mtimes, named, poll>>
    BY DEF Write
  <1>2. clock \in Nat /\ clock' \in 1 .. MaxSaves
    BY <1>1, NodeTypesAssumption DEF TypesInv, FilesTyped
  <1>3. TextOf(f, text) /\ text.at \in {0, clock'} /\ (text.runs # "gone" => text.at = clock')
    <2>1. text.at = clock' \/ text = Gone(f)
      BY <1>1 DEF TextsOf, Text
    <2> QED
      BY <1>1, <1>2, <2>1, TextsTyped DEF Gone, Text
  <1>4. /\ source' \in [Files -> Texts] /\ source'[f] = text
        /\ \A g \in Files : g # f => source'[g] = source[g]
    BY <1>1, <1>3 DEF TypesInv, FilesTyped, TextOf
  <1>5. FilesTyped'
    <2>1. ASSUME NEW g \in Files
          PROVE  /\ TextOf(g, source'[g]) /\ TextOf(g, modules'[g])
                 /\ source'[g].at <= clock' /\ mtimes'[g] <= clock'
                 /\ source'[g].runs # "gone" => source'[g].at >= 1
      <3>1. CASE g = f
        BY <1>1, <1>2, <1>3, <1>4, <3>1 DEF TypesInv, FilesTyped
      <3>2. CASE g # f
        BY <1>1, <1>2, <1>4, <3>2 DEF TypesInv, FilesTyped, TextOf, Texts, Exists
      <3> QED
        BY <3>1, <3>2
    <2> QED
      BY <1>1, <1>2, <1>4, <2>1 DEF TypesInv, FilesTyped, Exists
  <1>6. PollTyped'
    BY <1>1, <1>2 DEF TypesInv, PollTyped
  <1>7. RegistryTyped' /\ RegistryMatches'
    BY <1>1 DEF TypesInv, RegistryTyped, RegistryMatches
  <1>8. TwinsKnown'
    <2>1. /\ hinders' \in [Files -> SUBSET Whys]
          /\ \A g \in Files : hinders[g] \subseteq hinders'[g]
      BY DEF Write, TypesInv, TwinsKnown, Whys
    <2> QED
      BY <1>1, <2>1 DEF TypesInv, TwinsKnown, NamesOf
  <1>9. OwnTypeStep
    BY <1>1 DEF OwnTypeStep
  <1> QED
    BY <1>5, <1>6, <1>7, <1>8, <1>9 DEF TypesInv

LEMMA SeedKeeps == TypesInv /\ Seed => TypesInv' /\ OwnTypeStep
  <1> SUFFICES ASSUME TypesInv, Seed PROVE TypesInv' /\ OwnTypeStep
    OBVIOUS
  <1>1. UNCHANGED <<source, modules, types, poll, clock>>
    BY DEF Seed
  <1>2. /\ mtimes' \in [Files -> Nat] /\ \A f \in Files : mtimes'[f] = source[f].at
        /\ named' \in [Files -> Names \cup {NoName}]
    BY DEF Seed, TypesInv, FilesTyped, TextOf, Texts
  <1>3. FilesTyped'
    BY <1>1, <1>2 DEF TypesInv, FilesTyped, TextOf, Exists
  <1>4. PollTyped' /\ RegistryTyped' /\ RegistryMatches'
    BY <1>1 DEF TypesInv, PollTyped, RegistryTyped, RegistryMatches
  <1>5. TwinsKnown'
    <2>1. /\ hinders' \in [Files -> SUBSET Whys]
          /\ \A f \in Files : Hindered(modules, named')[f] \subseteq hinders'[f]
      BY HinderedTyped DEF Seed, TypesInv, TwinsKnown
    <2> QED
      BY <1>1, <2>1, HinderedTyped DEF TwinsKnown
  <1>6. OwnTypeStep
    BY <1>1 DEF OwnTypeStep
  <1> QED
    BY <1>3, <1>4, <1>5, <1>6 DEF TypesInv

\* What a pass does without a load.
LEMMA PassKeeps ==
    ASSUME TypesInv, PollTyped', UNCHANGED <<source, modules, types, mtimes, named, hinders, clock>>
    PROVE  TypesInv' /\ OwnTypeStep
  BY DEF TypesInv, FilesTyped, RegistryTyped, RegistryMatches, TwinsKnown, NamesOf, Exists, TextOf, OwnTypeStep

LEMMA PollStartsKeeps == TypesInv /\ PollStarts => TypesInv' /\ OwnTypeStep
  <1> SUFFICES ASSUME TypesInv, PollStarts PROVE TypesInv' /\ OwnTypeStep
    OBVIOUS
  <1>1. PollTyped'
    <2> DEFINE glob == {f \in Files : Exists(f)}
    <2>1. poll' = [at |-> "scan", glob |-> glob, todo |-> glob, file |-> 0, mtime |-> 0]
      BY DEF PollStarts, Resting
    <2>2. glob \in SUBSET Files /\ clock' = clock /\ 0 <= clock
      BY DEF PollStarts, TypesInv, FilesTyped
    <2> HIDE DEF glob
    <2> QED
      BY <2>1, <2>2 DEF PollTyped
  <1> QED
    BY <1>1, PassKeeps DEF PollStarts

LEMMA PassedTyped ==
    ASSUME TypesInv, NEW f
    PROVE  /\ Passed(f) \in [at : {"rest", "scan", "act"}, glob : SUBSET Files, todo : SUBSET Files,
                             file : Nat, mtime : Nat]
           /\ Passed(f).todo \subseteq Passed(f).glob
           /\ Passed(f).mtime = 0
  BY DEF Passed, TypesInv, PollTyped

LEMMA StatKeeps ==
    ASSUME TypesInv, NEW f \in Files, Stat(f)
    PROVE  TypesInv' /\ OwnTypeStep
  <1>1. clock \in Nat /\ source[f].at \in Nat /\ source[f].at <= clock /\ f \in Nat
    BY DEF TypesInv, FilesTyped, TextOf, Texts, Files
  <1>2. CASE poll' = Passed(f)
    <2>1. PollTyped'
      <3>1. clock' = clock /\ 0 <= clock
        BY <1>1 DEF Stat
      <3> QED
        BY <1>2, <3>1, PassedTyped DEF PollTyped
    <2> QED
      BY <2>1, PassKeeps DEF Stat
  <1>3. CASE poll' = [poll EXCEPT !.at = "act", !.file = f, !.mtime = source[f].at]
    <2>1. PollTyped'
      BY <1>1, <1>3 DEF PollTyped, Stat, TypesInv
    <2> QED
      BY <2>1, PassKeeps DEF Stat
  <1> QED
    BY <1>2, <1>3 DEF Stat

LEMMA PollEndsKeeps == TypesInv /\ PollEnds => TypesInv' /\ OwnTypeStep
  <1> SUFFICES ASSUME TypesInv, PollEnds PROVE TypesInv' /\ OwnTypeStep
    OBVIOUS
  <1>1. UNCHANGED <<source, modules, types, hinders, clock>> /\ poll' = Resting
    BY DEF PollEnds
  <1>2. /\ mtimes' \in [Files -> Nat] /\ \A f \in Files : mtimes'[f] \in {0, mtimes[f]}
        /\ named' \in [Files -> Names \cup {NoName}]
        /\ \A f \in Files : named'[f] \in {NoName, named[f]}
    BY DEF PollEnds, TypesInv, FilesTyped
  <1>3. clock \in Nat
    BY DEF TypesInv, FilesTyped
  <1>4. FilesTyped'
    BY <1>1, <1>2, <1>3 DEF TypesInv, FilesTyped, TextOf, Exists
  <1>5. PollTyped' /\ RegistryTyped' /\ RegistryMatches'
    BY <1>1, <1>3 DEF TypesInv, PollTyped, RegistryTyped, RegistryMatches, Resting
  <1>6. TwinsKnown'
    <2>1. \A f \in Files : NamesOf(modules', named', f) \subseteq NamesOf(modules, named, f)
      BY <1>1, <1>2 DEF NamesOf
    <2> QED
      BY <1>1, <2>1 DEF TypesInv, TwinsKnown
  <1>7. OwnTypeStep
    BY <1>1 DEF OwnTypeStep
  <1> QED
    BY <1>4, <1>5, <1>6, <1>7 DEF TypesInv

-----------------------------------------------------------------------------
\* Loads: one module is made again, and registered if it has run far enough.

LEMMA LoadKeeps ==
    ASSUME TypesInv, NEW f \in Files, NEW g \in Files,
           poll.at = "act",
           modules' = [modules EXCEPT ![g] = Executed(g)],
           \/ types' = types /\ Executed(g).runs # "whole"
           \/ types' = [types EXCEPT ![Executed(g).name] = Executed(g)] /\ Declares(Executed(g)),
           named' \in [Files -> Names \cup {NoName}],
           Loaded(g), Recorded(f),
           UNCHANGED <<source, clock>>
    PROVE  TypesInv' /\ \A n \in Names : types'[n] # types[n] => types'[n].file = g
  <1> DEFINE mod == Executed(g)
  <1>1. TextOf(g, mod)
    BY DEF TypesInv, FilesTyped, Executed, Exists, Bare, Text, TextOf, Texts, Files, Declares
  <1>2. /\ modules' \in [Files -> Texts] /\ modules'[g] = mod
        /\ \A h \in Files : h # g => modules'[h] = modules[h]
    BY <1>1 DEF TypesInv, FilesTyped, TextOf
  <1>3. /\ types' \in [Names -> Texts]
        /\ \A n \in Names : types'[n] = types[n] \/ (types'[n] = mod /\ Declares(mod) /\ mod.name = n)
        /\ mod.runs = "whole" => types'[mod.name] = mod
    BY <1>1 DEF TypesInv, RegistryTyped, TextOf, Declares
  <1> HIDE DEF mod
  <1>4. mtimes' \in [Files -> Nat] /\ \A h \in Files : mtimes'[h] <= clock'
    BY DEF Recorded, TypesInv, FilesTyped, PollTyped
  <1>5. FilesTyped'
    <2>1. \A h \in Files : TextOf(h, modules'[h])
      BY <1>1, <1>2 DEF TypesInv, FilesTyped
    <2>2. UNCHANGED <<source, clock>>
      OBVIOUS
    <2> QED
      BY <1>2, <1>4, <2>1, <2>2 DEF TypesInv, FilesTyped, Exists
  <1>6. PollTyped'
    <2>1. poll' = Passed(f) /\ clock' = clock /\ 0 <= clock
      BY DEF Recorded, TypesInv, FilesTyped
    <2> QED
      BY <2>1, PassedTyped DEF PollTyped
  <1>7. RegistryTyped'
    BY <1>1, <1>3 DEF TypesInv, RegistryTyped, TextOf
  <1>8. RegistryMatches'
    <2> SUFFICES ASSUME NEW n \in Names, types'[n].runs # "gone",
                        modules'[types'[n].file].runs = "whole", modules'[types'[n].file].name = n
                 PROVE  modules'[types'[n].file] = types'[n]
      BY DEF RegistryMatches
    <2>1. CASE types'[n] = mod
      BY <1>1, <1>2, <2>1 DEF TextOf
    <2>2. CASE types'[n] = types[n] /\ types[n].file # g
      <3>1. types[n].file \in Files /\ modules'[types[n].file] = modules[types[n].file]
        BY <1>2, <2>2 DEF TypesInv, RegistryTyped
      <3> QED
        BY <2>2, <3>1 DEF TypesInv, RegistryMatches
    <2>3. CASE types'[n] = types[n] /\ types[n].file = g
      BY <1>2, <1>3, <2>3
    <2> QED
      BY <1>3, <2>1, <2>2, <2>3
  <1>9. TwinsKnown'
    <2>1. /\ hinders' \in [Files -> SUBSET Whys]
          /\ \A h \in Files : Hindered(modules', named')[h] \subseteq hinders'[h]
      BY HinderedTyped DEF Loaded, TypesInv, TwinsKnown
    <2> QED
      BY <2>1, HinderedTyped DEF TwinsKnown
  <1> QED
    BY <1>1, <1>3, <1>5, <1>6, <1>7, <1>8, <1>9 DEF TypesInv, TextOf

LEMMA LoadNewKeeps ==
    ASSUME TypesInv, NEW f \in Files, LoadNew(f)
    PROVE  TypesInv' /\ OwnTypeStep
  <1>1. TextOf(f, Executed(f))
    BY DEF TypesInv, FilesTyped, Executed, Exists, Bare, Text, TextOf, Texts, Files, Declares
  <1>2. named' \in [Files -> Names \cup {NoName}]
    BY <1>1 DEF LoadNew, TypesInv, FilesTyped, TextOf
  <1>3. \/ types' = types /\ Executed(f).runs # "whole"
        \/ types' = [types EXCEPT ![Executed(f).name] = Executed(f)] /\ Declares(Executed(f))
    BY DEF LoadNew, Registered, Declares
  <1>4. /\ poll.at = "act" /\ poll.file = f
        /\ modules' = [modules EXCEPT ![f] = Executed(f)]
        /\ Loaded(f) /\ Recorded(f) /\ UNCHANGED <<source, clock>>
    BY DEF LoadNew, Acting
  <1>5. TypesInv' /\ \A n \in Names : types'[n] # types[n] => types'[n].file = f
    BY <1>2, <1>3, <1>4, LoadKeeps
  <1> QED
    BY <1>4, <1>5 DEF OwnTypeStep

LEMMA ReloadKeeps ==
    ASSUME TypesInv, NEW f \in Files, Reload(f)
    PROVE  TypesInv' /\ OwnTypeStep
  <1> DEFINE g == Min(Stops(named[f]))
  <1>1. /\ poll.at = "act" /\ poll.file = f
        /\ Stops(named[f]) # {} /\ modules[g].name = named[f] /\ named[f] # NoName
        /\ modules' = [modules EXCEPT ![g] = Executed(g)]
        /\ types' = IF Declares(Executed(g)) THEN [types EXCEPT ![Executed(g).name] = Executed(g)] ELSE types
        /\ Loaded(g) /\ Recorded(f) /\ UNCHANGED <<source, named, clock>>
    BY DEF Reload, Acting, New, Finds
  <1>2. g \in Files
    BY <1>1, MinOfFiles DEF Stops, Modules
  <1> HIDE DEF g
  <1>3. \/ types' = types /\ Executed(g).runs # "whole"
        \/ types' = [types EXCEPT ![Executed(g).name] = Executed(g)] /\ Declares(Executed(g))
    BY <1>1 DEF Declares
  <1>4. named' \in [Files -> Names \cup {NoName}]
    BY <1>1 DEF TypesInv, FilesTyped
  <1>5. TypesInv' /\ \A n \in Names : types'[n] # types[n] => types'[n].file = g
    BY <1>1, <1>2, <1>3, <1>4, LoadKeeps
  <1>6. g # f => "twin" \in hinders[f]
    BY <1>1, <1>2 DEF TypesInv, TwinsKnown, NamesOf
  <1> QED
    BY <1>1, <1>5, <1>6 DEF OwnTypeStep

LEMMA ReloadFailsKeeps ==
    ASSUME TypesInv, NEW f \in Files, ReloadFails(f)
    PROVE  TypesInv' /\ OwnTypeStep
  <1>1. UNCHANGED <<source, modules, types, named, hinders, clock>> /\ Recorded(f)
    BY DEF ReloadFails
  <1>2. PollTyped'
    <2>1. poll' = Passed(f) /\ clock' = clock /\ 0 <= clock
      BY <1>1 DEF Recorded, TypesInv, FilesTyped
    <2> QED
      BY <2>1, PassedTyped DEF PollTyped
  <1>3. mtimes' \in [Files -> Nat] /\ \A h \in Files : mtimes'[h] <= clock'
    BY <1>1 DEF Recorded, TypesInv, FilesTyped, PollTyped
  <1> QED
    BY <1>1, <1>2, <1>3 DEF TypesInv, FilesTyped, RegistryTyped, RegistryMatches, TwinsKnown, NamesOf,
                            Exists, TextOf, OwnTypeStep

-----------------------------------------------------------------------------
LEMMA TypesKeep == TypesInv /\ [TypesNext]_typesVars => TypesInv' /\ OwnTypeStep
  <1> SUFFICES ASSUME TypesInv, [TypesNext]_typesVars PROVE TypesInv' /\ OwnTypeStep
    OBVIOUS
  <1>1. CASE UNCHANGED typesVars
    <2>1. UNCHANGED <<source, modules, types, mtimes, named, poll, hinders, clock>>
      BY <1>1 DEF typesVars
    <2>2. PollTyped'
      BY <2>1 DEF TypesInv, PollTyped
    <2> QED
      BY <2>1, <2>2, PassKeeps
  <1>2. ASSUME NEW f \in Files, Save(f) \/ Delete(f) PROVE TypesInv' /\ OwnTypeStep
    BY <1>2, WriteKeeps DEF Save, Delete
  <1>3. ASSUME NEW f \in Files, Handle(f) PROVE TypesInv' /\ OwnTypeStep
    BY <1>3, StatKeeps, LoadNewKeeps, ReloadKeeps, ReloadFailsKeeps DEF Handle
  <1> QED
    BY <1>1, <1>2, <1>3, SeedKeeps, PollStartsKeeps, PollEndsKeeps DEF TypesNext

(* However saves, deletions and the watcher's passes interleave, for any    *)
(* number of files: a name is registered with the module of its own file,   *)
(* and a change of one file moves no other type unless two files share a    *)
(* name.                                                                    *)
THEOREM TypesSound == TypesSpec => [](RegistryTypeOK /\ RegistryMatches) /\ OnlyItsOwnType
  <1>1. TypesInv => RegistryTypeOK /\ RegistryMatches
    <2> SUFFICES ASSUME TypesInv PROVE RegistryTypeOK
      BY DEF TypesInv
    <2>1. ASSUME NEW f \in Files
          PROVE  /\ source[f].file = f /\ modules[f].file = f
                 /\ mtimes[f] \in 0 .. clock
                 /\ named[f] \in Names \cup {NoName}
                 /\ Exists(f) => source[f].at \in 1 .. clock
      BY DEF TypesInv, FilesTyped, TextOf, Texts
    <2>2. \A n \in Names : types[n].runs = "gone" \/ (Declares(types[n]) /\ types[n].name = n)
      BY DEF TypesInv, RegistryTyped
    <2>3. poll.todo \subseteq poll.glob /\ poll.glob \subseteq Files /\ clock \in 1 .. MaxSaves
      BY DEF TypesInv, PollTyped, FilesTyped
    <2> QED
      BY <2>1, <2>2, <2>3 DEF RegistryTypeOK
  <1>2. TypesInv /\ [TypesNext]_typesVars => [OwnTypeStep]_typesVars
    BY TypesKeep
  <1>3. TypesSpec => []TypesInv
    BY TypesStart, TypesKeep, PTL DEF TypesSpec
  <1>4. TypesSpec => [][OwnTypeStep]_typesVars
    BY <1>2, <1>3, PTL DEF TypesSpec
  <1> QED
    BY <1>1, <1>3, <1>4, PTL DEF OnlyItsOwnType, OwnTypeStep
=============================================================================
