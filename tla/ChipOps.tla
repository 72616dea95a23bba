-------------------------------- MODULE ChipOps --------------------------------
(***************************************************************************)
(* Folding a selection of nodes into one Chip and unfolding it again       *)
(* (bridge/chip_ops.py; its twin in the editor is editor/chip_ops.gd).     *)
(* A Chip's kind holds the folded sub-graph and a port for each inner site *)
(* a cut wire ended or began at.  The code numbers those ports in the      *)
(* order it meets them; here a port is named after its site.               *)
(***************************************************************************)
EXTENDS Arrangement

Chip(nodes, wires, ins, outs) ==
    [type |-> "Chip", nodes |-> nodes, wires |-> wires, ins |-> ins, outs |-> outs]

IsChip(n) == n.kind.type = "Chip"

InPort(node, port)  == [name |-> <<"in", node, port>>,  node |-> node, port |-> port]
OutPort(node, port) == [name |-> <<"out", node, port>>, node |-> node, port |-> port]

\* The wire with one end moved to a port of another node.
Into(w, node, port)  == [from |-> w.from, out |-> w.out, to |-> node, in |-> port]
OutOf(w, node, port) == [from |-> node, out |-> port, to |-> w.to, in |-> w.in]

\* The hash of the selected ids; the second chip of the same ids is "..._2".
ChipId(arr, ids) ==
    LET base    == <<"chip", ids>>
        free(i) == Append(base, i) \notin NodeIds(arr)
    IN  IF base \notin NodeIds(arr) THEN base
        ELSE Append(base, CHOOSE i \in 2 .. Cardinality(arr.nodes) + 2 :
                              free(i) /\ \A j \in 2 .. i-1 : ~free(j))

Group(arr, ids) ==
    LET id       == ChipId(arr, ids)
        inside   == {w \in arr.wires : w.from \in ids /\ w.to \in ids}
        outside  == {w \in arr.wires : w.from \notin ids /\ w.to \notin ids}
        entering == {w \in arr.wires : w.from \notin ids /\ w.to \in ids}
        leaving  == {w \in arr.wires : w.from \in ids /\ w.to \notin ids}
        chip     == Chip({n \in arr.nodes : n.id \in ids}, inside,
                         {InPort(w.to, w.in) : w \in entering},
                         {OutPort(w.from, w.out) : w \in leaving})
    IN  [nodes |-> {n \in arr.nodes : n.id \notin ids} \cup {[id |-> id, kind |-> chip]},
         wires |-> outside
                   \cup {Into(w, id, InPort(w.to, w.in).name) : w \in entering}
                   \cup {OutOf(w, id, OutPort(w.from, w.out).name) : w \in leaving},
         tip   |-> arr.tip]

\* Mutant: a chip port is put back on its node's default port.
ReattachedDefault(w, id, chip) ==
    IF w.to = id
    THEN {Into(w, p.node, ParentPort) : p \in {q \in chip.ins : q.name = w.in}}
    ELSE IF w.from = id
         THEN {OutOf(w, p.node, w.out) : p \in {q \in chip.outs : q.name = w.out}}
         ELSE {w}

\* A wire of the outer graph with its chip end moved to the inner site.  A wire
\* on a port the chip does not have goes nowhere.
Reattached(w, id, chip) ==
    IF w.to = id
    THEN {Into(w, p.node, p.port) : p \in {q \in chip.ins : q.name = w.in}}
    ELSE IF w.from = id
         THEN {OutOf(w, p.node, p.port) : p \in {q \in chip.outs : q.name = w.out}}
         ELSE {w}

Ungroup(arr, id) ==
    LET chips == {n \in arr.nodes : n.id = id /\ IsChip(n)}
    IN  IF chips = {} THEN arr
        ELSE LET chip == (CHOOSE n \in chips : TRUE).kind
             IN  [nodes |-> (arr.nodes \ chips) \cup chip.nodes,
                  wires |-> chip.wires \cup UNION {Reattached(w, id, chip) : w \in arr.wires},
                  tip   |-> arr.tip]
=============================================================================
