------------------------------- MODULE TopoOrder -------------------------------
(***************************************************************************)
(* The order in which GraphRuntime.evaluate runs the nodes: Kahn's sort of *)
(* the wires (_topo_order), one step per node taken from the queue, and    *)
(* the nodes a cycle holds back appended at the end.  A node evaluated     *)
(* before one of its sources reads nothing on that wire.                   *)
(*                                                                         *)
(* Wires between two nodes are counted: parallel wires, on different       *)
(* ports, count once each in the in-degree and once each in adj.  A wire   *)
(* to or from a node the runtime has not instantiated is not counted.      *)
(***************************************************************************)
EXTENDS Integers, Sequences, FiniteSets, SequencesExt

CONSTANTS
    Ids,         \* the node ids, in the order of nodes.keys()
    MaxParallel  \* bound: wires from one node to another

ASSUME TopoAssumption ==
    /\ Ids \in Seq(Range(Ids))
    /\ \A i, j \in 1 .. Len(Ids) : Ids[i] = Ids[j] => i = j
    /\ MaxParallel \in Nat

VARIABLES
    wires,    \* how many wires lead from one node to another
    indeg, queue, order,
    done

topoVars == <<wires, indeg, queue, order, done>>

Nodes == Range(Ids)

\* The k-th wire from f to t counts if there are as many.
InDegree(ws, t) == Cardinality({e \in Nodes \X (1 .. MaxParallel) : e[2] <= ws[<<e[1], t>>]})

\* `for id in ids`: some of the nodes, in the order of the keys.
InKeyOrder(S) ==
    {s \in SetToSeqs(S) :
        \A i, j \in 1 .. Len(s) : i < j =>
            \E k, l \in 1 .. Len(Ids) : k < l /\ Ids[k] = s[i] /\ Ids[l] = s[j]}

TopoInit ==
    /\ wires \in [Nodes \X Nodes -> 0 .. MaxParallel]
    /\ indeg = [t \in Nodes |-> InDegree(wires, t)]
    /\ queue \in InKeyOrder({id \in Nodes : indeg[id] = 0})
    /\ order = << >>
    /\ done = FALSE

\* Mutant: a node is queued when its first source is done.
PopEager ==
    /\ queue # << >>
    /\ LET n == Head(queue)
           ready == {m \in Nodes : wires[<<n, m>>] > 0 /\ indeg[m] > 0}
       IN  /\ order' = Append(order, n)
           /\ indeg' = [m \in Nodes |-> IF m \in ready THEN 0 ELSE indeg[m]]
           /\ \E s \in SetToSeqs(ready) : queue' = Tail(queue) \o s
    /\ UNCHANGED <<wires, done>>

\* The nodes whose last wire this one was enter in the order of its wires.
Pop ==
    /\ queue # << >>
    /\ LET n == Head(queue)
           ready == {m \in Nodes : wires[<<n, m>>] > 0 /\ indeg[m] = wires[<<n, m>>]}
       IN  /\ order' = Append(order, n)
           /\ indeg' = [m \in Nodes |-> indeg[m] - wires[<<n, m>>]]
           /\ \E s \in SetToSeqs(ready) : queue' = Tail(queue) \o s
    /\ UNCHANGED <<wires, done>>

AppendRemnants ==
    /\ queue = << >> /\ ~done
    /\ \E s \in InKeyOrder(Nodes \ Range(order)) : order' = order \o s
    /\ done' = TRUE
    /\ UNCHANGED <<wires, indeg, queue>>

TopoNext == Pop \/ AppendRemnants

TopoSpec == TopoInit /\ [][TopoNext]_topoVars /\ WF_topoVars(TopoNext)

-----------------------------------------------------------------------------

Sources(t) == {f \in Nodes : wires[<<f, t>>] > 0}

\* The nodes with a path of wires to t: the least set that has the sources of t and,
\* with a node, the sources of that node.
Upstream(t) ==
    {x \in Nodes :
        \A S \in SUBSET Nodes :
            Sources(t) \subseteq S /\ (\A f \in S : Sources(f) \subseteq S) => x \in S}

OnCycle(t) == t \in Upstream(t)

Before(f, t) == \E i, j \in 1 .. Len(order) : i < j /\ order[i] = f /\ order[j] = t

(***************************************************************************)
(* A node that neither lies on a cycle of wires nor hangs from one is      *)
(* evaluated after every node it reads from, at every moment of the sort   *)
(* and whatever cycles there are elsewhere in the graph.                   *)
(***************************************************************************)
SourcesFirst ==
    \A t \in Range(order) :
        (\A x \in Upstream(t) \cup {t} : ~OnCycle(x))
            => \A f \in Sources(t) : Before(f, t)

(***************************************************************************)
(* A node never waits for a graph it is not part of: what the queue has    *)
(* not let through when it runs dry is on a cycle or downstream of one.    *)
(***************************************************************************)
HeldBackByCycles ==
    queue = << >> /\ ~done =>
        \A t \in Nodes \ Range(order) : \E x \in Upstream(t) \cup {t} : OnCycle(x)

(***************************************************************************)
(* The sort ends with every node in it once ("cycle remnants are appended  *)
(* (never dropped)").                                                      *)
(***************************************************************************)
AllOnce == Len(order) = Len(Ids) /\ Range(order) = Nodes
EveryNodeOnce == <>(done /\ AllOnce)
=============================================================================
