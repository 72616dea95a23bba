---------------------------- MODULE AppendOnlyGraph ----------------------------
(***************************************************************************)
(* What the shared store promises its clients: one sound graph that only   *)
(* grows, each growth under the next revision (the laws of                 *)
(* CONNECTION-CONTRACT.md, sections 4 to 6).                               *)
(***************************************************************************)
EXTENDS Arrangement

VARIABLES graph, rev

Init == ValidateArrangement(graph) /\ rev \in Nat

Grow ==
    /\ Extends(graph', graph)
    /\ ValidateArrangement(graph')
    /\ rev' = rev + 1

Spec == Init /\ [][Grow]_<<graph, rev>>
=============================================================================
