------------------------------ MODULE MCCommands ------------------------------
(***************************************************************************)
(* What users command: the shell, the commands of tabs, the senders they   *)
(* trust, the edits and pastes of the engine graph, and drops of nodes on  *)
(* nodes. They share no state, so a behaviour of all of them together is   *)
(* one of each; the run takes one at a time: `part` says which, and the    *)
(* others stay as they begin.                                              *)
(***************************************************************************)
EXTENDS TabCommands, Senders, DragDrop, Shell, Integers

CONSTANTS t1, t2

VARIABLES
    part,
    graphNodes, graphCache, clip, pasted, touched, edited, ops

graphVars == <<graphNodes, graphCache, clip, pasted, touched, edited, ops>>
allVars == <<part, vars, shellVars, sendersVars, graphVars, dropsVars>>

\* The ids that pastes are given, and a name that stands for a session and one that does not.
MCPasted == <<"p", "p_2", "p_3">>
MCSender == <<"p">>
MCSessions == [n \in {"one", "both"} |-> IF n = "one" THEN "s1" ELSE "none"]

\* One text holds an id twice, the other an id that is what the first becomes when
\* it is renamed.
Snippet(id, to) == [id |-> id, type |-> "Generator", param |-> "x", conns |-> [s \in {"seed"} |-> to]]
Texts == {<<Snippet(<<"a">>, <<"a">>), Snippet(<<"a">>, <<"a">>)>>,
          <<Snippet(<<"a">>, <<"a", 2>>), Snippet(<<"a", 2>>, <<"a">>)>>}

\* A virtual kind that composes the kind of a module, and one that composes that one.
MCVirtual == [k \in {"panel", "item"} |-> IF k = "item" THEN {"button"} ELSE {"item"}]
MCKindOf == [n \in {"i", "p"} |-> IF n = "i" THEN "item" ELSE "panel"]
MCTierOf == [n \in {"i", "p"} |-> IF n = "i" THEN 1 ELSE 3]
MCTable == [x \in {<<"item", "panel">>} |-> "realizes"]
MCOverride == [k \in {"alt"} |-> "depends-on"]
MCKeys == {<<>>, <<"x", "alt">>}

Graph == INSTANCE EngineGraph
    WITH Names <- {"a", "b"}, Slots <- <<"seed">>, Values <- {"x", "y"},
         Snippets <- Texts, MaxNodes <- 4, MaxOps <- 5, nodes <- graphNodes,
         cache <- graphCache

-----------------------------------------------------------------------------

AllInit ==
    /\ part \in {"tabs", "shell", "senders", "graph", "drag"}
    /\ Init
    /\ ShellInit
    /\ SendersInit
    /\ Graph!Init
    /\ DropsInit
    /\ part # "drag" => disk = [f \in 1 .. 1 |-> Broken]

AllNext ==
    /\ UNCHANGED part
    /\ \/ /\ part = "tabs" /\ Next
          /\ UNCHANGED <<shellVars, sendersVars, graphVars, dropsVars>>
       \/ /\ part = "shell" /\ ShellNext
          /\ UNCHANGED <<vars, sendersVars, graphVars, dropsVars>>
       \/ /\ part = "senders" /\ SendersNext
          /\ UNCHANGED <<vars, shellVars, graphVars, dropsVars>>
       \/ /\ part = "graph" /\ Graph!Next
          /\ UNCHANGED <<vars, shellVars, sendersVars, dropsVars>>
       \/ /\ part = "drag" /\ DropsNext
          /\ UNCHANGED <<vars, shellVars, sendersVars, graphVars>>

AllSpec == AllInit /\ [][AllNext]_allVars

-----------------------------------------------------------------------------

\* Through edits, copies, pastes and archives a generator shows what its seed says,
\* nothing that is added disturbs what is there, a paste is a copy of its text, and an
\* inverse edit stays with the nearest generator.
GraphIsSound == Graph!GraphIsSound
=============================================================================
