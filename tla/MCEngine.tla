------------------------------- MODULE MCEngine -------------------------------
(***************************************************************************)
(* What the engines rely on: the gate of a conversation, folding and       *)
(* unfolding, the order of evaluation, and the node types and scenes of    *)
(* the earlier engine, which are reloaded. They share no state, so a       *)
(* behaviour of all of them together is one of each; the run takes one at  *)
(* a time: `part` says which, and the others stay as they begin.           *)
(***************************************************************************)
EXTENDS Conversation, ChipGraph, TopoOrder, NodeTypes, SceneLoad

CONSTANTS t1, watcher

VARIABLE part

threadVars == <<arr>>
allVars == <<part, threadVars, editVars, topoVars, typesVars, sceneVars>>

\* A conversation that starts with one message, and every batch of up to two of a
\* handful of actions, refused ones and ones without effect included.
MCInitArr == [nodes |-> {[id |-> <<"n">>, kind |-> "seed"]}, wires |-> {}, tip |-> <<"n">>]

Acts ==
    { AddNode(<<"a">>, "A", NoId),
      AddNode(<<"a">>, "B", <<"a">>),
      AddNode(NoId, "C", <<"n">>),
      AddNode(<<"n">>, "E", <<"a">>),
      [AddNode(<<"b">>, "D", NoId) EXCEPT !.proper = FALSE],
      AddWire(<<"n">>, <<"a">>, ParentPort),
      AddWire(<<"a">>, <<"n">>, ParentPort),
      AddWire(<<"a", 1>>, <<"n">>, ParentPort),
      AddWire(<<"a", 1>>, <<"msg", 1>>, ParentPort),
      AddWire(<<"msg", 1>>, <<"a">>, ParentPort),
      SetTip(<<"a">>), SetTip(<<"b">>) }

MCBatches == {<<x>> : x \in Acts} \cup {<<x, y>> : x, y \in Acts}

\* A thread of three messages whose last one merges two of them, and replies to
\* messages that a fold may or may not have taken out of sight.
Message(c) == [type |-> "Message", content |-> c]

MCFirstGraph ==
    [nodes |-> {[id |-> <<x>>, kind |-> Message(x)] : x \in {"a", "b", "c"}},
     wires |-> {ParentWire(<<"a">>, <<"b">>), ParentWire(<<"a">>, <<"c">>),
                ParentWire(<<"b">>, <<"c">>)},
     tip   |-> <<"c">>]

MCEditBatches ==
    { << AddNode(<<"b">>, Message("again"), NoId) >>,
      << AddNode(<<"d">>, Message("d"), <<"b">>) >>,
      << SetTip(<<"b">>) >>,
      << AddNode(<<"d">>, Message("d"), <<"chip", {<<"b">>}>>) >> }

MCKnownKinds == {Message(c) : c \in {"a", "b", "c", "d", "again"}}

MCIds == <<"a", "b", "c">>

-----------------------------------------------------------------------------

AllInit ==
    /\ part \in {"thread", "chips", "topo", "reloads", "load"}
    /\ Init
    /\ EditInit
    /\ TopoInit
    /\ part # "topo" => wires = [e \in DOMAIN wires |-> 0]
    /\ TypesInit
    /\ part # "reloads" => \A f \in 1 .. 2 : source[f] = Gone(f)
    /\ SceneInit
    /\ part # "load" => disk = SceneText(FALSE, {}, 1)

AllNext ==
    /\ UNCHANGED part
    /\ \/ /\ part = "thread" /\ Next
          /\ UNCHANGED <<editVars, topoVars, typesVars, sceneVars>>
       \/ /\ part = "chips" /\ EditNext
          /\ UNCHANGED <<threadVars, topoVars, typesVars, sceneVars>>
       \/ /\ part = "topo" /\ TopoNext
          /\ UNCHANGED <<threadVars, editVars, typesVars, sceneVars>>
       \/ /\ part = "reloads" /\ TypesNext
          /\ UNCHANGED <<threadVars, editVars, topoVars, sceneVars>>
       \/ /\ part = "load" /\ SceneNext
          /\ UNCHANGED <<threadVars, editVars, topoVars, typesVars>>

\* The fairness of each component, while it is the one that runs.
FairnessOfAll ==
    /\ WF_topoVars(part = "topo" /\ TopoNext)
    /\ WF_typesVars(part = "reloads" /\ Seed)
    /\ WF_typesVars(part = "reloads" /\ PollStarts)
    /\ WF_typesVars(part = "reloads" /\ PollEnds)
    /\ \A f \in 1 .. 2 : WF_typesVars(part = "reloads" /\ Handle(f))
    /\ WF_sceneVars(part = "load" /\ Poll)
    /\ \A t \in {t1, watcher} : WF_sceneVars(part = "load" /\ Step(t))
    /\ WF_sceneVars(part = "load" /\ (Merge(t1) \/ Answer(t1)))

AllSpec == AllInit /\ [][AllNext]_allVars /\ FairnessOfAll

-----------------------------------------------------------------------------

\* Every node is evaluated in the end, and once, after every node that is wired to it;
\* what is left over when the queue is empty is held back by a cycle.
EvaluatedInOrder ==
    /\ [](SourcesFirst /\ HeldBackByCycles)
    /\ part = "topo" => EveryNodeOnce
=============================================================================
