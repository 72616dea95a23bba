------------------------------- MODULE TabCommands -------------------------------
(***************************************************************************)
(* Commands of the tabs of the Streamlit surface                           *)
(* (tools/workflow_streamlit/commands.py): nodes are spawned, set, wired   *)
(* and pasted, the target of the chat is chosen, and the Notion pump is    *)
(* started and stopped.  Tabs are threads of one process that share the    *)
(* cached engine; a command dispatches an action to a node and reads what  *)
(* became of it from that node's view state, which all of them share       *)
(* (engine/actions.py).                                                    *)
(***************************************************************************)
EXTENDS Naturals, FiniteSets, Sequences

CONSTANTS
    Tabs,
    Names,        \* ids a user may type
    Pasted,       \* ids for pasted nodes, the sequence "pasted_text_node", "..._2" and so on
    EngineTypes,  \* types the engine has
    Reserved,     \* types that pastes ask for and the engine does not have yet
    Values,       \* values of a parameter
    SessionOf,    \* SessionOf[n]: the session that name n resolves to, or NoSession
    MaxCalls      \* bound: commands of all tabs

NoSession == "none"   \* the word that clears the target, and what a name without session gives

ASSUME TabCommandsAssumption ==
    /\ IsFiniteSet(Tabs) /\ MaxCalls \in Nat
    /\ "" \notin EngineTypes \cup Reserved
    /\ NoSession \notin DOMAIN SessionOf

VARIABLES
    nodes,     \* Engine.nodes
    last,      \* view states: what the last action of each verb did
    cmd,       \* the command each tab is in
    told,      \* history: what each tab was told last, and what its command did
    view,      \* the target in the view state of session_target_main
    file,      \* the target in chat_target.txt
    active,    \* active_session_id of the context of each tab
    chosen,    \* history: the last command that chose a target
    handle,    \* _NOTION_PUMP_SINGLETON
    pumps,     \* pumps that run
    crossed,   \* history: the subjects that two commands were about at once
    over,      \* history: nodes were spawned over others
    calls

vars == <<nodes, last, cmd, told, view, file, active, chosen, handle, pumps, crossed,
          over, calls>>

NoNode    == [type |-> "", dead |-> FALSE, param |-> "", to |-> ""]
NoPump    == 0
Idle      == [verb |-> "idle", id |-> "", arg |-> "", pump |-> NoPump, pc |-> "idle", alone |-> TRUE,
              did |-> FALSE]
NodeVerbs == {"spawn", "set_param", "connect", "disconnect"}
Dead(type) == type \notin EngineTypes

\* What a command is about: commands about one subject see each other's answers.
Subject(verb) == CASE verb \in NodeVerbs \cup {"paste"} -> "nodes"
                   [] verb = "target" -> "target"
                   [] verb \in {"start", "stop"} -> "pump"
                   [] OTHER -> "nothing"

Init ==
    /\ nodes = [i \in Names \cup {Pasted[k] : k \in DOMAIN Pasted} |-> NoNode]
    /\ last = [v \in NodeVerbs \cup {"resolve"} |-> [ok |-> FALSE, value |-> NoSession]]
    /\ cmd = [t \in Tabs |-> Idle]
    /\ told = [t \in Tabs |-> [ok |-> FALSE, did |-> FALSE, alone |-> TRUE, id |-> "", verb |-> "idle"]]
    /\ view = NoSession /\ file = NoSession /\ active = [t \in Tabs |-> NoSession]
    /\ chosen = [sid |-> NoSession, alone |-> TRUE]
    /\ handle = NoPump /\ pumps = {}
    /\ crossed = {} /\ over = FALSE
    /\ calls = 0

Known(i) == nodes[i] # NoNode

\* CommandRegistry.run: the command's first step is pc.
Begin(t, verb, id, arg, pc) ==
    LET others == {u \in Tabs \ {t} : Subject(cmd[u].verb) = Subject(verb)} IN
    /\ cmd[t] = Idle /\ calls < MaxCalls
    /\ calls' = calls + 1
    /\ cmd' = [u \in Tabs |->
                  IF u = t THEN [verb |-> verb, id |-> id, arg |-> arg, pump |-> NoPump, pc |-> pc,
                                 alone |-> others = {}, did |-> FALSE]
                  ELSE IF u \in others THEN [cmd[u] EXCEPT !.alone = FALSE] ELSE cmd[u]]
    /\ crossed' = IF others = {} THEN crossed ELSE crossed \cup {Subject(verb)}
    /\ UNCHANGED <<nodes, last, told, view, file, active, chosen, handle, pumps, over>>

At(t, verbs, pc) == cmd[t].verb \in verbs /\ cmd[t].pc = pc

Ends(t, ok) ==
    /\ cmd' = [cmd EXCEPT ![t] = Idle]
    /\ told' = [told EXCEPT ![t] = [ok |-> ok, did |-> cmd[t].did, alone |-> cmd[t].alone,
                                    id |-> cmd[t].id, verb |-> cmd[t].verb]]

Answers(verb, ok) == last' = [last EXCEPT ![verb] = [ok |-> ok, value |-> NoSession]]

--------------------------------------------------------------------------------
\* Nodes: mutate.* and paste.add, through scene_mutator_main

\* The arguments that have the form of a command; others are refused at once.
Mutate(t) ==
    \/ \E i \in Names, type \in EngineTypes \cup Reserved : Begin(t, "spawn", i, type, "check")
    \/ \E i \in Names, v \in Values : Begin(t, "set_param", i, v, "do")
    \/ \E i, j \in Names : Begin(t, "connect", i, j, "do")
    \/ \E i \in Names : Begin(t, "disconnect", i, "", "do")

\* A paste of text is a node of a type that is reserved for its kind.
Paste(t) == \E type \in Reserved : Begin(t, "paste", "", type, "allocate")

\* _allocate_paste_node_id: the least number that is free.
Allocate(t) ==
    /\ At(t, {"paste"}, "allocate")
    /\ \E n \in DOMAIN Pasted :
          /\ ~Known(Pasted[n]) /\ \A m \in 1 .. n - 1 : Known(Pasted[m])
          /\ cmd' = [cmd EXCEPT ![t].id = Pasted[n], ![t].pc = "check"]
    /\ UNCHANGED <<nodes, last, told, view, file, active, chosen, handle, pumps, crossed,
                   over, calls>>

\* Mutant: a refusal leaves no answer.
CheckSilent(t) ==
    /\ At(t, {"spawn", "paste"}, "check")
    /\ cmd' = [cmd EXCEPT ![t].pc = IF Known(cmd[t].id) THEN "read" ELSE "do"]
    /\ UNCHANGED <<nodes, last, told, view, file, active, chosen, handle, pumps, crossed,
                   over, calls>>

\* scene_mutator, "spawn": an id that is taken is refused.
Check(t) ==
    /\ At(t, {"spawn", "paste"}, "check")
    /\ IF Known(cmd[t].id)
       THEN cmd' = [cmd EXCEPT ![t].pc = "read"] /\ Answers("spawn", FALSE)
       ELSE cmd' = [cmd EXCEPT ![t].pc = "do"] /\ UNCHANGED last
    /\ UNCHANGED <<nodes, told, view, file, active, chosen, handle, pumps, crossed, over, calls>>

\* Engine.spawn: of an unknown type there is a node as well, a dead one.
Make(t) ==
    /\ At(t, {"spawn", "paste"}, "do")
    /\ LET i == cmd[t].id  type == cmd[t].arg IN
       /\ nodes' = [nodes EXCEPT ![i] = [type |-> type, dead |-> Dead(type), param |-> "", to |-> ""]]
       /\ over' = (over \/ Known(i))
       /\ Answers("spawn", ~Dead(type))
       /\ cmd' = [cmd EXCEPT ![t].pc = "read", ![t].did = ~Dead(type)]
    /\ UNCHANGED <<told, view, file, active, chosen, handle, pumps, crossed, calls>>

\* Engine.set_param, connect, disconnect: the node must be there, what it is wired
\* to need not.
Edit(t) ==
    /\ At(t, {"set_param", "connect", "disconnect"}, "do")
    /\ LET c  == cmd[t]
           ok == Known(c.id) /\ (c.verb = "disconnect" => nodes[c.id].to # "")
       IN /\ nodes' = IF ~ok THEN nodes
                      ELSE [nodes EXCEPT ![c.id] =
                               IF c.verb = "set_param" THEN [@ EXCEPT !.param = c.arg]
                                                       ELSE [@ EXCEPT !.to = c.arg]]
          /\ Answers(c.verb, ok)
          /\ cmd' = [cmd EXCEPT ![t].pc = "read", ![t].did = ok]
    /\ UNCHANGED <<told, view, file, active, chosen, handle, pumps, crossed, over, calls>>

\* The answer is that of the last action of the verb, whosever it was.
Read(t) ==
    /\ At(t, NodeVerbs \cup {"paste"}, "read")
    /\ Ends(t, last[IF cmd[t].verb = "paste" THEN "spawn" ELSE cmd[t].verb].ok)
    /\ UNCHANGED <<nodes, last, view, file, active, chosen, handle, pumps, crossed, over, calls>>

--------------------------------------------------------------------------------
\* The target of the chat: session.target

Target(t) ==
    \/ \E n \in DOMAIN SessionOf : Begin(t, "target", n, "", "resolve")
    \/ Begin(t, "target", NoSession, NoSession, "set")

\* The resolver node, and its answer
Resolve(t) ==
    /\ At(t, {"target"}, "resolve")
    /\ LET sid == SessionOf[cmd[t].id]
       IN last' = [last EXCEPT !["resolve"] = [ok |-> sid # NoSession, value |-> sid]]
    /\ cmd' = [cmd EXCEPT ![t].pc = "resolved"]
    /\ UNCHANGED <<nodes, told, view, file, active, chosen, handle, pumps, crossed, over, calls>>

Resolved(t) ==
    /\ At(t, {"target"}, "resolved")
    /\ IF last["resolve"].ok
       THEN cmd' = [cmd EXCEPT ![t].arg = last["resolve"].value, ![t].pc = "set"] /\ UNCHANGED told
       ELSE Ends(t, FALSE)
    /\ UNCHANGED <<nodes, last, view, file, active, chosen, handle, pumps, crossed, over, calls>>

SetView(t) ==
    /\ At(t, {"target"}, "set")
    /\ view' = cmd[t].arg
    /\ cmd' = [cmd EXCEPT ![t].pc = "file"]
    /\ UNCHANGED <<nodes, last, told, file, active, chosen, handle, pumps, crossed, over, calls>>

SetFile(t) ==
    /\ At(t, {"target"}, "file")
    /\ file' = cmd[t].arg
    /\ active' = [active EXCEPT ![t] = cmd[t].arg]
    /\ chosen' = [sid |-> IF cmd[t].id = NoSession THEN NoSession ELSE SessionOf[cmd[t].id],
                  alone |-> cmd[t].alone]
    /\ Ends(t, TRUE)
    /\ UNCHANGED <<nodes, last, view, handle, pumps, crossed, over, calls>>

--------------------------------------------------------------------------------
\* The Notion pump: notion.mirror.watch

Start(t) == Begin(t, "start", "", "", "check")
Stop(t)  == Begin(t, "stop", "", "", "check")

\* There is one already, or the tab goes on to start one.
StartChecks(t) ==
    /\ At(t, {"start"}, "check")
    /\ IF handle # NoPump THEN Ends(t, FALSE)
       ELSE cmd' = [cmd EXCEPT ![t].pc = "do"] /\ UNCHANGED told
    /\ UNCHANGED <<nodes, last, view, file, active, chosen, handle, pumps, crossed, over, calls>>

\* pump.start, and the handle after it.
Starts(t) ==
    /\ At(t, {"start"}, "do")
    /\ LET p == CHOOSE n \in 1 .. Cardinality(pumps) + 1 : n \notin pumps IN
       /\ pumps' = pumps \cup {p}
       /\ cmd' = [cmd EXCEPT ![t].pump = p, ![t].pc = "set"]
    /\ UNCHANGED <<nodes, last, told, view, file, active, chosen, handle, crossed, over, calls>>

Keeps(t) ==
    /\ At(t, {"start"}, "set")
    /\ handle' = cmd[t].pump
    /\ Ends(t, TRUE)
    /\ UNCHANGED <<nodes, last, view, file, active, chosen, pumps, crossed, over, calls>>

StopReads(t) ==
    /\ At(t, {"stop"}, "check")
    /\ IF handle = NoPump THEN Ends(t, TRUE)
       ELSE cmd' = [cmd EXCEPT ![t].pump = handle, ![t].pc = "do"] /\ UNCHANGED told
    /\ UNCHANGED <<nodes, last, view, file, active, chosen, handle, pumps, crossed, over, calls>>

\* pump.stop, which joins its thread, and the handle in the end.
Stops(t) ==
    /\ At(t, {"stop"}, "do")
    /\ pumps' = pumps \ {cmd[t].pump}
    /\ cmd' = [cmd EXCEPT ![t].pc = "clear"]
    /\ UNCHANGED <<nodes, last, told, view, file, active, chosen, handle, crossed, over, calls>>

Clears(t) ==
    /\ At(t, {"stop"}, "clear")
    /\ handle' = NoPump
    /\ Ends(t, TRUE)
    /\ UNCHANGED <<nodes, last, view, file, active, chosen, pumps, crossed, over, calls>>

Next ==
    \E t \in Tabs :
        \/ Mutate(t) \/ Paste(t) \/ Allocate(t) \/ Check(t) \/ Make(t) \/ Edit(t) \/ Read(t)
        \/ Target(t) \/ Resolve(t) \/ Resolved(t) \/ SetView(t) \/ SetFile(t)
        \/ Start(t) \/ StartChecks(t) \/ Starts(t) \/ Keeps(t)
        \/ Stop(t) \/ StopReads(t) \/ Stops(t) \/ Clears(t)

Spec == Init /\ [][Next]_vars

--------------------------------------------------------------------------------
(* Properties *)

\* Types of the state.
TypeOK ==
    /\ \A i \in DOMAIN nodes : nodes[i].type \in EngineTypes \cup Reserved \cup {""}
    /\ \A t \in Tabs : cmd[t].alone \in BOOLEAN
    /\ {view, file} \subseteq {SessionOf[n] : n \in DOMAIN SessionOf} \cup {NoSession}
    /\ calls \in 0 .. MaxCalls /\ pumps \subseteq 1 .. MaxCalls

\* A tab whose command no other about the same crossed is told it was done if and only
\* if it was: what it reads is not the answer to an earlier one.
ToldWhatItDid ==
    \A t \in Tabs :
        (told[t].alone /\ told[t].verb \in NodeVerbs \cup {"paste"}) => told[t].ok = told[t].did

\* A node is spawned over another only by commands that crossed; and a node is dead if
\* and only if the engine does not have its type.
NothingIsOverwritten ==
    /\ over => "nodes" \in crossed
    /\ \A i \in DOMAIN nodes : Known(i) => (nodes[i].dead <=> nodes[i].type \notin EngineTypes)

\* When a target was chosen and no other choice crossed it, node and file agree on it,
\* and it is what the name stands for.
TargetIsAgreed ==
    (chosen.alone /\ \A t \in Tabs : cmd[t].verb # "target") => view = chosen.sid /\ file = chosen.sid

\* As long as no two commands about it crossed, there is one pump at most, and the
\* handle has it.
PumpIsHeld ==
    ("pump" \notin crossed /\ \A t \in Tabs : Subject(cmd[t].verb) # "pump") =>
        pumps = {handle} \ {NoPump}

\* Commands of tabs that do not cross are told what they did, and leave nodes, target
\* and pump as they say.
CommandsAreTold ==
    TypeOK /\ ToldWhatItDid /\ NothingIsOverwritten /\ TargetIsAgreed /\ PumpIsHeld

\* "without the spawn happening" (commands.py:1030): of a paste whose type is reserved
\* and that is refused, a dead node stays.  It does not hold.
RefusedLeavesNothing ==
    \A t \in Tabs : (told[t].verb = "paste" /\ ~told[t].ok /\ told[t].alone) => ~Known(told[t].id)

\* "process-local singleton handle" (commands.py:1419): two tabs that start a pump at
\* once have two, and one of them cannot be stopped.  It does not hold.
OnePump == Cardinality(pumps) <= 1
================================================================================
