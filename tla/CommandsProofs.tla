---------------------------- MODULE CommandsProofs ----------------------------
(***************************************************************************)
(* Theorems about what users command: the commands of tabs, the senders    *)
(* they trust, and drops of nodes on nodes.  What two commands of tabs     *)
(* share is the subject they are about, so their invariant has a part for  *)
(* each subject, and one that says who is alone with it.                   *)
(***************************************************************************)
EXTENDS TabCommands, Senders, DragDrop, FiniteSetTheorems, WellFoundedInduction, TLAPS

\* Of a tab's command.
NodeCommands == NodeVerbs \cup {"paste"}
PumpCommands == {"start", "stop"}
Verbs == NodeCommands \cup PumpCommands \cup {"target", "idle"}
Pcs == {"idle", "allocate", "check", "do", "read", "resolve", "resolved", "set", "file", "clear"}
Sids == {SessionOf[n] : n \in DOMAIN SessionOf} \cup {NoSession}
Ids  == Names \cup {Pasted[k] : k \in DOMAIN Pasted}
CmdIds == Ids \cup DOMAIN SessionOf \cup {"", NoSession}
Args == EngineTypes \cup Reserved \cup Values \cup Names \cup Sids \cup {""}
Cmds == [verb : Verbs, id : CmdIds, arg : Args, pump : Nat,
         pc : Pcs, alone : BOOLEAN, did : BOOLEAN]
Tolds == [ok : BOOLEAN, did : BOOLEAN, alone : BOOLEAN,
          id : CmdIds, verb : Verbs]
Answered == [NodeVerbs \cup {"resolve"} -> [ok : BOOLEAN, value : Sids]]
NodeRecords == [type : EngineTypes \cup Reserved \cup {""}, dead : BOOLEAN, param : Args, to : Args]

Typed ==
    /\ cmd \in [Tabs -> Cmds]
    /\ told \in [Tabs -> Tolds]
    /\ last \in Answered
    /\ calls \in 0 .. MaxCalls

\* Commands about one subject that run at once have each lost the claim to be alone.
AloneIsAlone ==
    \A t, u \in Tabs :
        t # u /\ Subject(cmd[t].verb) = Subject(cmd[u].verb) /\ Subject(cmd[t].verb) # "nothing" =>
            ~cmd[t].alone /\ ~cmd[u].alone /\ Subject(cmd[t].verb) \in crossed

--------------------------------------------------------------------------------

\* The view state in which a command of nodes finds its answer.
Told(t) == IF cmd[t].verb = "paste" THEN "spawn" ELSE cmd[t].verb

\* A command that was alone reads what its own action left; an id that was free is so
\* until the node is made.
NodesInv ==
    /\ nodes \in [Ids -> NodeRecords] /\ over \in BOOLEAN
    /\ NothingIsOverwritten /\ ToldWhatItDid
    /\ \A t \in Tabs :
          /\ cmd[t].verb \in {"spawn", "paste"} => cmd[t].arg \in EngineTypes \cup Reserved
          /\ cmd[t].verb \in {"spawn", "paste"} /\ cmd[t].pc = "do" /\ "nodes" \notin crossed => ~Known(cmd[t].id)
          /\ cmd[t].verb \in NodeCommands /\ cmd[t].pc # "read" => ~cmd[t].did
          /\ cmd[t].verb \in NodeCommands /\ cmd[t].pc = "read" /\ cmd[t].alone => (last[Told(t)].ok <=> cmd[t].did)

\* What a command of the target is to choose.
Meant(t) == IF cmd[t].id = NoSession THEN NoSession ELSE SessionOf[cmd[t].id]

\* Node and file agree, or some command has set the node and is about to set the file.
TargetInv ==
    /\ view \in Sids /\ file \in Sids
    /\ \A t \in Tabs : cmd[t].verb = "target" =>
          /\ cmd[t].pc \in {"resolve", "resolved", "set", "file"}
          /\ cmd[t].pc \in {"resolve", "resolved"} => cmd[t].id \in DOMAIN SessionOf
          /\ cmd[t].pc \in {"set", "file"} => cmd[t].arg \in Sids
          /\ cmd[t].alone /\ cmd[t].pc = "resolved" =>
                last["resolve"].value = Meant(t) /\ (last["resolve"].ok <=> Meant(t) # NoSession)
          /\ cmd[t].alone /\ cmd[t].pc \in {"set", "file"} => cmd[t].arg = Meant(t)
          /\ cmd[t].alone /\ cmd[t].pc = "file" => view = Meant(t)
    /\ chosen.alone =>
          /\ file = chosen.sid
          /\ view = chosen.sid \/ \E t \in Tabs : cmd[t].verb = "target" /\ cmd[t].pc = "file"

\* The tabs that may yet start a pump.
Starting == {t \in Tabs : cmd[t].verb = "start" /\ cmd[t].pc \in {"check", "do"}}

\* No more pumps than calls that started one; and where the one command is with it.
PumpInv ==
    /\ IsFiniteSet(pumps) /\ pumps \subseteq 1 .. MaxCalls /\ handle \in Nat
    /\ Cardinality(pumps) + Cardinality(Starting) <= calls
    /\ PumpIsHeld
    /\ "pump" \notin crossed => \A t \in Tabs :
          /\ cmd[t].verb = "start" /\ cmd[t].pc = "do" => handle = NoPump /\ pumps = {}
          /\ cmd[t].verb = "start" /\ cmd[t].pc = "set" =>
                handle = NoPump /\ cmd[t].pump # NoPump /\ pumps = {cmd[t].pump}
          /\ cmd[t].verb \in PumpCommands /\ cmd[t].pc = "check" => pumps = {handle} \ {NoPump}
          /\ cmd[t].verb = "stop" /\ cmd[t].pc = "do" => cmd[t].pump = handle /\ pumps = {handle} \ {NoPump}
          /\ cmd[t].verb = "stop" /\ cmd[t].pc = "clear" => pumps = {}
    /\ \A t \in Tabs : cmd[t].verb \in PumpCommands => cmd[t].pc \in {"check", "do", "set", "clear"}

TabsInv == Typed /\ AloneIsAlone /\ NodesInv /\ TargetInv /\ PumpInv

--------------------------------------------------------------------------------
(* Who shares a subject *)

LEMMA Subjects ==
    /\ \A v \in Verbs : /\ Subject(v) = "nodes" <=> v \in NodeCommands
                        /\ Subject(v) = "target" <=> v = "target"
                        /\ Subject(v) = "pump" <=> v \in PumpCommands
                        /\ Subject(v) = "nothing" <=> v = "idle"
BY DEF Subject, Verbs, NodeCommands, NodeVerbs, PumpCommands

LEMMA Bounded == MaxCalls \in Nat
BY TabCommandsAssumption

LEMMA IdleIsTyped == Idle \in Cmds /\ Idle.verb = "idle"
BY DEF Idle, Cmds, CmdIds, NoPump, Verbs, Pcs, Args

\* A command is begun, and no other shares its subject or all that do are told.
Begins(t, verb, id, arg, pc) ==
    /\ cmd[t] = Idle /\ cmd' \in [Tabs -> Cmds] /\ calls' = calls + 1 /\ calls < MaxCalls
    /\ cmd'[t].verb = verb /\ cmd'[t].id = id /\ cmd'[t].arg = arg /\ cmd'[t].pc = pc
    /\ ~cmd'[t].did /\ cmd'[t].pump = NoPump
    /\ \A u \in Tabs \ {t} :
          /\ cmd'[u].verb = cmd[u].verb /\ cmd'[u].id = cmd[u].id /\ cmd'[u].arg = cmd[u].arg
          /\ cmd'[u].pc = cmd[u].pc /\ cmd'[u].pump = cmd[u].pump
          /\ cmd'[u].did <=> cmd[u].did
          /\ cmd'[u].alone => cmd[u].alone
          /\ Subject(cmd[u].verb) = Subject(verb) =>
                ~cmd'[u].alone /\ ~cmd'[t].alone /\ Subject(verb) \in crossed'
    /\ crossed \subseteq crossed'
    /\ UNCHANGED <<nodes, last, told, view, file, active, chosen, handle, pumps, over>>

LEMMA BeginCmds ==
    ASSUME Typed, NEW t \in Tabs, NEW verb \in Verbs \ {"idle"}, NEW id \in CmdIds,
           NEW arg \in Args, NEW pc \in Pcs, Begin(t, verb, id, arg, pc)
    PROVE  Begins(t, verb, id, arg, pc)
<1> DEFINE others == {u \in Tabs \ {t} : Subject(cmd[u].verb) = Subject(verb)}
           new == [verb |-> verb, id |-> id, arg |-> arg, pump |-> NoPump, pc |-> pc,
                   alone |-> others = {}, did |-> FALSE]
<1>1. /\ cmd[t] = Idle /\ calls < MaxCalls /\ calls' = calls + 1
      /\ cmd' = [u \in Tabs |-> IF u = t THEN new
                                ELSE IF u \in others THEN [cmd[u] EXCEPT !.alone = FALSE] ELSE cmd[u]]
      /\ crossed' = IF others = {} THEN crossed ELSE crossed \cup {Subject(verb)}
      /\ UNCHANGED <<nodes, last, told, view, file, active, chosen, handle, pumps, over>>
  BY DEF Begin
<1>2. new \in Cmds
  BY DEF Cmds, CmdIds, NoPump
<1>3. \A u \in Tabs : cmd[u] \in Cmds /\ [cmd[u] EXCEPT !.alone = FALSE] \in Cmds
  BY DEF Typed, Cmds
<1>4. cmd' \in [Tabs -> Cmds] /\ cmd'[t] = new
  <2> HIDE DEF new, others
  <2> QED
    BY <1>1, <1>2, <1>3
<1>5. ASSUME NEW u \in Tabs \ {t}
      PROVE  /\ cmd'[u].verb = cmd[u].verb /\ cmd'[u].id = cmd[u].id /\ cmd'[u].arg = cmd[u].arg
             /\ cmd'[u].pc = cmd[u].pc /\ cmd'[u].pump = cmd[u].pump
             /\ cmd'[u].did <=> cmd[u].did
             /\ cmd'[u].alone => cmd[u].alone
             /\ u \in others => ~cmd'[u].alone
  <2>1. cmd'[u] = IF u \in others THEN [cmd[u] EXCEPT !.alone = FALSE] ELSE cmd[u]
    BY <1>1
  <2> HIDE DEF others
  <2> QED
    BY <1>3, <2>1 DEF Cmds
<1>6. others # {} => ~new.alone /\ Subject(verb) \in crossed'
  BY <1>1
<1>7. /\ cmd'[t].verb = verb /\ cmd'[t].id = id /\ cmd'[t].arg = arg /\ cmd'[t].pc = pc
      /\ ~cmd'[t].did /\ cmd'[t].pump = NoPump
      /\ others # {} => ~cmd'[t].alone
  <2>1. new.alone = (others = {}) /\ new.did = FALSE
    BY Zenon
  <2>2. /\ new.verb = verb /\ new.id = id /\ new.arg = arg /\ new.pc = pc /\ new.pump = NoPump
    OBVIOUS
  <2> HIDE DEF new, others
  <2> QED
    BY <1>4, <2>1, <2>2
<1>8. \A u \in Tabs \ {t} : Subject(cmd[u].verb) = Subject(verb) =>
         ~cmd'[u].alone /\ ~cmd'[t].alone /\ Subject(verb) \in crossed'
  BY <1>5, <1>6, <1>7
<1>9. crossed \subseteq crossed'
  BY <1>1
<1> HIDE DEF others, new
<1> QED
  BY <1>1, <1>4, <1>5, <1>7, <1>8, <1>9 DEF Begins

LEMMA BeginShared ==
    ASSUME Typed, AloneIsAlone, NEW t \in Tabs, NEW verb \in Verbs \ {"idle"}, NEW id, NEW arg, NEW pc,
           Begins(t, verb, id, arg, pc)
    PROVE  Typed' /\ AloneIsAlone'
<1>1. Typed'
  <2>1. cmd' \in [Tabs -> Cmds] /\ told' = told /\ last' = last /\ calls' = calls + 1 /\ calls < MaxCalls
    BY DEF Begins
  <2>2. calls + 1 \in 0 .. MaxCalls
    <3>1. calls \in 0 .. MaxCalls
      BY DEF Typed
    <3>2. MaxCalls \in Nat /\ calls < MaxCalls
      BY <2>1, TabCommandsAssumption
    <3> QED
      BY <3>1, <3>2
  <2> QED
    BY <2>1, <2>2 DEF Typed
<1>2. AloneIsAlone'
  <2> SUFFICES ASSUME NEW u \in Tabs, NEW v \in Tabs, u # v,
                      Subject(cmd'[u].verb) = Subject(cmd'[v].verb), Subject(cmd'[u].verb) # "nothing"
               PROVE  ~cmd'[u].alone /\ ~cmd'[v].alone /\ Subject(cmd'[u].verb) \in crossed'
    BY DEF AloneIsAlone
  <2>1. CASE u = t
    BY <2>1 DEF Begins
  <2>2. CASE v = t
    BY <2>2 DEF Begins
  <2>3. CASE u # t /\ v # t
    BY <2>3 DEF Begins, AloneIsAlone
  <2> QED
    BY <2>1, <2>2, <2>3
<1> QED
  BY <1>1, <1>2

\* A step of one command: its tab stays with the subject or is done, the others stay.
Steps(t) ==
    /\ cmd' \in [Tabs -> Cmds] /\ \A u \in Tabs \ {t} : cmd'[u] = cmd[u]
    /\ cmd'[t].verb \in {cmd[t].verb, "idle"}
    /\ cmd'[t].verb = cmd[t].verb => (cmd'[t].alone <=> cmd[t].alone)
    /\ UNCHANGED <<crossed, calls>>

LEMMA StepsShared ==
    ASSUME Typed, AloneIsAlone, NEW t \in Tabs, Steps(t), last' \in Answered, told' \in [Tabs -> Tolds]
    PROVE  Typed' /\ AloneIsAlone'
<1>1. Typed'
  BY DEF Typed, Steps
<1>2. Subject("idle") = "nothing"
  BY DEF Subject, NodeVerbs
<1>3. AloneIsAlone'
  BY <1>2 DEF AloneIsAlone, Steps
<1> QED
  BY <1>1, <1>3

\* The command of tab t goes on, at pc, with another id, argument, pump or result.
Moves(t, id, arg, pump, pc) ==
    /\ Steps(t)
    /\ cmd'[t].verb = cmd[t].verb /\ cmd'[t].id = id /\ cmd'[t].arg = arg
    /\ cmd'[t].pump = pump /\ cmd'[t].pc = pc

LEMMA GoOn ==
    ASSUME Typed, NEW t \in Tabs, UNCHANGED <<crossed, calls>>, NEW pc \in Pcs
    PROVE  /\ cmd' = [cmd EXCEPT ![t].pc = pc] =>
                 Moves(t, cmd[t].id, cmd[t].arg, cmd[t].pump, pc) /\ (cmd'[t].did <=> cmd[t].did)
           /\ \A id \in CmdIds : cmd' = [cmd EXCEPT ![t].id = id, ![t].pc = pc] =>
                 Moves(t, id, cmd[t].arg, cmd[t].pump, pc) /\ (cmd'[t].did <=> cmd[t].did)
           /\ \A arg \in Args : cmd' = [cmd EXCEPT ![t].arg = arg, ![t].pc = pc] =>
                 Moves(t, cmd[t].id, arg, cmd[t].pump, pc) /\ (cmd'[t].did <=> cmd[t].did)
           /\ \A p \in Nat : cmd' = [cmd EXCEPT ![t].pump = p, ![t].pc = pc] =>
                 Moves(t, cmd[t].id, cmd[t].arg, p, pc) /\ (cmd'[t].did <=> cmd[t].did)
           /\ \A did \in BOOLEAN : cmd' = [cmd EXCEPT ![t].pc = pc, ![t].did = did] =>
                 Moves(t, cmd[t].id, cmd[t].arg, cmd[t].pump, pc) /\ (cmd'[t].did <=> did)
<1>1. cmd \in [Tabs -> Cmds]
  BY DEF Typed
<1>2. ASSUME cmd' = [cmd EXCEPT ![t].pc = pc]
      PROVE  Moves(t, cmd[t].id, cmd[t].arg, cmd[t].pump, pc) /\ (cmd'[t].did <=> cmd[t].did)
  BY <1>1, <1>2 DEF Moves, Steps, Cmds
<1>3. ASSUME NEW id \in CmdIds, cmd' = [cmd EXCEPT ![t].id = id, ![t].pc = pc]
      PROVE  Moves(t, id, cmd[t].arg, cmd[t].pump, pc) /\ (cmd'[t].did <=> cmd[t].did)
  BY <1>1, <1>3 DEF Moves, Steps, Cmds
<1>4. ASSUME NEW arg \in Args, cmd' = [cmd EXCEPT ![t].arg = arg, ![t].pc = pc]
      PROVE  Moves(t, cmd[t].id, arg, cmd[t].pump, pc) /\ (cmd'[t].did <=> cmd[t].did)
  BY <1>1, <1>4 DEF Moves, Steps, Cmds
<1>5. ASSUME NEW p \in Nat, cmd' = [cmd EXCEPT ![t].pump = p, ![t].pc = pc]
      PROVE  Moves(t, cmd[t].id, cmd[t].arg, p, pc) /\ (cmd'[t].did <=> cmd[t].did)
  BY <1>1, <1>5 DEF Moves, Steps, Cmds
<1>6. ASSUME NEW did \in BOOLEAN, cmd' = [cmd EXCEPT ![t].pc = pc, ![t].did = did]
      PROVE  Moves(t, cmd[t].id, cmd[t].arg, cmd[t].pump, pc) /\ (cmd'[t].did <=> did)
  BY <1>1, <1>6 DEF Moves, Steps, Cmds
<1> QED
  BY <1>2, <1>3, <1>4, <1>5, <1>6

\* The command of tab t is over, and its tab is told.
Over(t, ok) ==
    /\ Steps(t) /\ cmd'[t] = Idle
    /\ told' \in [Tabs -> Tolds] /\ \A u \in Tabs \ {t} : told'[u] = told[u]
    /\ told'[t].verb = cmd[t].verb
    /\ told'[t].ok <=> ok
    /\ told'[t].did <=> cmd[t].did
    /\ told'[t].alone <=> cmd[t].alone

LEMMA GetDone ==
    ASSUME Typed, NEW t \in Tabs, cmd[t].verb # "idle", UNCHANGED <<crossed, calls>>, NEW ok \in BOOLEAN, Ends(t, ok)
    PROVE  Over(t, ok)
<1>1. cmd \in [Tabs -> Cmds] /\ told \in [Tabs -> Tolds]
  BY DEF Typed
<1> DEFINE new == [ok |-> ok, did |-> cmd[t].did, alone |-> cmd[t].alone, id |-> cmd[t].id, verb |-> cmd[t].verb]
<1>2. cmd' = [cmd EXCEPT ![t] = Idle] /\ told' = [told EXCEPT ![t] = new]
  BY DEF Ends
<1>3. new \in Tolds
  BY <1>1 DEF Cmds, Tolds
<1>4. new.verb = cmd[t].verb /\ new.ok = ok /\ new.did = cmd[t].did /\ new.alone = cmd[t].alone
  OBVIOUS
<1>5. Idle.verb = "idle" /\ Idle \in Cmds
  BY IdleIsTyped
<1>6. cmd' \in [Tabs -> Cmds] /\ cmd'[t] = Idle /\ \A u \in Tabs \ {t} : cmd'[u] = cmd[u]
  BY <1>1, <1>2, <1>5
<1>7. cmd'[t].verb \in {cmd[t].verb, "idle"}
  BY <1>5, <1>6
<1>8. Steps(t)
  BY <1>5, <1>6 DEF Steps
<1> HIDE DEF new
<1>9. told' \in [Tabs -> Tolds] /\ told'[t] = new /\ \A u \in Tabs \ {t} : told'[u] = told[u]
  BY <1>1, <1>2, <1>3
<1> QED
  BY <1>4, <1>6, <1>8, <1>9 DEF Over

--------------------------------------------------------------------------------
(* Nodes *)

NodesTab(t) ==
    /\ cmd[t].verb \in {"spawn", "paste"} => cmd[t].arg \in EngineTypes \cup Reserved
    /\ cmd[t].verb \in {"spawn", "paste"} /\ cmd[t].pc = "do" /\ "nodes" \notin crossed => ~Known(cmd[t].id)
    /\ cmd[t].verb \in NodeCommands /\ cmd[t].pc # "read" => ~cmd[t].did
    /\ cmd[t].verb \in NodeCommands /\ cmd[t].pc = "read" /\ cmd[t].alone => (last[Told(t)].ok <=> cmd[t].did)

\* A step that leaves nodes and their answers alone, of a command about something else
\* or that has not come to the nodes.
LEMMA NodesFrame ==
    ASSUME NodesInv, NEW t \in Tabs, UNCHANGED <<nodes, over>>, crossed \subseteq crossed',
           \A v \in NodeVerbs : last'[v] = last[v],
           \A u \in Tabs \ {t} :
               /\ cmd'[u].verb = cmd[u].verb /\ cmd'[u].id = cmd[u].id /\ cmd'[u].arg = cmd[u].arg
               /\ cmd'[u].pc = cmd[u].pc
               /\ cmd'[u].did <=> cmd[u].did
               /\ cmd'[u].alone => cmd[u].alone,
           \A u \in Tabs \ {t} : told'[u] = told[u],
           told'[t] = told[t] \/ told'[t].verb \notin NodeCommands,
           NodesTab(t)'
    PROVE  NodesInv'
<1>1. \A u \in Tabs : NodesTab(u)
  BY DEF NodesInv, NodesTab
<1>2. ASSUME NEW u \in Tabs \ {t} PROVE NodesTab(u)'
  <2>1. cmd'[u].verb \in NodeCommands => Told(u) \in NodeVerbs /\ Told(u)' = Told(u)
    BY DEF Told, NodeCommands, NodeVerbs
  <2>2. /\ cmd'[u].verb \in {"spawn", "paste"} => cmd'[u].arg \in EngineTypes \cup Reserved
        /\ cmd'[u].verb \in {"spawn", "paste"} /\ cmd'[u].pc = "do" /\ "nodes" \notin crossed' => ~Known(cmd[u].id)'
        /\ cmd'[u].verb \in NodeCommands /\ cmd'[u].pc # "read" => ~cmd'[u].did
    BY <1>1 DEF NodesTab, Known
  <2>3. cmd'[u].verb \in NodeCommands /\ cmd'[u].pc = "read" /\ cmd'[u].alone =>
           (last'[Told(u)'].ok <=> cmd'[u].did)
    BY <1>1, <2>1 DEF NodesTab
  <2> QED
    BY <2>2, <2>3 DEF NodesTab
<1>3. NothingIsOverwritten'
  BY DEF NodesInv, NothingIsOverwritten, Known
<1>4. ToldWhatItDid'
  BY DEF NodesInv, ToldWhatItDid, NodeCommands
<1>5. nodes' \in [Ids -> NodeRecords] /\ over' \in BOOLEAN
  BY DEF NodesInv
<1>6. \A u \in Tabs : NodesTab(u)'
  BY <1>2
<1> QED
  BY <1>3, <1>4, <1>5, <1>6 DEF NodesInv, NodesTab

\* A command that is begun has done nothing, and looks before it makes a node.
LEMMA NodesBegin ==
    ASSUME Typed, NodesInv, NEW t \in Tabs, NEW verb \in Verbs \ {"idle"}, NEW id, NEW arg, NEW pc,
           Begins(t, verb, id, arg, pc),
           verb \in {"spawn", "paste"} => pc # "do" /\ arg \in EngineTypes \cup Reserved,
           verb \in NodeCommands => pc # "read"
    PROVE  NodesInv'
<1>1. NodesTab(t)'
  BY DEF NodesTab, Begins
<1>2. UNCHANGED <<nodes, over, last, told>> /\ crossed \subseteq crossed'
  BY DEF Begins
<1>3. ASSUME NEW u \in Tabs \ {t}
      PROVE  /\ cmd'[u].verb = cmd[u].verb /\ cmd'[u].id = cmd[u].id /\ cmd'[u].arg = cmd[u].arg
             /\ cmd'[u].pc = cmd[u].pc
             /\ cmd'[u].did <=> cmd[u].did
             /\ cmd'[u].alone => cmd[u].alone
  BY DEF Begins
<1> QED
  BY <1>1, <1>2, <1>3, NodesFrame

\* A step of a command about something else.
LEMMA NodesElse ==
    ASSUME Typed, NodesInv, NEW t \in Tabs, Steps(t), cmd[t].verb \notin NodeCommands,
           UNCHANGED <<nodes, over>>, \A v \in NodeVerbs : last'[v] = last[v],
           told' = told \/ \E ok \in BOOLEAN : Over(t, ok)
    PROVE  NodesInv'
<1>1. cmd'[t].verb \notin NodeCommands
  BY DEF Steps, NodeCommands, NodeVerbs
<1>2. NodesTab(t)'
  BY <1>1 DEF NodesTab, NodeCommands, NodeVerbs
<1>3. /\ \A u \in Tabs \ {t} : told'[u] = told[u]
      /\ told'[t] = told[t] \/ told'[t].verb \notin NodeCommands
  BY DEF Over
<1>4. UNCHANGED crossed /\ \A u \in Tabs \ {t} : cmd'[u] = cmd[u]
  BY DEF Steps
<1>5. \A u \in Tabs \ {t} :
               /\ cmd'[u].verb = cmd[u].verb /\ cmd'[u].id = cmd[u].id /\ cmd'[u].arg = cmd[u].arg
               /\ cmd'[u].pc = cmd[u].pc
               /\ cmd'[u].did <=> cmd[u].did
               /\ cmd'[u].alone => cmd[u].alone
  BY <1>4
<1> QED
  BY <1>2, <1>3, <1>4, <1>5, NodesFrame

\* A step of a command of nodes: no other is alone, or counts on an id to be free.
LEMMA NodesOwn ==
    ASSUME Typed, AloneIsAlone, NodesInv, NEW t \in Tabs, Steps(t), cmd[t].verb \in NodeCommands,
           nodes' \in [Ids -> NodeRecords], over' \in BOOLEAN,
           NothingIsOverwritten', ToldWhatItDid', NodesTab(t)'
    PROVE  NodesInv'
<1>1. ASSUME NEW u \in Tabs \ {t} PROVE NodesTab(u)'
  <2>1. cmd'[u] = cmd[u] /\ crossed' = crossed
    BY DEF Steps
  <2>2. NodesTab(u)
    BY DEF NodesInv, NodesTab
  <2>3. cmd[u].verb \in NodeCommands => ~cmd[u].alone /\ "nodes" \in crossed
    <3>1. cmd[t].verb \in Verbs /\ cmd[u].verb \in Verbs
      BY DEF Typed, Cmds
    <3> QED
      BY <3>1, Subjects DEF AloneIsAlone
  <2>4. {"spawn", "paste"} \subseteq NodeCommands
    BY DEF NodeCommands, NodeVerbs
  <2> QED
    BY <2>1, <2>2, <2>3, <2>4 DEF NodesTab
<1> QED
  BY <1>1 DEF NodesInv, NodesTab

\* What every step of a command of nodes begins with.
LEMMA NodesAt ==
    ASSUME Typed, NodesInv, NEW t \in Tabs
    PROVE  /\ cmd[t] \in Cmds /\ cmd[t].id \in CmdIds /\ cmd[t].arg \in Args /\ cmd[t].pump \in Nat
           /\ cmd[t].did \in BOOLEAN /\ cmd[t].alone \in BOOLEAN
           /\ NodesTab(t)
BY DEF Typed, Cmds, NodesInv, NodesTab

LEMMA NodesSame ==
    ASSUME NodesInv, UNCHANGED <<nodes, over, crossed>>
    PROVE  nodes' \in [Ids -> NodeRecords] /\ over' \in BOOLEAN /\ NothingIsOverwritten'
BY DEF NodesInv, NothingIsOverwritten, Known

LEMMA ToldSame == NodesInv /\ UNCHANGED told => ToldWhatItDid'
BY DEF NodesInv, ToldWhatItDid

LEMMA NodesAllocate ==
    ASSUME Typed, AloneIsAlone, NodesInv, NEW t \in Tabs, Allocate(t)
    PROVE  Typed' /\ AloneIsAlone' /\ NodesInv' /\ Steps(t)
<1>1. /\ cmd[t].verb = "paste" /\ cmd[t].pc = "allocate"
      /\ UNCHANGED <<nodes, last, told, crossed, over, calls>>
  BY DEF Allocate, At
<1>2. PICK n \in DOMAIN Pasted : cmd' = [cmd EXCEPT ![t].id = Pasted[n], ![t].pc = "check"]
  BY DEF Allocate
<1>3. Pasted[n] \in CmdIds /\ "check" \in Pcs
  BY DEF CmdIds, Ids, Pcs
<1>4. Moves(t, Pasted[n], cmd[t].arg, cmd[t].pump, "check") /\ (cmd'[t].did <=> cmd[t].did)
  BY <1>1, <1>2, <1>3, GoOn
<1>5. Steps(t)
  BY <1>4 DEF Moves
<1>6. Typed' /\ AloneIsAlone'
  BY <1>1, <1>5, StepsShared DEF Typed
<1>7. NodesTab(t)'
  BY <1>1, <1>4, NodesAt DEF NodesTab, Moves
<1> QED
  BY <1>1, <1>5, <1>6, <1>7, NodesOwn, NodesSame, ToldSame DEF NodeCommands

\* An answer of one verb; the others' stay.
LEMMA AnswersTyped ==
    ASSUME Typed, NEW verb \in NodeVerbs, NEW ok \in BOOLEAN, Answers(verb, ok)
    PROVE  /\ last' \in Answered /\ (last'[verb].ok <=> ok)
           /\ last'["resolve"] = last["resolve"]
<1> DEFINE new == [ok |-> ok, value |-> NoSession]
<1>1. new \in [ok : BOOLEAN, value : Sids] /\ new.ok = ok
  BY DEF Sids
<1>2. verb # "resolve"
  BY DEF NodeVerbs
<1>3. last' = [last EXCEPT ![verb] = new] /\ last \in Answered
  BY DEF Answers, Typed
<1> HIDE DEF new
<1>4. last' \in Answered /\ last'[verb] = new /\ last'["resolve"] = last["resolve"]
  BY <1>1, <1>2, <1>3 DEF Answered
<1> QED
  BY <1>1, <1>4

LEMMA NodesCheck ==
    ASSUME Typed, AloneIsAlone, NodesInv, NEW t \in Tabs, Check(t)
    PROVE  /\ Typed' /\ AloneIsAlone' /\ NodesInv' /\ Steps(t)
           /\ last'["resolve"] = last["resolve"]
<1>1. /\ cmd[t].verb \in {"spawn", "paste"} /\ cmd[t].pc = "check"
      /\ UNCHANGED <<nodes, told, crossed, over, calls>>
  BY DEF Check, At
<1>2. CASE Known(cmd[t].id)
  <2>1. cmd' = [cmd EXCEPT ![t].pc = "read"] /\ Answers("spawn", FALSE)
    BY <1>2 DEF Check
  <2>2. Moves(t, cmd[t].id, cmd[t].arg, cmd[t].pump, "read") /\ (cmd'[t].did <=> cmd[t].did)
    BY <1>1, <2>1, GoOn DEF Pcs
  <2>3. Steps(t)
    BY <2>2 DEF Moves
  <2>4. last' \in Answered /\ ~last'["spawn"].ok /\ last'["resolve"] = last["resolve"]
    BY <2>1, AnswersTyped DEF NodeVerbs
  <2>5. Typed' /\ AloneIsAlone'
    BY <1>1, <2>3, <2>4, StepsShared DEF Typed
  <2>6. Told(t)' = "spawn" /\ cmd[t].verb \in NodeCommands
    BY <1>1, <2>2 DEF Told, Moves, NodeCommands, NodeVerbs
  <2>7. NodesTab(t)'
    BY <1>1, <2>2, <2>4, <2>6, NodesAt DEF NodesTab, Moves
  <2> QED
    BY <1>1, <2>3, <2>4, <2>5, <2>6, <2>7, NodesOwn, NodesSame, ToldSame
<1>3. CASE ~Known(cmd[t].id)
  <2>1. cmd' = [cmd EXCEPT ![t].pc = "do"] /\ UNCHANGED last
    BY <1>3 DEF Check
  <2>2. Moves(t, cmd[t].id, cmd[t].arg, cmd[t].pump, "do") /\ (cmd'[t].did <=> cmd[t].did)
    BY <1>1, <2>1, GoOn DEF Pcs
  <2>3. Steps(t)
    BY <2>2 DEF Moves
  <2>5. Typed' /\ AloneIsAlone'
    BY <1>1, <2>1, <2>3, StepsShared DEF Typed
  <2>6. cmd[t].verb \in NodeCommands /\ ~Known(cmd[t].id)'
    BY <1>1, <1>3, <2>2 DEF Known, Moves, NodeCommands, NodeVerbs
  <2>7. NodesTab(t)'
    BY <1>1, <2>2, <2>6, NodesAt DEF NodesTab, Moves
  <2> QED
    BY <1>1, <2>1, <2>3, <2>5, <2>6, <2>7, NodesOwn, NodesSame, ToldSame
<1> QED
  BY <1>2, <1>3

LEMMA NodesMake ==
    ASSUME Typed, AloneIsAlone, NodesInv, NEW t \in Tabs, Make(t)
    PROVE  /\ Typed' /\ AloneIsAlone' /\ NodesInv' /\ Steps(t)
           /\ last'["resolve"] = last["resolve"]
<1> DEFINE i == cmd[t].id
           type == cmd[t].arg
           new == [type |-> type, dead |-> Dead(type), param |-> "", to |-> ""]
<1>1. /\ cmd[t].verb \in {"spawn", "paste"} /\ cmd[t].pc = "do"
      /\ nodes' = [nodes EXCEPT ![i] = new]
      /\ over' = (over \/ Known(i))
      /\ Answers("spawn", ~Dead(type))
      /\ cmd' = [cmd EXCEPT ![t].pc = "read", ![t].did = ~Dead(type)]
      /\ UNCHANGED <<told, crossed, calls>>
  BY DEF Make, At
<1>2. Dead(type) \in BOOLEAN /\ (Dead(type) <=> type \notin EngineTypes)
  BY DEF Dead
<1>3. NodesTab(t) /\ type \in EngineTypes \cup Reserved
  BY <1>1, NodesAt DEF NodesTab
<1>4. new \in NodeRecords /\ new.type = type
  BY <1>2, <1>3 DEF NodeRecords, Args
<1>5. new.dead <=> type \notin EngineTypes
  <2>1. new.dead = Dead(type)
    BY Zenon
  <2> QED
    BY <1>2, <2>1
<1>6. Moves(t, i, type, cmd[t].pump, "read") /\ (cmd'[t].did <=> ~Dead(type))
  BY <1>1, <1>2, GoOn DEF Pcs
<1>7. Steps(t)
  BY <1>6 DEF Moves
<1>8. last' \in Answered /\ (last'["spawn"].ok <=> ~Dead(type)) /\ last'["resolve"] = last["resolve"]
  BY <1>1, <1>2, AnswersTyped DEF NodeVerbs
<1>9. Typed' /\ AloneIsAlone'
  BY <1>1, <1>7, <1>8, StepsShared DEF Typed
<1>10. Told(t)' = "spawn" /\ cmd[t].verb \in NodeCommands
  BY <1>1, <1>6 DEF Told, Moves, NodeCommands, NodeVerbs
<1>11. NodesTab(t)'
  BY <1>1, <1>3, <1>6, <1>8, <1>10 DEF NodesTab, Moves
<1> HIDE DEF new, i, type
<1>12. nodes \in [Ids -> NodeRecords] /\ over \in BOOLEAN /\ NothingIsOverwritten
  BY DEF NodesInv
<1>13. nodes' \in [Ids -> NodeRecords]
  BY <1>1, <1>4, <1>12
<1>14. over' \in BOOLEAN /\ (over' => "nodes" \in crossed')
  <2>1. Known(i) => "nodes" \in crossed
    BY <1>1, <1>3 DEF NodesTab, i
  <2> QED
    BY <1>1, <1>12, <2>1 DEF NothingIsOverwritten
<1>15. ASSUME NEW j \in Ids, nodes'[j] # NoNode PROVE nodes'[j].dead <=> nodes'[j].type \notin EngineTypes
  BY <1>1, <1>4, <1>5, <1>12, <1>15 DEF NothingIsOverwritten, Known
<1>16. NothingIsOverwritten'
  BY <1>13, <1>14, <1>15 DEF NothingIsOverwritten, Known
<1> QED
  BY <1>1, <1>7, <1>8, <1>9, <1>10, <1>11, <1>13, <1>14, <1>16, NodesOwn, ToldSame

LEMMA NodesEdit ==
    ASSUME Typed, AloneIsAlone, NodesInv, NEW t \in Tabs, Edit(t)
    PROVE  /\ Typed' /\ AloneIsAlone' /\ NodesInv' /\ Steps(t)
           /\ last'["resolve"] = last["resolve"]
<1> DEFINE c == cmd[t]
           ok == Known(c.id) /\ (c.verb = "disconnect" => nodes[c.id].to # "")
           edited(n) == IF c.verb = "set_param" THEN [n EXCEPT !.param = c.arg] ELSE [n EXCEPT !.to = c.arg]
<1>1. /\ c.verb \in {"set_param", "connect", "disconnect"} /\ c.pc = "do"
      /\ nodes' = IF ~ok THEN nodes ELSE [nodes EXCEPT ![c.id] = edited(nodes[c.id])]
      /\ Answers(c.verb, ok)
      /\ cmd' = [cmd EXCEPT ![t].pc = "read", ![t].did = ok]
      /\ UNCHANGED <<told, crossed, over, calls>>
  BY DEF Edit, At
<1>2. ok \in BOOLEAN /\ (ok => Known(c.id))
  OBVIOUS
<1>3. c.arg \in Args /\ c.verb \in NodeVerbs /\ NodesTab(t)
  BY <1>1, NodesAt DEF NodeVerbs
<1>4. ASSUME NEW n \in NodeRecords
      PROVE  edited(n) \in NodeRecords /\ edited(n).type = n.type /\ (edited(n).dead <=> n.dead)
  BY <1>3 DEF NodeRecords
<1> HIDE DEF ok, edited
<1>5. Moves(t, c.id, c.arg, c.pump, "read") /\ (cmd'[t].did <=> ok)
  BY <1>1, <1>2, GoOn DEF Pcs
<1>6. Steps(t)
  BY <1>5 DEF Moves
<1>7. last' \in Answered /\ (last'[c.verb].ok <=> ok) /\ last'["resolve"] = last["resolve"]
  BY <1>1, <1>2, <1>3, AnswersTyped
<1>8. Typed' /\ AloneIsAlone'
  BY <1>1, <1>6, <1>7, StepsShared DEF Typed
<1>9. Told(t)' = c.verb /\ c.verb \in NodeCommands
  BY <1>1, <1>5 DEF Told, Moves, NodeCommands, NodeVerbs
<1>10. NodesTab(t)'
  BY <1>1, <1>5, <1>7, <1>9 DEF NodesTab, Moves
<1>11. nodes \in [Ids -> NodeRecords] /\ over \in BOOLEAN /\ NothingIsOverwritten
  BY DEF NodesInv
<1>12. nodes' \in [Ids -> NodeRecords]
  <2>1. c.id \in Ids => edited(nodes[c.id]) \in NodeRecords
    BY <1>4, <1>11
  <2> QED
    BY <1>1, <1>11, <2>1
<1>13. ASSUME NEW j \in Ids, nodes'[j] # NoNode PROVE nodes'[j].dead <=> nodes'[j].type \notin EngineTypes
  <2>1. nodes'[j] = nodes[j] \/ (ok /\ j = c.id /\ nodes'[j] = edited(nodes[j]))
    BY <1>1, <1>11
  <2>2. nodes[j] # NoNode /\ nodes[j] \in NodeRecords
    BY <1>2, <1>11, <1>13, <2>1 DEF Known
  <2> QED
    BY <1>4, <1>11, <2>1, <2>2 DEF NothingIsOverwritten, Known
<1>14. NothingIsOverwritten'
  BY <1>1, <1>11, <1>12, <1>13 DEF NothingIsOverwritten, Known
<1> QED
  BY <1>1, <1>6, <1>7, <1>8, <1>9, <1>10, <1>11, <1>12, <1>14, NodesOwn, ToldSame

LEMMA NodesRead ==
    ASSUME Typed, AloneIsAlone, NodesInv, NEW t \in Tabs, Read(t)
    PROVE  /\ Typed' /\ AloneIsAlone' /\ NodesInv' /\ Steps(t)
           /\ UNCHANGED last
<1>1. /\ cmd[t].verb \in NodeCommands /\ cmd[t].pc = "read"
      /\ Ends(t, last[Told(t)].ok)
      /\ UNCHANGED <<nodes, last, crossed, over, calls>>
  BY DEF Read, At, Told, NodeCommands
<1>2. Told(t) \in NodeVerbs /\ last[Told(t)].ok \in BOOLEAN /\ cmd[t].verb # "idle"
  BY <1>1 DEF Told, NodeCommands, NodeVerbs, Typed, Answered
<1>3. Over(t, last[Told(t)].ok)
  BY <1>1, <1>2, GetDone
<1>4. Steps(t) /\ told' \in [Tabs -> Tolds] /\ cmd'[t].verb = "idle"
  BY <1>3, IdleIsTyped DEF Over
<1>5. Typed' /\ AloneIsAlone'
  BY <1>1, <1>4, StepsShared DEF Typed
<1>6. NodesTab(t)'
  BY <1>4 DEF NodesTab, NodeCommands, NodeVerbs
<1>7. ASSUME NEW u \in Tabs, told'[u].alone, told'[u].verb \in NodeCommands
      PROVE  told'[u].ok <=> told'[u].did
  <2>1. CASE u = t
    <3>1. NodesTab(t)
      BY NodesAt
    <3> QED
      BY <1>1, <1>3, <1>7, <2>1, <3>1 DEF Over, NodesTab
  <2>2. CASE u # t
    <3>1. told'[u] = told[u] /\ told[u] \in Tolds
      BY <1>3, <2>2 DEF Over, Typed
    <3> QED
      BY <1>7, <3>1 DEF NodesInv, ToldWhatItDid, NodeCommands, Tolds
  <2> QED
    BY <2>1, <2>2
<1>8. ToldWhatItDid'
  BY <1>4, <1>7 DEF ToldWhatItDid, NodeCommands, Tolds
<1> QED
  BY <1>1, <1>4, <1>5, <1>6, <1>8, NodesOwn, NodesSame

--------------------------------------------------------------------------------
(* The target *)

TargetTab(t) ==
    cmd[t].verb = "target" =>
        /\ cmd[t].pc \in {"resolve", "resolved", "set", "file"}
        /\ cmd[t].pc \in {"resolve", "resolved"} => cmd[t].id \in DOMAIN SessionOf
        /\ cmd[t].pc \in {"set", "file"} => cmd[t].arg \in Sids
        /\ cmd[t].alone /\ cmd[t].pc = "resolved" =>
              last["resolve"].value = Meant(t) /\ (last["resolve"].ok <=> Meant(t) # NoSession)
        /\ cmd[t].alone /\ cmd[t].pc \in {"set", "file"} => cmd[t].arg = Meant(t)
        /\ cmd[t].alone /\ cmd[t].pc = "file" => view = Meant(t)

ChoiceHolds ==
    chosen.alone =>
        /\ file = chosen.sid
        /\ view = chosen.sid \/ \E t \in Tabs : cmd[t].verb = "target" /\ cmd[t].pc = "file"

LEMMA TargetParts ==
    TargetInv <=> view \in Sids /\ file \in Sids /\ ChoiceHolds /\ \A t \in Tabs : TargetTab(t)
BY DEF TargetInv, TargetTab, ChoiceHolds

\* A step that leaves target and resolver alone, of a tab that has no command of the
\* target yet.
LEMMA TargetFrame ==
    ASSUME TargetInv, NEW t \in Tabs, cmd[t].verb # "target", UNCHANGED <<view, file, chosen>>,
           last'["resolve"] = last["resolve"],
           \A u \in Tabs \ {t} :
               /\ cmd'[u].verb = cmd[u].verb /\ cmd'[u].id = cmd[u].id /\ cmd'[u].arg = cmd[u].arg
               /\ cmd'[u].pc = cmd[u].pc
               /\ cmd'[u].alone => cmd[u].alone,
           TargetTab(t)'
    PROVE  TargetInv'
<1>1. ASSUME NEW u \in Tabs \ {t} PROVE TargetTab(u)'
  <2>1. Meant(u)' = Meant(u)
    BY DEF Meant
  <2>2. TargetTab(u)
    BY TargetParts
  <2> QED
    BY <2>1, <2>2 DEF TargetTab
<1>2. ChoiceHolds'
  BY TargetParts DEF ChoiceHolds
<1>3. view' \in Sids /\ file' \in Sids
  BY TargetParts
<1>4. \A u \in Tabs : TargetTab(u)'
  BY <1>1
<1> QED
  BY <1>2, <1>3, <1>4 DEF TargetInv, TargetTab, ChoiceHolds

LEMMA TargetBegin ==
    ASSUME TargetInv, NEW t \in Tabs, NEW verb, NEW id, NEW arg, NEW pc,
           Begins(t, verb, id, arg, pc),
           verb = "target" => \/ pc = "resolve" /\ id \in DOMAIN SessionOf
                              \/ pc = "set" /\ id = NoSession /\ arg = NoSession
    PROVE  TargetInv'
<1>1. cmd[t].verb # "target"
  BY IdleIsTyped DEF Begins
<1>2. /\ UNCHANGED <<view, file, chosen, last>>
      /\ \A u \in Tabs \ {t} :
               /\ cmd'[u].verb = cmd[u].verb /\ cmd'[u].id = cmd[u].id /\ cmd'[u].arg = cmd[u].arg
               /\ cmd'[u].pc = cmd[u].pc
               /\ cmd'[u].alone => cmd[u].alone
  BY DEF Begins
<1>3. TargetTab(t)'
  <2>1. cmd'[t].verb = verb /\ cmd'[t].id = id /\ cmd'[t].arg = arg /\ cmd'[t].pc = pc
    BY DEF Begins
  <2>2. NoSession \in Sids /\ (id = NoSession => Meant(t)' = NoSession)
    BY <2>1 DEF Sids, Meant
  <2> QED
    BY <2>1, <2>2 DEF TargetTab
<1> QED
  BY <1>1, <1>2, <1>3, TargetFrame

LEMMA TargetElse ==
    ASSUME TargetInv, NEW t \in Tabs, Steps(t), cmd[t].verb # "target",
           UNCHANGED <<view, file, chosen>>, last'["resolve"] = last["resolve"]
    PROVE  TargetInv'
<1>1. cmd'[t].verb # "target" /\ \A u \in Tabs \ {t} : cmd'[u] = cmd[u]
  BY DEF Steps
<1>2. TargetTab(t)'
  BY <1>1 DEF TargetTab
<1>3. \A u \in Tabs \ {t} :
               /\ cmd'[u].verb = cmd[u].verb /\ cmd'[u].id = cmd[u].id /\ cmd'[u].arg = cmd[u].arg
               /\ cmd'[u].pc = cmd[u].pc
               /\ cmd'[u].alone => cmd[u].alone
  BY <1>1
<1> QED
  BY <1>2, <1>3, TargetFrame

\* A step of a command of the target: no other is alone.
LEMMA TargetOwn ==
    ASSUME Typed, AloneIsAlone, TargetInv, NEW t \in Tabs, Steps(t), cmd[t].verb = "target",
           view' \in Sids, file' \in Sids, ChoiceHolds', TargetTab(t)'
    PROVE  TargetInv'
<1>1. ASSUME NEW u \in Tabs \ {t} PROVE TargetTab(u)'
  <2>1. cmd'[u] = cmd[u]
    BY DEF Steps
  <2>2. TargetTab(u)
    BY TargetParts
  <2>3. cmd[u].verb = "target" => ~cmd[u].alone
    BY DEF AloneIsAlone, Subject, NodeVerbs
  <2> QED
    BY <2>1, <2>2, <2>3 DEF TargetTab
<1>2. \A u \in Tabs : TargetTab(u)'
  BY <1>1
<1> QED
  BY <1>2 DEF TargetInv, TargetTab, ChoiceHolds

\* Target and choice stay, and the command was not about to set the file.
LEMMA ChoiceSame ==
    ASSUME TargetInv, NEW t \in Tabs, Steps(t), cmd[t].pc # "file", UNCHANGED <<view, file, chosen>>
    PROVE  view' \in Sids /\ file' \in Sids /\ ChoiceHolds'
BY TargetParts DEF ChoiceHolds, Steps

\* What every step of a command of the target or the pump leaves of the nodes.
NotOfNodes(t) ==
    /\ Steps(t) /\ cmd[t].verb \notin NodeCommands
    /\ UNCHANGED <<nodes, over>>
    /\ last' \in Answered /\ \A v \in NodeVerbs : last'[v] = last[v]
    /\ told' = told \/ \E ok \in BOOLEAN : Over(t, ok)

LEMMA OthersKeep ==
    ASSUME Typed, AloneIsAlone, NodesInv, NEW t \in Tabs, NotOfNodes(t)
    PROVE  Typed' /\ AloneIsAlone' /\ NodesInv'
<1>1. told' \in [Tabs -> Tolds]
  BY DEF NotOfNodes, Over, Typed
<1> QED
  BY <1>1, StepsShared, NodesElse DEF NotOfNodes

LEMMA TargetResolve ==
    ASSUME Typed, AloneIsAlone, TargetInv, NEW t \in Tabs, Resolve(t)
    PROVE  NotOfNodes(t) /\ TargetInv'
<1> DEFINE sid == SessionOf[cmd[t].id]
           new == [ok |-> sid # NoSession, value |-> sid]
<1>1. /\ cmd[t].verb = "target" /\ cmd[t].pc = "resolve"
      /\ last' = [last EXCEPT !["resolve"] = new]
      /\ cmd' = [cmd EXCEPT ![t].pc = "resolved"]
      /\ UNCHANGED <<nodes, told, view, file, chosen, crossed, over, calls>>
  BY DEF Resolve, At
<1>2. cmd[t].id \in DOMAIN SessionOf
  BY <1>1, TargetParts DEF TargetTab
<1>3. sid \in Sids /\ Meant(t) = sid
  BY <1>2, TabCommandsAssumption DEF Sids, Meant
<1>4. new \in [ok : BOOLEAN, value : Sids] /\ new.value = sid /\ (new.ok <=> sid # NoSession)
  BY <1>3
<1>5. Moves(t, cmd[t].id, cmd[t].arg, cmd[t].pump, "resolved")
  BY <1>1, GoOn DEF Pcs
<1>6. Steps(t)
  BY <1>5 DEF Moves
<1> HIDE DEF new, sid
<1>7. last' \in Answered /\ last'["resolve"] = new /\ \A v \in NodeVerbs : last'[v] = last[v]
  BY <1>1, <1>4 DEF Typed, Answered, NodeVerbs
<1>8. NotOfNodes(t)
  BY <1>1, <1>6, <1>7 DEF NotOfNodes, NodeCommands, NodeVerbs
<1>9. Meant(t)' = Meant(t)
  BY <1>5 DEF Meant, Moves
<1>10. TargetTab(t)'
  BY <1>2, <1>3, <1>4, <1>5, <1>7, <1>9 DEF TargetTab, Moves
<1> QED
  BY <1>1, <1>6, <1>8, <1>10, TargetOwn, ChoiceSame

LEMMA TargetResolved ==
    ASSUME Typed, AloneIsAlone, TargetInv, NEW t \in Tabs, Resolved(t)
    PROVE  NotOfNodes(t) /\ TargetInv'
<1>1. /\ cmd[t].verb = "target" /\ cmd[t].pc = "resolved"
      /\ UNCHANGED <<nodes, last, view, file, chosen, crossed, over, calls>>
  BY DEF Resolved, At
<1>2. TargetTab(t) /\ last["resolve"] \in [ok : BOOLEAN, value : Sids]
  BY TargetParts DEF Typed, Answered
<1>3. last' \in Answered /\ cmd[t].verb \notin NodeCommands
  BY <1>1 DEF Typed, NodeCommands, NodeVerbs
<1>4. CASE last["resolve"].ok
  <2>1. cmd' = [cmd EXCEPT ![t].arg = last["resolve"].value, ![t].pc = "set"] /\ UNCHANGED told
    BY <1>4 DEF Resolved
  <2>2. last["resolve"].value \in Sids /\ last["resolve"].value \in Args
    BY <1>2 DEF Args
  <2>3. Moves(t, cmd[t].id, last["resolve"].value, cmd[t].pump, "set")
    BY <1>1, <2>1, <2>2, GoOn DEF Pcs
  <2>4. Steps(t) /\ Meant(t)' = Meant(t)
    BY <2>3 DEF Moves, Meant
  <2>5. TargetTab(t)'
    BY <1>1, <1>2, <2>2, <2>3, <2>4 DEF TargetTab, Moves, Steps
  <2>6. NotOfNodes(t)
    BY <1>1, <1>3, <2>1, <2>4 DEF NotOfNodes
  <2> QED
    BY <1>1, <2>4, <2>5, <2>6, TargetOwn, ChoiceSame
<1>5. CASE ~last["resolve"].ok
  <2>1. Ends(t, FALSE)
    BY <1>5 DEF Resolved
  <2>2. Over(t, FALSE)
    BY <1>1, <2>1, GetDone
  <2>3. Steps(t) /\ cmd'[t].verb = "idle"
    BY <2>2, IdleIsTyped DEF Over
  <2>4. TargetTab(t)'
    BY <2>3 DEF TargetTab
  <2>6. NotOfNodes(t)
    BY <1>1, <1>3, <2>2, <2>3 DEF NotOfNodes
  <2> QED
    BY <1>1, <2>3, <2>4, <2>6, TargetOwn, ChoiceSame
<1> QED
  BY <1>4, <1>5

LEMMA TargetSetView ==
    ASSUME Typed, AloneIsAlone, TargetInv, NEW t \in Tabs, SetView(t)
    PROVE  NotOfNodes(t) /\ TargetInv'
<1>1. /\ cmd[t].verb = "target" /\ cmd[t].pc = "set" /\ view' = cmd[t].arg
      /\ cmd' = [cmd EXCEPT ![t].pc = "file"]
      /\ UNCHANGED <<nodes, last, told, file, chosen, crossed, over, calls>>
  BY DEF SetView, At
<1>2. TargetTab(t) /\ last' \in Answered /\ cmd[t].verb \notin NodeCommands
  BY <1>1, TargetParts DEF Typed, NodeCommands, NodeVerbs
<1>3. Moves(t, cmd[t].id, cmd[t].arg, cmd[t].pump, "file")
  BY <1>1, GoOn DEF Pcs
<1>4. Steps(t) /\ Meant(t)' = Meant(t)
  BY <1>3 DEF Moves, Meant
<1>5. TargetTab(t)'
  BY <1>1, <1>2, <1>3, <1>4 DEF TargetTab, Moves, Steps
<1>6. NotOfNodes(t)
  BY <1>1, <1>2, <1>4 DEF NotOfNodes
<1>7. ChoiceHolds' /\ view' \in Sids /\ file' \in Sids
  <2>1. cmd'[t].verb = "target" /\ cmd'[t].pc = "file"
    BY <1>1, <1>3 DEF Moves
  <2> QED
    BY <1>1, <1>2, <2>1, TargetParts DEF ChoiceHolds, TargetTab
<1> QED
  BY <1>1, <1>4, <1>5, <1>6, <1>7, TargetOwn

LEMMA TargetSetFile ==
    ASSUME Typed, AloneIsAlone, TargetInv, NEW t \in Tabs, SetFile(t)
    PROVE  NotOfNodes(t) /\ TargetInv'
<1>1. /\ cmd[t].verb = "target" /\ cmd[t].pc = "file" /\ file' = cmd[t].arg /\ Ends(t, TRUE)
      /\ chosen' = [sid |-> Meant(t), alone |-> cmd[t].alone]
      /\ UNCHANGED <<nodes, last, view, crossed, over, calls>>
  BY DEF SetFile, At, Meant
<1>2. TargetTab(t) /\ last' \in Answered /\ cmd[t].verb \notin NodeCommands /\ cmd[t].alone \in BOOLEAN
  BY <1>1, TargetParts DEF Typed, Cmds, NodeCommands, NodeVerbs
<1>3. Over(t, TRUE)
  BY <1>1, GetDone
<1>4. Steps(t) /\ cmd'[t].verb = "idle"
  BY <1>3, IdleIsTyped DEF Over
<1>5. TargetTab(t)'
  BY <1>4 DEF TargetTab
<1>6. NotOfNodes(t)
  BY <1>1, <1>2, <1>3, <1>4 DEF NotOfNodes
<1>7. chosen'.sid = Meant(t) /\ (chosen'.alone <=> cmd[t].alone)
  BY <1>1, <1>2
<1>8. ChoiceHolds' /\ view' \in Sids /\ file' \in Sids
  BY <1>1, <1>2, <1>7, TargetParts DEF ChoiceHolds, TargetTab
<1> QED
  BY <1>1, <1>4, <1>5, <1>6, <1>8, TargetOwn

--------------------------------------------------------------------------------
(* The pump *)

\* No more pumps than calls that started one.
PumpCount ==
    /\ IsFiniteSet(pumps) /\ pumps \subseteq 1 .. MaxCalls /\ handle \in Nat
    /\ Cardinality(pumps) + Cardinality(Starting) <= calls

PumpPcs(t) == cmd[t].verb \in PumpCommands => cmd[t].pc \in {"check", "do", "set", "clear"}

\* The handle has the pump that runs, if one does.
Held == pumps = {handle} \ {NoPump}

PumpTab(t) ==
    /\ cmd[t].verb = "start" /\ cmd[t].pc = "do" => handle = NoPump /\ pumps = {}
    /\ cmd[t].verb = "start" /\ cmd[t].pc = "set" =>
          handle = NoPump /\ cmd[t].pump # NoPump /\ pumps = {cmd[t].pump}
    /\ cmd[t].verb \in PumpCommands /\ cmd[t].pc = "check" => Held
    /\ cmd[t].verb = "stop" /\ cmd[t].pc = "do" => cmd[t].pump = handle /\ Held
    /\ cmd[t].verb = "stop" /\ cmd[t].pc = "clear" => pumps = {}

LEMMA PumpParts ==
    ASSUME Typed
    PROVE  PumpInv <=>
              /\ PumpCount /\ \A t \in Tabs : PumpPcs(t)
              /\ "pump" \notin crossed => \A t \in Tabs : PumpTab(t)
              /\ "pump" \notin crossed /\ (\A t \in Tabs : cmd[t].verb \notin PumpCommands) => Held
<1>1. \A t \in Tabs : Subject(cmd[t].verb) = "pump" <=> cmd[t].verb \in PumpCommands
  BY Subjects DEF Typed, Cmds
<1> QED
  BY <1>1 DEF PumpInv, PumpCount, PumpPcs, PumpTab, Held, PumpIsHeld

LEMMA PumpWhole ==
    ASSUME Typed', PumpCount', \A t \in Tabs : PumpPcs(t)',
           "pump" \notin crossed' => \A t \in Tabs : PumpTab(t)',
           "pump" \notin crossed' /\ (\A t \in Tabs : cmd'[t].verb \notin PumpCommands) => Held'
    PROVE  PumpInv'
<1>1. \A t \in Tabs : Subject(cmd'[t].verb) = "pump" <=> cmd'[t].verb \in PumpCommands
  BY Subjects DEF Typed, Cmds
<1>2. PumpIsHeld'
  BY <1>1 DEF PumpIsHeld, Held
<1> QED
  BY <1>2 DEF PumpInv, PumpCount, PumpPcs, PumpTab, Held

LEMMA StartingFinite == IsFiniteSet(Starting) /\ Cardinality(Starting) \in Nat
<1>1. Starting \in SUBSET Tabs
  BY DEF Starting
<1> QED
  BY <1>1, TabCommandsAssumption, FS_Subset, FS_CardinalityType

\* The pumps are not more, and no other tab is to start one.
LEMMA CountSame ==
    ASSUME Typed, PumpCount, pumps' \subseteq pumps, handle' \in Nat,
           calls' \in Nat, calls <= calls', IsFiniteSet(Starting'), Starting' \subseteq Starting
    PROVE  PumpCount'
<1>1. IsFiniteSet(pumps') /\ Cardinality(pumps') <= Cardinality(pumps)
  BY FS_Subset DEF PumpCount
<1>2. Cardinality(Starting') <= Cardinality(Starting)
  BY StartingFinite, FS_Subset
<1>3. /\ Cardinality(pumps') \in Nat /\ Cardinality(pumps) \in Nat
      /\ Cardinality(Starting') \in Nat /\ Cardinality(Starting) \in Nat
  BY <1>1, StartingFinite, FS_CardinalityType DEF PumpCount
<1>4. calls \in Nat
  BY DEF Typed
<1>5. Cardinality(pumps') + Cardinality(Starting') <= calls'
  BY <1>1, <1>2, <1>3, <1>4 DEF PumpCount
<1> QED
  BY <1>1, <1>5 DEF PumpCount

LEMMA StartingSame ==
    ASSUME NEW t \in Tabs, \A u \in Tabs \ {t} : cmd'[u].verb = cmd[u].verb /\ cmd'[u].pc = cmd[u].pc,
           ~(cmd'[t].verb = "start" /\ cmd'[t].pc \in {"check", "do"}) \/ t \in Starting
    PROVE  IsFiniteSet(Starting') /\ Starting' \subseteq Starting
<1>1. Starting' \in SUBSET Starting
  BY DEF Starting
<1> QED
  BY <1>1, StartingFinite, FS_Subset

\* A step of a tab that has no command of the pump, before or after.
LEMMA PumpFrame ==
    ASSUME Typed, Typed', PumpInv, NEW t \in Tabs, UNCHANGED <<pumps, handle>>,
           cmd[t].verb \notin PumpCommands, cmd'[t].verb \notin PumpCommands,
           crossed \subseteq crossed', calls <= calls',
           \A u \in Tabs \ {t} : /\ cmd'[u].verb = cmd[u].verb /\ cmd'[u].pc = cmd[u].pc
                                 /\ cmd'[u].pump = cmd[u].pump
    PROVE  PumpInv'
<1>1. PumpCount'
  <2>1. calls' \in Nat
    BY DEF Typed
  <2>2. IsFiniteSet(Starting') /\ Starting' \subseteq Starting
    BY StartingSame DEF PumpCommands
  <2>3. PumpCount /\ pumps' \subseteq pumps /\ handle' \in Nat
    BY PumpParts DEF PumpCount
  <2> QED
    BY <2>1, <2>2, <2>3, CountSame
<1>2. \A u \in Tabs : PumpPcs(u)'
  BY PumpParts DEF PumpPcs
<1>3. Held' <=> Held
  BY DEF Held
<1>4. ASSUME "pump" \notin crossed', NEW u \in Tabs PROVE PumpTab(u)'
  <2>1. PumpTab(u)
    BY <1>4, PumpParts
  <2>2. {"start", "stop"} = PumpCommands
    BY DEF PumpCommands
  <2> QED
    BY <1>3, <2>1, <2>2 DEF PumpTab
<1>5. "pump" \notin crossed' /\ (\A u \in Tabs : cmd'[u].verb \notin PumpCommands) => Held'
  BY <1>3, PumpParts
<1> QED
  BY <1>1, <1>2, <1>4, <1>5, PumpWhole

LEMMA PumpElse ==
    ASSUME Typed, Typed', PumpInv, NEW t \in Tabs, UNCHANGED <<pumps, handle>>, Steps(t),
           cmd[t].verb \notin PumpCommands
    PROVE  PumpInv'
<1>1. cmd'[t].verb \notin PumpCommands /\ crossed' = crossed /\ calls' = calls
  BY DEF Steps, PumpCommands
<1>2. calls <= calls'
  BY <1>1 DEF Typed
<1>3. \A u \in Tabs \ {t} : /\ cmd'[u].verb = cmd[u].verb /\ cmd'[u].pc = cmd[u].pc
                            /\ cmd'[u].pump = cmd[u].pump
  BY DEF Steps
<1> QED
  BY <1>1, <1>2, <1>3, PumpFrame

LEMMA PumpBegin ==
    ASSUME Typed, Typed', PumpInv, NEW t \in Tabs, NEW verb \in Verbs \ {"idle"}, NEW id, NEW arg, NEW pc,
           Begins(t, verb, id, arg, pc), verb \in PumpCommands => pc = "check"
    PROVE  PumpInv'
<1>1. /\ cmd[t].verb = "idle" /\ calls' = calls + 1 /\ crossed \subseteq crossed'
      /\ UNCHANGED <<pumps, handle>> /\ cmd'[t].verb = verb /\ cmd'[t].pc = pc
      /\ \A u \in Tabs \ {t} : /\ cmd'[u].verb = cmd[u].verb /\ cmd'[u].pc = cmd[u].pc
                               /\ cmd'[u].pump = cmd[u].pump
  BY IdleIsTyped DEF Begins
<1>2. calls \in Nat /\ calls' \in Nat /\ calls <= calls'
  <2>1. calls \in Nat
    BY DEF Typed
  <2> QED
    BY <1>1, <2>1
<1>3. CASE verb \notin PumpCommands
  <2>1. cmd[t].verb \notin PumpCommands
    BY <1>1 DEF PumpCommands
  <2> QED
    BY <1>1, <1>2, <1>3, <2>1, PumpFrame
<1>4. CASE verb \in PumpCommands
  <2>1. PumpCount'
    <3>1. Starting' \in SUBSET (Starting \cup {t})
      BY <1>1 DEF Starting
    <3>2. IsFiniteSet(Starting') /\ Cardinality(Starting') \in Nat
          /\ Cardinality(Starting') <= Cardinality(Starting) + 1
      <4>1. /\ IsFiniteSet(Starting \cup {t}) /\ Cardinality(Starting \cup {t}) \in Nat
            /\ Cardinality(Starting \cup {t}) <= Cardinality(Starting) + 1
        <5>1. /\ IsFiniteSet(Starting \cup {t})
              /\ Cardinality(Starting \cup {t}) = IF t \in Starting THEN Cardinality(Starting) ELSE Cardinality(Starting) + 1
          BY StartingFinite, FS_AddElement
        <5> QED
          BY <5>1, StartingFinite
      <4>2. IsFiniteSet(Starting') /\ Cardinality(Starting') <= Cardinality(Starting \cup {t})
        BY <3>1, <4>1, FS_Subset
      <4>3. Cardinality(Starting') \in Nat
        BY <4>2, FS_CardinalityType
      <4> QED
        BY <4>1, <4>2, <4>3, StartingFinite
    <3>3. PumpCount /\ Cardinality(pumps) \in Nat
      BY PumpParts, FS_CardinalityType DEF PumpCount
    <3>4. Cardinality(pumps) + Cardinality(Starting') <= calls'
      BY <1>1, <1>2, <3>2, <3>3, StartingFinite DEF PumpCount
    <3> QED
      BY <1>1, <3>3, <3>4 DEF PumpCount
  <2>2. \A u \in Tabs : PumpPcs(u)'
    BY <1>1, <1>4, PumpParts DEF PumpPcs
  <2>3. ASSUME "pump" \notin crossed' PROVE \A u \in Tabs : PumpTab(u)'
    <3>1. \A u \in Tabs \ {t} : cmd[u].verb \notin PumpCommands
      <4>1. \A u \in Tabs \ {t} : Subject(cmd[u].verb) # Subject(verb)
        <5>1. Subject(verb) = "pump"
          BY <1>4, Subjects
        <5> QED
          BY <2>3, <5>1 DEF Begins
      <4>2. \A u \in Tabs : cmd[u].verb \in Verbs
        BY DEF Typed, Cmds
      <4> QED
        BY <1>4, <4>1, <4>2, Subjects
    <3>2. cmd[t].verb \notin PumpCommands
      BY <1>1 DEF PumpCommands
    <3>3. Held
      BY <1>1, <2>3, <3>1, <3>2, PumpParts
    <3>4. Held'
      BY <1>1, <3>3 DEF Held
    <3>5. PumpTab(t)'
      BY <1>1, <1>4, <3>4 DEF PumpTab
    <3>6. \A u \in Tabs \ {t} : PumpTab(u)'
      BY <1>1, <3>1 DEF PumpTab, PumpCommands
    <3> QED
      BY <3>5, <3>6
  <2>4. cmd'[t].verb \in PumpCommands
    BY <1>1, <1>4
  <2> QED
    BY <2>1, <2>2, <2>3, <2>4, PumpWhole
<1> QED
  BY <1>3, <1>4

\* A step of a command of the pump: if none crossed, there is no other.
LEMMA PumpOwn ==
    ASSUME Typed, Typed', AloneIsAlone, PumpInv, NEW t \in Tabs, Steps(t), cmd[t].verb \in PumpCommands,
           PumpCount', PumpPcs(t)',
           "pump" \notin crossed =>
               PumpTab(t)' /\ (cmd'[t].verb = "idle" => Held')
    PROVE  PumpInv'
<1>1. crossed' = crossed /\ \A u \in Tabs \ {t} : cmd'[u] = cmd[u]
  BY DEF Steps
<1>2. \A u \in Tabs : PumpPcs(u)'
  BY <1>1, PumpParts DEF PumpPcs
<1>3. ASSUME "pump" \notin crossed' PROVE \A u \in Tabs : PumpTab(u)'
  <2>1. \A u \in Tabs \ {t} : cmd[u].verb \notin PumpCommands
    <3>1. \A u \in Tabs : cmd[u].verb \in Verbs
      BY DEF Typed, Cmds
    <3> QED
      BY <1>1, <1>3, <3>1, Subjects DEF AloneIsAlone
  <2>2. \A u \in Tabs \ {t} : PumpTab(u)'
    BY <1>1, <2>1 DEF PumpTab, PumpCommands
  <2> QED
    BY <1>1, <1>3, <2>2
<1>4. ASSUME "pump" \notin crossed', \A u \in Tabs : cmd'[u].verb \notin PumpCommands PROVE Held'
  <2>1. cmd'[t].verb = "idle"
    BY <1>4 DEF Steps
  <2> QED
    BY <1>1, <1>4, <2>1
<1> QED
  BY <1>2, <1>3, <1>4, PumpWhole

\* A command of the pump has nothing to do with nodes or the target.
Apart(t) == NotOfNodes(t) /\ UNCHANGED <<view, file, chosen, last>> /\ Typed'

LEMMA PumpApart ==
    ASSUME Typed, AloneIsAlone, NEW t \in Tabs, Steps(t), cmd[t].verb \in PumpCommands,
           UNCHANGED <<nodes, over, last, view, file, chosen>>, told' = told \/ \E ok \in BOOLEAN : Over(t, ok)
    PROVE  Apart(t)
<1>1. last' \in Answered /\ cmd[t].verb \notin NodeCommands
  BY DEF Typed, PumpCommands, NodeCommands, NodeVerbs
<1>2. NotOfNodes(t)
  BY <1>1 DEF NotOfNodes
<1>3. told' \in [Tabs -> Tolds]
  BY DEF Over, Typed
<1> QED
  BY <1>1, <1>2, <1>3, StepsShared DEF Apart

\* A pump's command that starts none.
LEMMA CountStep ==
    ASSUME Typed, PumpInv, NEW t \in Tabs, Steps(t), pumps' \subseteq pumps, handle' \in Nat,
           ~(cmd'[t].verb = "start" /\ cmd'[t].pc \in {"check", "do"}) \/ t \in Starting
    PROVE  PumpCount'
<1>1. calls' \in Nat /\ calls <= calls'
  BY DEF Steps, Typed
<1>2. \A u \in Tabs \ {t} : cmd'[u].verb = cmd[u].verb /\ cmd'[u].pc = cmd[u].pc
  BY DEF Steps
<1> QED
  BY <1>1, <1>2, StartingSame, CountSame, PumpParts

LEMMA PumpStartChecks ==
    ASSUME Typed, AloneIsAlone, PumpInv, NEW t \in Tabs, StartChecks(t)
    PROVE  Apart(t) /\ PumpInv'
<1>1. /\ cmd[t].verb = "start" /\ cmd[t].pc = "check" /\ cmd[t].verb \in PumpCommands
      /\ UNCHANGED <<nodes, last, view, file, chosen, handle, pumps, crossed, over, calls>>
  BY DEF StartChecks, At, PumpCommands
<1>2. t \in Starting
  BY <1>1 DEF Starting
<1>3. /\ handle' \in Nat /\ ("pump" \notin crossed => Held)
      /\ Held' <=> Held
  BY <1>1, PumpParts DEF PumpCount, PumpTab, Held
<1>4. CASE handle # NoPump
  <2>1. Ends(t, FALSE)
    BY <1>4 DEF StartChecks
  <2>2. Over(t, FALSE)
    BY <1>1, <2>1, GetDone
  <2>3. Steps(t) /\ cmd'[t].verb = "idle"
    BY <2>2, IdleIsTyped DEF Over
  <2>4. Apart(t)
    BY <1>1, <2>2, <2>3, PumpApart
  <2>5. PumpCount'
    BY <1>1, <1>2, <1>3, <2>3, CountStep
  <2>6. PumpPcs(t)' /\ PumpTab(t)'
    BY <2>3 DEF PumpPcs, PumpTab, PumpCommands
  <2> QED
    BY <1>1, <1>3, <2>3, <2>4, <2>5, <2>6, PumpOwn DEF Apart
<1>5. CASE handle = NoPump
  <2>1. cmd' = [cmd EXCEPT ![t].pc = "do"] /\ UNCHANGED told
    BY <1>5 DEF StartChecks
  <2>2. Moves(t, cmd[t].id, cmd[t].arg, cmd[t].pump, "do")
    BY <1>1, <2>1, GoOn DEF Pcs
  <2>3. Steps(t) /\ cmd'[t].verb = "start" /\ cmd'[t].pc = "do"
    BY <1>1, <2>2 DEF Moves
  <2>4. Apart(t)
    BY <1>1, <2>1, <2>3, PumpApart
  <2>5. PumpCount'
    BY <1>1, <1>2, <1>3, <2>3, CountStep
  <2>6. PumpPcs(t)' /\ ("pump" \notin crossed => PumpTab(t)')
    BY <1>1, <1>3, <1>5, <2>3 DEF PumpPcs, PumpTab, Held
  <2> QED
    BY <1>1, <2>3, <2>4, <2>5, <2>6, PumpOwn DEF Apart
<1> QED
  BY <1>4, <1>5

\* A number is free for one more pump.
LEMMA FreePump ==
    ASSUME IsFiniteSet(pumps)
    PROVE  LET p == CHOOSE n \in 1 .. Cardinality(pumps) + 1 : n \notin pumps
           IN p \in 1 .. Cardinality(pumps) + 1 /\ p \notin pumps
<1>1. Cardinality(pumps) \in Nat
  BY FS_CardinalityType
<1>2. IsFiniteSet(1 .. Cardinality(pumps) + 1) /\ Cardinality(1 .. Cardinality(pumps) + 1) = Cardinality(pumps) + 1
  BY <1>1, FS_Interval
<1>3. ASSUME 1 .. Cardinality(pumps) + 1 \subseteq pumps PROVE FALSE
  BY <1>1, <1>2, <1>3, FS_Subset
<1>4. \E n \in 1 .. Cardinality(pumps) + 1 : n \notin pumps
  BY <1>3
<1> QED
  BY <1>4

LEMMA PumpStarts ==
    ASSUME Typed, AloneIsAlone, PumpInv, NEW t \in Tabs, Starts(t)
    PROVE  Apart(t) /\ PumpInv'
<1> DEFINE p == CHOOSE n \in 1 .. Cardinality(pumps) + 1 : n \notin pumps
<1>1. /\ cmd[t].verb = "start" /\ cmd[t].pc = "do" /\ cmd[t].verb \in PumpCommands
      /\ pumps' = pumps \cup {p}
      /\ cmd' = [cmd EXCEPT ![t].pump = p, ![t].pc = "set"]
      /\ UNCHANGED <<nodes, last, told, view, file, chosen, handle, crossed, over, calls>>
  BY DEF Starts, At, PumpCommands
<1>2. t \in Starting
  BY <1>1 DEF Starting
<1>3. PumpCount /\ Cardinality(pumps) \in Nat /\ Cardinality(Starting) \in Nat /\ calls \in 0 .. MaxCalls
  BY PumpParts, StartingFinite, FS_CardinalityType DEF PumpCount, Typed
<1>4. p \in 1 .. Cardinality(pumps) + 1 /\ p \notin pumps
  BY <1>3, FreePump DEF PumpCount
<1> HIDE DEF p
<1>5. p \in Nat /\ p # NoPump
  BY <1>3, <1>4 DEF NoPump
<1>6. Moves(t, cmd[t].id, cmd[t].arg, p, "set")
  BY <1>1, <1>5, GoOn DEF Pcs
<1>7. Steps(t) /\ cmd'[t].verb = "start" /\ cmd'[t].pc = "set" /\ cmd'[t].pump = p
  BY <1>1, <1>6 DEF Moves
<1>8. Apart(t)
  BY <1>1, <1>7, PumpApart
<1>9. PumpCount'
  <2>1. Starting' = Starting \ {t}
    BY <1>7 DEF Starting, Steps
  <2>2. IsFiniteSet(Starting') /\ Cardinality(Starting') = Cardinality(Starting) - 1
    BY <1>2, <2>1, StartingFinite, FS_RemoveElement
  <2>3. IsFiniteSet(pumps') /\ Cardinality(pumps') = Cardinality(pumps) + 1
    BY <1>1, <1>3, <1>4, FS_AddElement DEF PumpCount
  <2>4. Cardinality(Starting) # 0
    BY <1>2, StartingFinite, FS_EmptySet
  <2>5. Cardinality(pumps) + Cardinality(Starting) <= calls
    BY <1>3 DEF PumpCount
  <2>6. Cardinality(pumps') + Cardinality(Starting') <= calls'
    BY <1>1, <1>3, <2>2, <2>3, <2>5
  <2>7. p \in 1 .. MaxCalls
    <3>1. MaxCalls \in Nat /\ p <= Cardinality(pumps) + 1 /\ p \in Nat /\ p >= 1
      BY <1>3, <1>4, Bounded
    <3> QED
      BY <1>3, <2>4, <2>5, <3>1
  <2> QED
    BY <1>1, <1>3, <2>2, <2>3, <2>6, <2>7 DEF PumpCount
<1>10. PumpPcs(t)' /\ ("pump" \notin crossed => PumpTab(t)')
  <2>1. "pump" \notin crossed => handle = NoPump /\ pumps = {}
    BY <1>1, PumpParts DEF PumpTab
  <2> QED
    BY <1>1, <1>5, <1>7, <2>1 DEF PumpPcs, PumpTab
<1> QED
  BY <1>1, <1>7, <1>8, <1>9, <1>10, PumpOwn DEF Apart

LEMMA PumpKeeps ==
    ASSUME Typed, AloneIsAlone, PumpInv, NEW t \in Tabs, Keeps(t)
    PROVE  Apart(t) /\ PumpInv'
<1>1. /\ cmd[t].verb = "start" /\ cmd[t].pc = "set" /\ cmd[t].verb \in PumpCommands
      /\ handle' = cmd[t].pump /\ Ends(t, TRUE)
      /\ UNCHANGED <<nodes, last, view, file, chosen, pumps, crossed, over, calls>>
  BY DEF Keeps, At, PumpCommands
<1>2. Over(t, TRUE)
  BY <1>1, GetDone
<1>3. Steps(t) /\ cmd'[t].verb = "idle"
  BY <1>2, IdleIsTyped DEF Over
<1>4. Apart(t)
  BY <1>1, <1>2, <1>3, PumpApart
<1>5. handle' \in Nat
  BY <1>1 DEF Typed, Cmds
<1>6. PumpCount'
  BY <1>1, <1>3, <1>5, CountStep
<1>7. PumpPcs(t)' /\ PumpTab(t)'
  BY <1>3 DEF PumpPcs, PumpTab, PumpCommands
<1>8. "pump" \notin crossed => Held'
  BY <1>1, PumpParts DEF PumpTab, Held
<1> QED
  BY <1>1, <1>3, <1>4, <1>6, <1>7, <1>8, PumpOwn DEF Apart

LEMMA PumpStopReads ==
    ASSUME Typed, AloneIsAlone, PumpInv, NEW t \in Tabs, StopReads(t)
    PROVE  Apart(t) /\ PumpInv'
<1>1. /\ cmd[t].verb = "stop" /\ cmd[t].pc = "check" /\ cmd[t].verb \in PumpCommands
      /\ UNCHANGED <<nodes, last, view, file, chosen, handle, pumps, crossed, over, calls>>
  BY DEF StopReads, At, PumpCommands
<1>2. /\ handle \in Nat /\ ("pump" \notin crossed => Held)
      /\ Held' <=> Held
  BY <1>1, PumpParts DEF PumpCount, PumpTab, Held
<1>3. CASE handle = NoPump
  <2>1. Ends(t, TRUE)
    BY <1>3 DEF StopReads
  <2>2. Over(t, TRUE)
    BY <1>1, <2>1, GetDone
  <2>3. Steps(t) /\ cmd'[t].verb = "idle"
    BY <2>2, IdleIsTyped DEF Over
  <2>4. Apart(t)
    BY <1>1, <2>2, <2>3, PumpApart
  <2>5. PumpCount'
    BY <1>1, <1>2, <2>3, CountStep
  <2>6. PumpPcs(t)' /\ PumpTab(t)'
    BY <2>3 DEF PumpPcs, PumpTab, PumpCommands
  <2> QED
    BY <1>1, <1>2, <2>3, <2>4, <2>5, <2>6, PumpOwn DEF Apart
<1>4. CASE handle # NoPump
  <2>1. cmd' = [cmd EXCEPT ![t].pump = handle, ![t].pc = "do"] /\ UNCHANGED told
    BY <1>4 DEF StopReads
  <2>2. Moves(t, cmd[t].id, cmd[t].arg, handle, "do")
    BY <1>1, <1>2, <2>1, GoOn DEF Pcs
  <2>3. Steps(t) /\ cmd'[t].verb = "stop" /\ cmd'[t].pc = "do" /\ cmd'[t].pump = handle
    BY <1>1, <2>2 DEF Moves
  <2>4. Apart(t)
    BY <1>1, <2>1, <2>3, PumpApart
  <2>5. PumpCount'
    BY <1>1, <1>2, <2>3, CountStep
  <2>6. PumpPcs(t)' /\ ("pump" \notin crossed => PumpTab(t)')
    BY <1>1, <1>2, <2>3 DEF PumpPcs, PumpTab
  <2> QED
    BY <1>1, <2>3, <2>4, <2>5, <2>6, PumpOwn DEF Apart
<1> QED
  BY <1>3, <1>4

LEMMA PumpStops ==
    ASSUME Typed, AloneIsAlone, PumpInv, NEW t \in Tabs, Stops(t)
    PROVE  Apart(t) /\ PumpInv'
<1>1. /\ cmd[t].verb = "stop" /\ cmd[t].pc = "do" /\ cmd[t].verb \in PumpCommands
      /\ pumps' = pumps \ {cmd[t].pump}
      /\ cmd' = [cmd EXCEPT ![t].pc = "clear"]
      /\ UNCHANGED <<nodes, last, told, view, file, chosen, handle, crossed, over, calls>>
  BY DEF Stops, At, PumpCommands
<1>2. Moves(t, cmd[t].id, cmd[t].arg, cmd[t].pump, "clear")
  BY <1>1, GoOn DEF Pcs
<1>3. Steps(t) /\ cmd'[t].verb = "stop" /\ cmd'[t].pc = "clear"
  BY <1>1, <1>2 DEF Moves
<1>4. Apart(t)
  BY <1>1, <1>3, PumpApart
<1>5. handle' \in Nat /\ pumps' \subseteq pumps
  BY <1>1, PumpParts DEF PumpCount
<1>6. PumpCount'
  BY <1>3, <1>5, CountStep
<1>7. PumpPcs(t)' /\ ("pump" \notin crossed => PumpTab(t)')
  <2>1. "pump" \notin crossed => pumps' = {}
    BY <1>1, PumpParts DEF PumpTab, Held
  <2> QED
    BY <1>3, <2>1 DEF PumpPcs, PumpTab
<1> QED
  BY <1>1, <1>3, <1>4, <1>6, <1>7, PumpOwn DEF Apart

LEMMA PumpClears ==
    ASSUME Typed, AloneIsAlone, PumpInv, NEW t \in Tabs, Clears(t)
    PROVE  Apart(t) /\ PumpInv'
<1>1. /\ cmd[t].verb = "stop" /\ cmd[t].pc = "clear" /\ cmd[t].verb \in PumpCommands
      /\ handle' = NoPump /\ Ends(t, TRUE)
      /\ UNCHANGED <<nodes, last, view, file, chosen, pumps, crossed, over, calls>>
  BY DEF Clears, At, PumpCommands
<1>2. Over(t, TRUE)
  BY <1>1, GetDone
<1>3. Steps(t) /\ cmd'[t].verb = "idle"
  BY <1>2, IdleIsTyped DEF Over
<1>4. Apart(t)
  BY <1>1, <1>2, <1>3, PumpApart
<1>5. PumpCount'
  BY <1>1, <1>3, CountStep DEF NoPump
<1>6. PumpPcs(t)' /\ PumpTab(t)'
  BY <1>3 DEF PumpPcs, PumpTab, PumpCommands
<1>7. "pump" \notin crossed => Held'
  BY <1>1, PumpParts DEF PumpTab, Held
<1> QED
  BY <1>1, <1>3, <1>4, <1>5, <1>6, <1>7, PumpOwn DEF Apart

--------------------------------------------------------------------------------
(* The invariant *)

\* It holds when the surface comes up: no node, no target, no pump.
LEMMA TabsInit == Init => TabsInv
<1> SUFFICES ASSUME Init PROVE TabsInv
  OBVIOUS
<1> DEFINE answer == [ok |-> FALSE, value |-> NoSession]
           nothing == [ok |-> FALSE, did |-> FALSE, alone |-> TRUE, id |-> "", verb |-> "idle"]
<1>1. /\ cmd = [t \in Tabs |-> Idle] /\ told = [t \in Tabs |-> nothing]
      /\ last = [v \in NodeVerbs \cup {"resolve"} |-> answer]
      /\ nodes = [i \in Ids |-> NoNode]
      /\ view = NoSession /\ file = NoSession /\ chosen = [sid |-> NoSession, alone |-> TRUE]
      /\ handle = NoPump /\ pumps = {} /\ crossed = {} /\ over = FALSE /\ calls = 0
  BY DEF Init, Ids
<1>2. answer \in [ok : BOOLEAN, value : Sids] /\ NoSession \in Sids
  BY DEF Sids
<1>3. nothing \in Tolds /\ nothing.verb = "idle"
  BY DEF Tolds, CmdIds, Verbs
<1>4. Idle \in Cmds /\ Idle.verb = "idle"
  BY IdleIsTyped
<1>5. NoNode \in NodeRecords
  BY DEF NoNode, NodeRecords, Args
<1> HIDE DEF answer, nothing
<1>6. calls \in 0 .. MaxCalls
  BY <1>1, Bounded
<1>7. Typed
  BY <1>1, <1>2, <1>3, <1>4, <1>6 DEF Typed, Answered
<1>8. \A t \in Tabs : cmd[t] = Idle /\ cmd[t].verb = "idle"
  BY <1>1, <1>4
<1>9. Subject("idle") = "nothing"
  BY DEF Subject, NodeVerbs
<1>10. AloneIsAlone
  BY <1>8, <1>9 DEF AloneIsAlone
<1>11. NodesInv
  <2>1. NothingIsOverwritten
    BY <1>1 DEF NothingIsOverwritten, Known
  <2>2. ToldWhatItDid
    BY <1>1, <1>3 DEF ToldWhatItDid, NodeVerbs
  <2>3. nodes \in [Ids -> NodeRecords] /\ over \in BOOLEAN
    BY <1>1, <1>5
  <2> QED
    BY <1>8, <2>1, <2>2, <2>3 DEF NodesInv, NodeCommands, NodeVerbs
<1>12. TargetInv
  BY <1>1, <1>2, <1>8 DEF TargetInv
<1>13. PumpInv
  <2>1. Starting = {}
    BY <1>8 DEF Starting
  <2>2. PumpCount
    BY <1>1, <1>6, <2>1, FS_EmptySet DEF PumpCount, NoPump
  <2>3. Held /\ \A t \in Tabs : PumpPcs(t) /\ PumpTab(t)
    BY <1>1, <1>8 DEF Held, PumpPcs, PumpTab, PumpCommands
  <2> QED
    BY <1>7, <2>2, <2>3, PumpParts
<1> QED
  BY <1>7, <1>10, <1>11, <1>12, <1>13 DEF TabsInv

\* A command is begun as its form and its kind demand.
Beginning(t, verb, id, arg, pc) ==
    /\ Begin(t, verb, id, arg, pc)
    /\ verb \in Verbs \ {"idle"} /\ id \in CmdIds /\ arg \in Args /\ pc \in Pcs
    /\ verb \in {"spawn", "paste"} => pc # "do" /\ arg \in EngineTypes \cup Reserved
    /\ verb \in NodeCommands => pc # "read"
    /\ verb = "target" => \/ pc = "resolve" /\ id \in DOMAIN SessionOf
                          \/ pc = "set" /\ id = NoSession /\ arg = NoSession
    /\ verb \in PumpCommands => pc = "check"

LEMMA Beginnings ==
    ASSUME NEW t \in Tabs, Mutate(t) \/ Paste(t) \/ Target(t) \/ Start(t) \/ Stop(t)
    PROVE  \E verb, id, arg, pc : Beginning(t, verb, id, arg, pc)
<1>1. /\ {"", NoSession} \subseteq CmdIds /\ {"", NoSession} \subseteq Args
      /\ Names \subseteq CmdIds /\ DOMAIN SessionOf \subseteq CmdIds
      /\ EngineTypes \cup Reserved \subseteq Args /\ Values \subseteq Args /\ Names \subseteq Args
  BY DEF CmdIds, Ids, Args, Sids
<1>2. ASSUME NEW i \in Names, NEW type \in EngineTypes \cup Reserved, Begin(t, "spawn", i, type, "check")
      PROVE  Beginning(t, "spawn", i, type, "check")
  BY <1>1, <1>2 DEF Beginning, Verbs, Pcs, NodeCommands, NodeVerbs, PumpCommands
<1>3. ASSUME NEW i \in Names, NEW v \in Values, Begin(t, "set_param", i, v, "do")
      PROVE  Beginning(t, "set_param", i, v, "do")
  BY <1>1, <1>3 DEF Beginning, Verbs, Pcs, NodeCommands, NodeVerbs, PumpCommands
<1>4. ASSUME NEW i \in Names, NEW j \in Names, Begin(t, "connect", i, j, "do")
      PROVE  Beginning(t, "connect", i, j, "do")
  BY <1>1, <1>4 DEF Beginning, Verbs, Pcs, NodeCommands, NodeVerbs, PumpCommands
<1>5. ASSUME NEW i \in Names, Begin(t, "disconnect", i, "", "do")
      PROVE  Beginning(t, "disconnect", i, "", "do")
  BY <1>1, <1>5 DEF Beginning, Verbs, Pcs, NodeCommands, NodeVerbs, PumpCommands
<1>6. ASSUME NEW type \in Reserved, Begin(t, "paste", "", type, "allocate")
      PROVE  Beginning(t, "paste", "", type, "allocate")
  BY <1>1, <1>6 DEF Beginning, Verbs, Pcs, NodeCommands, NodeVerbs, PumpCommands
<1>7. ASSUME NEW n \in DOMAIN SessionOf, Begin(t, "target", n, "", "resolve")
      PROVE  Beginning(t, "target", n, "", "resolve")
  BY <1>1, <1>7 DEF Beginning, Verbs, Pcs, NodeCommands, NodeVerbs, PumpCommands
<1>8. ASSUME Begin(t, "target", NoSession, NoSession, "set")
      PROVE  Beginning(t, "target", NoSession, NoSession, "set")
  BY <1>1, <1>8 DEF Beginning, Verbs, Pcs, NodeCommands, NodeVerbs, PumpCommands
<1>9. ASSUME NEW verb \in PumpCommands, Begin(t, verb, "", "", "check")
      PROVE  Beginning(t, verb, "", "", "check")
  BY <1>1, <1>9 DEF Beginning, Verbs, Pcs, NodeCommands, NodeVerbs, PumpCommands
<1>10. CASE Mutate(t)
  BY <1>2, <1>3, <1>4, <1>5, <1>10 DEF Mutate
<1>11. CASE Paste(t)
  BY <1>6, <1>11 DEF Paste
<1>12. CASE Target(t)
  BY <1>7, <1>8, <1>12 DEF Target
<1>13. CASE Start(t) \/ Stop(t)
  BY <1>9, <1>13 DEF Start, Stop, PumpCommands
<1> QED
  BY <1>10, <1>11, <1>12, <1>13

LEMMA TabsStep == TabsInv /\ [Next]_vars => TabsInv'
<1> SUFFICES ASSUME TabsInv, [Next]_vars PROVE TabsInv'
  OBVIOUS
<1> USE DEF TabsInv
<1>1. ASSUME NEW t \in Tabs, Mutate(t) \/ Paste(t) \/ Target(t) \/ Start(t) \/ Stop(t) PROVE TabsInv'
  <2>1. PICK verb, id, arg, pc : Beginning(t, verb, id, arg, pc)
    BY <1>1, Beginnings
  <2> USE <2>1 DEF Beginning
  <2>2. Begins(t, verb, id, arg, pc)
    BY BeginCmds
  <2>3. Typed' /\ AloneIsAlone'
    BY <2>2, BeginShared
  <2>4. NodesInv'
    BY <2>2, NodesBegin
  <2>5. TargetInv'
    BY <2>2, TargetBegin
  <2>6. PumpInv'
    BY <2>2, <2>3, PumpBegin
  <2> QED
    BY <2>3, <2>4, <2>5, <2>6
\* A command of nodes
<1>2. ASSUME NEW t \in Tabs, Allocate(t) \/ Check(t) \/ Make(t) \/ Edit(t) \/ Read(t) PROVE TabsInv'
  <2>1. /\ cmd[t].verb \in NodeCommands
        /\ UNCHANGED <<view, file, chosen, handle, pumps>>
    BY <1>2 DEF Allocate, Check, Make, Edit, Read, At, NodeCommands, NodeVerbs
  <2>2. /\ Typed' /\ AloneIsAlone' /\ NodesInv' /\ Steps(t)
        /\ last'["resolve"] = last["resolve"]
    <3>1. CASE Allocate(t)
      <4>1. UNCHANGED last
        BY <3>1 DEF Allocate
      <4> QED
        BY <3>1, <4>1, NodesAllocate
    <3>2. CASE Check(t)
      BY <3>2, NodesCheck
    <3>3. CASE Make(t)
      BY <3>3, NodesMake
    <3>4. CASE Edit(t)
      BY <3>4, NodesEdit
    <3>5. CASE Read(t)
      BY <3>5, NodesRead
    <3> QED
      BY <1>2, <3>1, <3>2, <3>3, <3>4, <3>5
  <2>3. cmd[t].verb # "target" /\ cmd[t].verb \notin PumpCommands
    BY <2>1 DEF NodeCommands, NodeVerbs, PumpCommands
  <2>4. TargetInv'
    BY <2>1, <2>2, <2>3, TargetElse
  <2>5. PumpInv'
    BY <2>1, <2>2, <2>3, PumpElse
  <2> QED
    BY <2>2, <2>4, <2>5
\* A command of the target
<1>3. ASSUME NEW t \in Tabs, Resolve(t) \/ Resolved(t) \/ SetView(t) \/ SetFile(t) PROVE TabsInv'
  <2>1. NotOfNodes(t) /\ TargetInv'
    BY <1>3, TargetResolve, TargetResolved, TargetSetView, TargetSetFile
  <2>2. cmd[t].verb = "target" /\ UNCHANGED <<handle, pumps>>
    BY <1>3 DEF Resolve, Resolved, SetView, SetFile, At
  <2>3. Typed' /\ AloneIsAlone' /\ NodesInv'
    BY <2>1, OthersKeep
  <2>4. Steps(t) /\ cmd[t].verb \notin PumpCommands
    BY <2>1, <2>2 DEF NotOfNodes, PumpCommands
  <2>5. PumpInv'
    BY <2>2, <2>3, <2>4, PumpElse
  <2> QED
    BY <2>1, <2>3, <2>5
\* A command of the pump
<1>4. ASSUME NEW t \in Tabs,
             StartChecks(t) \/ Starts(t) \/ Keeps(t) \/ StopReads(t) \/ Stops(t) \/ Clears(t)
      PROVE  TabsInv'
  <2>1. Apart(t) /\ PumpInv'
    BY <1>4, PumpStartChecks, PumpStarts, PumpKeeps, PumpStopReads, PumpStops, PumpClears
  <2>2. cmd[t].verb # "target"
    BY <1>4 DEF StartChecks, Starts, Keeps, StopReads, Stops, Clears, At
  <2>3. NotOfNodes(t) /\ Steps(t) /\ UNCHANGED <<view, file, chosen, last>>
    BY <2>1 DEF Apart, NotOfNodes
  <2>4. Typed' /\ AloneIsAlone' /\ NodesInv'
    BY <2>3, OthersKeep
  <2>5. TargetInv'
    BY <2>2, <2>3, TargetElse
  <2> QED
    BY <2>1, <2>4, <2>5
<1>5. CASE UNCHANGED vars
  <2>1. Typed' /\ AloneIsAlone'
    BY <1>5 DEF vars, Typed, AloneIsAlone
  <2>2. NodesInv'
    BY <1>5 DEF vars, NodesInv, NothingIsOverwritten, ToldWhatItDid, Known, Told
  <2>3. TargetInv'
    BY <1>5 DEF vars, TargetInv, Meant
  <2>4. PumpInv'
    BY <1>5 DEF vars, PumpInv, PumpIsHeld, Starting
  <2> QED
    BY <2>1, <2>2, <2>3, <2>4
<1> QED
  BY <1>1, <1>2, <1>3, <1>4, <1>5 DEF Next

LEMMA TabsTold == TabsInv => CommandsAreTold
<1> SUFFICES ASSUME TabsInv PROVE CommandsAreTold
  OBVIOUS
<1>1. Typed /\ NodesInv /\ TargetInv /\ PumpInv
  BY DEF TabsInv
<1>2. ToldWhatItDid /\ NothingIsOverwritten
  BY <1>1 DEF NodesInv
<1>3. PumpIsHeld
  BY <1>1 DEF PumpInv
<1>4. TargetIsAgreed
  BY <1>1 DEF TargetInv, TargetIsAgreed
<1>5. TypeOK
  <2>1. \A i \in DOMAIN nodes : nodes[i].type \in EngineTypes \cup Reserved \cup {""}
    BY <1>1 DEF NodesInv, NodeRecords
  <2>2. \A t \in Tabs : cmd[t].alone \in BOOLEAN
    BY <1>1 DEF Typed, Cmds
  <2>3. {view, file} \subseteq {SessionOf[n] : n \in DOMAIN SessionOf} \cup {NoSession}
    BY <1>1 DEF TargetInv, Sids
  <2>4. calls \in 0 .. MaxCalls /\ pumps \subseteq 1 .. MaxCalls
    BY <1>1 DEF Typed, PumpInv
  <2> QED
    BY <2>1, <2>2, <2>3, <2>4 DEF TypeOK
<1> QED
  BY <1>2, <1>3, <1>4, <1>5 DEF CommandsAreTold

\* Commands of tabs that do not cross are told what they did, and leave nodes, target
\* and pump as they say, however many tabs there are and whatever they command
\* (commands.py: mutate.*, paste.add, session.target, notion.mirror.watch).
THEOREM CommandsTold == Spec => []CommandsAreTold
<1>1. Spec => []TabsInv
  BY TabsInit, TabsStep, PTL DEF Spec
<1> QED
  BY <1>1, TabsTold, PTL

--------------------------------------------------------------------------------
(* The trusted senders *)

\* Types of the set, its caches and the calls on it.
FileKeys == [stamp : Nat, size : {Cardinality(s) : s \in SUBSET People} \cup {0}]
Walks == [at : {"idle", "main", "quarantine", "both", "whole", "parts"}, todo : SUBSET Messages,
          main : SUBSET Messages, quarantine : SUBSET Messages, moved : BOOLEAN]
TrustFiles == [form : {"absent", "set", "broken", "newer"}, set : SUBSET People, stamp : Nat]

SendersTyped ==
    /\ trustFile \in TrustFiles
    /\ cache \in [Clients -> [key : FileKeys, set : SUBSET People]]
    /\ call \in [Clients -> [at : {"idle", "write", "replace", "stat"}, set : SUBSET People]]
    /\ walk \in Walks /\ tmp \in {NoTmp} \cup {<<S>> : S \in SUBSET People}
    /\ clock \in 1 .. MaxStamp /\ overlapped \in BOOLEAN
    /\ trustFile.form # "absent" => trustFile.stamp # 0 /\ Key(trustFile) \in keys

\* What a save makes of the file.
SmallStep(set) ==
    \/ trustFile.form = "absent" /\ set = Defaults
    \/ /\ trustFile.form # "newer"
       /\ \E p \in People : set = Listed(trustFile) \cup {p} \/ set = Listed(trustFile) \ {p}

\* One call at a time, and what it is about to save or has saved is still the answer
\* to what is in the file; whoever looks current is.
TrustInv ==
    /\ \A c \in Clients : cache[c].key = NoKey \/ cache[c].key \in keys
    /\ \A c \in Clients : Cached(c) => cache[c].set = Listed(trustFile) /\ trustFile.form # "newer"
    /\ \A c, d \in Clients : call[c].at # "idle" /\ call[d].at # "idle" => c = d
    /\ \A c \in Clients :
          /\ call[c].at \in {"write", "replace"} => SmallStep(call[c].set)
          /\ call[c].at = "replace" => tmp = <<call[c].set>>
          /\ call[c].at = "stat" => trustFile.form = "set" /\ trustFile.set = call[c].set

\* Each message that was asked for is on the side its sender is on.
Sided(set) == {m \in Messages : Sender[m] \in set}
WalkInv ==
    /\ walk.at = "both" => /\ walk.main \cup walk.quarantine = Messages \ walk.todo
                           /\ walk.main \cap walk.quarantine = {}
    /\ walk.at = "whole" => /\ walk.main \cup walk.quarantine = Messages
                            /\ walk.main \cap walk.quarantine = {}
    /\ ~walk.moved /\ ~overlapped =>
          /\ walk.at = "main" => /\ walk.main = Sided(Listed(trustFile)) \ walk.todo
                                 /\ walk.quarantine = {}
          /\ walk.at = "quarantine" => /\ walk.main = Sided(Listed(trustFile))
                                       /\ walk.quarantine = (Messages \ walk.main) \ walk.todo
          /\ walk.at = "parts" => /\ walk.main \cup walk.quarantine = Messages
                                  /\ walk.main \cap walk.quarantine = {}

SendersInv == SendersTyped /\ (~overlapped => TrustInv) /\ WalkInv

LEMMA SendersBegin == SendersInit => SendersInv
<1> SUFFICES ASSUME SendersInit PROVE SendersInv
  OBVIOUS
<1>1. /\ trustFile = [form |-> "absent", set |-> {}, stamp |-> 0]
      /\ cache = [c \in Clients |-> Fresh] /\ call = [c \in Clients |-> NoCall]
      /\ walk = NoWalk /\ tmp = NoTmp /\ clock = 1 /\ overlapped = FALSE
  BY DEF SendersInit
<1>2. Fresh \in [key : FileKeys, set : SUBSET People] /\ Fresh.key = NoKey
  BY DEF Fresh, NoKey, FileKeys
<1>3. NoCall \in [at : {"idle", "write", "replace", "stat"}, set : SUBSET People] /\ NoCall.at = "idle"
  BY DEF NoCall
<1>4. NoWalk \in Walks /\ NoWalk.at = "idle"
  BY DEF NoWalk, Walks
<1>5. 1 \in 1 .. MaxStamp
  BY SendersAssumption
<1>6. trustFile \in TrustFiles /\ trustFile.form = "absent"
  BY <1>1 DEF TrustFiles
<1>7. SendersTyped
  BY <1>1, <1>2, <1>3, <1>4, <1>5, <1>6 DEF SendersTyped
<1>8. TrustInv
  BY <1>1, <1>2, <1>3, <1>6 DEF TrustInv, Cached
<1>9. WalkInv
  BY <1>1, <1>4 DEF WalkInv
<1> QED
  BY <1>7, <1>8, <1>9 DEF SendersInv

\* As long as nothing crossed, what an object takes for trusted is what the file lists.
LEMMA TrustedIsListed ==
    ASSUME TrustInv, NEW c \in Clients
    PROVE  Trusted(c) = Listed(trustFile) /\ (Readable(c) => trustFile.form # "newer")
BY DEF TrustInv, Trusted, Readable

LEMMA TrustedTyped ==
    ASSUME SendersTyped, NEW c \in Clients
    PROVE  /\ Trusted(c) \in SUBSET People /\ Listed(trustFile) \in SUBSET People
           /\ Key(trustFile) \in FileKeys /\ NoKey \in FileKeys
           /\ Remembers(c) \in [key : FileKeys, set : SUBSET People]
           /\ Remembers(c).key = NoKey \/ Remembers(c).key \in keys
           /\ Remembers(c).set = Trusted(c)
<1>1. /\ cache[c].set \in SUBSET People /\ trustFile.set \in SUBSET People /\ trustFile.stamp \in Nat
      /\ trustFile.form # "absent" => Key(trustFile) \in keys
  BY DEF SendersTyped, TrustFiles
<1>2. Trusted(c) \in SUBSET People /\ Listed(trustFile) \in SUBSET People
  BY <1>1 DEF Trusted, Listed
<1>3. Key(trustFile) \in FileKeys
  BY <1>1 DEF Key, FileKeys
<1>4. NoKey \in FileKeys
  BY DEF NoKey, FileKeys
<1> QED
  BY <1>1, <1>2, <1>3, <1>4 DEF Remembers

\* The file stays and an object brings its cache up to date, or has it emptied.
LEMMA CacheKept ==
    ASSUME SendersTyped, NEW c \in Clients, UNCHANGED <<trustFile, keys>>,
           \/ cache' = [cache EXCEPT ![c] = Fresh]
           \/ Readable(c) /\ cache' = [cache EXCEPT ![c] = Remembers(c)]
    PROVE  /\ cache' \in [Clients -> [key : FileKeys, set : SUBSET People]]
           /\ TrustInv =>
                /\ \A d \in Clients : cache'[d].key = NoKey \/ cache'[d].key \in keys'
                /\ \A d \in Clients : Cached(d)' => cache'[d].set = Listed(trustFile') /\ trustFile'.form # "newer"
<1>1. Fresh \in [key : FileKeys, set : SUBSET People] /\ Fresh.key = NoKey
  BY DEF Fresh, NoKey, FileKeys
<1>2. Remembers(c) \in [key : FileKeys, set : SUBSET People]
  BY TrustedTyped
<1>3. cache' \in [Clients -> [key : FileKeys, set : SUBSET People]]
  BY <1>1, <1>2 DEF SendersTyped
<1>4. trustFile.form # "absent" => Key(trustFile) # NoKey
  BY DEF SendersTyped, Key, NoKey
<1>5. ASSUME TrustInv, NEW d \in Clients
      PROVE  /\ cache'[d].key = NoKey \/ cache'[d].key \in keys'
             /\ Cached(d)' => cache'[d].set = Listed(trustFile') /\ trustFile'.form # "newer"
  <2>1. CASE cache'[d] = cache[d]
    BY <1>5, <2>1 DEF TrustInv, Cached
  <2>2. CASE d = c /\ cache'[d] = Fresh
    BY <1>1, <1>4, <2>2 DEF Cached
  <2>3. CASE d = c /\ Readable(c) /\ cache'[d] = Remembers(c)
    BY <1>5, <2>3, TrustedTyped, TrustedIsListed
  <2> QED
    BY <2>1, <2>2, <2>3 DEF SendersTyped
<1> QED
  BY <1>3, <1>5

\* A new version of the file: no cache passes for it, and a listing in parts knows.
LEMMA FileBecomes ==
    ASSUME SendersTyped, WalkInv, NEW f \in TrustFiles, f.form # "absent", f.stamp = clock,
           NEW others, Becomes(f, others), UNCHANGED cache
    PROVE  /\ trustFile' = f /\ walk' \in Walks /\ overlapped' \in BOOLEAN
           /\ trustFile'.stamp # 0 /\ Key(trustFile') \in keys'
           /\ WalkInv'
           /\ ~overlapped' => ~overlapped /\ others = {}
           /\ TrustInv /\ ~overlapped' => /\ \A d \in Clients : cache'[d].key = NoKey \/ cache'[d].key \in keys'
                                          /\ \A d \in Clients : ~Cached(d)'
<1>1. /\ trustFile' = f /\ keys' = keys \cup {Key(f)}
      /\ walk' = [walk EXCEPT !.moved = @ \/ walk.at \in {"main", "quarantine"}]
      /\ overlapped' = (overlapped \/ Key(f) \in keys \/ others # {})
  BY DEF Becomes
<1>2. /\ walk' \in Walks
      /\ walk'.at = walk.at /\ walk'.todo = walk.todo
      /\ walk'.main = walk.main /\ walk'.quarantine = walk.quarantine
      /\ walk'.moved <=> walk.moved \/ walk.at \in {"main", "quarantine"}
  BY <1>1 DEF SendersTyped, Walks
<1>3. overlapped' \in BOOLEAN /\ (~overlapped' => ~overlapped /\ Key(f) \notin keys /\ others = {})
  BY <1>1
<1>4. clock \in Nat /\ clock # 0
  BY SendersAssumption DEF SendersTyped
<1>5. WalkInv'
  BY <1>2, <1>3 DEF WalkInv
<1>6. Key(f) # NoKey
  BY <1>4 DEF Key, NoKey
<1>7. ASSUME TrustInv, ~overlapped', NEW d \in Clients
      PROVE  (cache'[d].key = NoKey \/ cache'[d].key \in keys') /\ ~Cached(d)'
  BY <1>1, <1>3, <1>6, <1>7 DEF TrustInv, Cached
<1> QED
  BY <1>1, <1>2, <1>3, <1>4, <1>5, <1>7

\* The listing goes on while the file stays.
LEMMA WalkKept ==
    WalkInv /\ UNCHANGED <<trustFile, walk>> /\ (overlapped => overlapped') => WalkInv'
BY DEF WalkInv

\* A call is begun that is to save a set.
LEMMA CallBegun ==
    ASSUME SendersInv, NEW c \in Clients, call[c].at = "idle", NEW set \in SUBSET People,
           call' = [call EXCEPT ![c] = [at |-> "write", set |-> set]],
           \/ cache' = [cache EXCEPT ![c] = Fresh]
           \/ Readable(c) /\ cache' = [cache EXCEPT ![c] = Remembers(c)],
           overlapped' = (overlapped \/ Busy # {}),
           UNCHANGED <<trustFile, tmp, walk, clock, keys>>,
           ~overlapped => SmallStep(set)
    PROVE  SendersInv'
<1> DEFINE new == [at |-> "write", set |-> set]
<1>1. new \in [at : {"idle", "write", "replace", "stat"}, set : SUBSET People] /\ new.at = "write" /\ new.set = set
  OBVIOUS
<1> HIDE DEF new
<1>2. call' = [call EXCEPT ![c] = new]
  BY DEF new
<1>3. call' \in [Clients -> [at : {"idle", "write", "replace", "stat"}, set : SUBSET People]]
      /\ call'[c] = new /\ \A d \in Clients \ {c} : call'[d] = call[d]
  BY <1>1, <1>2 DEF SendersInv, SendersTyped
<1>4. overlapped \in BOOLEAN /\ overlapped' \in BOOLEAN
  BY DEF SendersInv, SendersTyped
<1>5. SendersTyped'
  BY <1>3, <1>4, CacheKept DEF SendersInv, SendersTyped, Key
<1>6. WalkInv'
  BY <1>4, WalkKept DEF SendersInv
<1>7. ASSUME ~overlapped' PROVE TrustInv'
  <2>1. TrustInv /\ Busy = {} /\ SmallStep(set)
    BY <1>4, <1>7 DEF SendersInv
  <2>2. \A d \in Clients \ {c} : call'[d].at = "idle"
    BY <1>3, <2>1 DEF Busy
  <2>3. SmallStep(set)'
    BY <2>1 DEF SmallStep, Listed
  <2> QED
    BY <1>1, <1>3, <2>1, <2>2, <2>3, CacheKept DEF SendersInv, TrustInv
<1> QED
  BY <1>5, <1>6, <1>7 DEF SendersInv

LEMMA SendersMake == ASSUME SendersInv, NEW c \in Clients, MakeSet(c) PROVE SendersInv'
<1>1. /\ call[c].at = "idle" /\ cache' = [cache EXCEPT ![c] = Fresh]
      /\ overlapped' = (overlapped \/ (trustFile.form = "absent" /\ Busy # {}))
      /\ UNCHANGED <<trustFile, tmp, walk, clock, keys>>
  BY DEF MakeSet
<1>2. CASE trustFile.form = "absent"
  <2>1. call' = [call EXCEPT ![c] = [at |-> "write", set |-> Defaults]]
    BY <1>2 DEF MakeSet
  <2>2. overlapped' = (overlapped \/ Busy # {})
    BY <1>1, <1>2
  <2>3. SmallStep(Defaults) /\ Defaults \in SUBSET People
    BY <1>2, SendersAssumption DEF SmallStep
  <2> QED
    BY <1>1, <2>1, <2>2, <2>3, CallBegun
<1>3. CASE trustFile.form # "absent"
  <2>1. UNCHANGED <<call, overlapped>>
    BY <1>1, <1>3 DEF MakeSet, SendersInv, SendersTyped
  <2>2. SendersTyped'
    BY <1>1, <2>1, CacheKept DEF SendersInv, SendersTyped, Key
  <2>3. WalkInv'
    BY <1>1, <2>1, WalkKept DEF SendersInv
  <2>4. ~overlapped' => TrustInv'
    BY <1>1, <2>1, CacheKept DEF SendersInv, TrustInv, SmallStep, Listed
  <2> QED
    BY <2>2, <2>3, <2>4 DEF SendersInv
<1> QED
  BY <1>2, <1>3

LEMMA SendersChange ==
    ASSUME SendersInv, NEW c \in Clients, NEW p \in People, NEW adds \in BOOLEAN, Change(c, p, adds)
    PROVE  SendersInv'
<1> DEFINE set == IF adds THEN Trusted(c) \cup {p} ELSE Trusted(c) \ {p}
<1>1. /\ call[c].at = "idle" /\ Readable(c) /\ cache' = [cache EXCEPT ![c] = Remembers(c)]
      /\ call' = [call EXCEPT ![c] = [at |-> "write", set |-> set]]
      /\ overlapped' = (overlapped \/ Busy # {})
      /\ UNCHANGED <<trustFile, tmp, walk, clock, keys>>
  BY DEF Change
<1>2. set \in SUBSET People
  BY TrustedTyped DEF SendersInv
<1>3. ~overlapped => SmallStep(set)
  BY <1>1, TrustedIsListed DEF SendersInv, SmallStep
<1> HIDE DEF set
<1> QED
  BY <1>1, <1>2, <1>3, CallBegun

LEMMA SendersWrite == ASSUME SendersInv, NEW c \in Clients, Write(c) PROVE SendersInv'
<1>1. /\ call[c].at = "write" /\ tmp' = <<call[c].set>> /\ call' = [call EXCEPT ![c].at = "replace"]
      /\ UNCHANGED <<trustFile, cache, walk, clock, keys, overlapped>>
  BY DEF Write
<1>2. /\ call' \in [Clients -> [at : {"idle", "write", "replace", "stat"}, set : SUBSET People]]
      /\ call'[c].at = "replace" /\ call'[c].set = call[c].set /\ \A d \in Clients \ {c} : call'[d] = call[d]
  BY <1>1 DEF SendersInv, SendersTyped
<1>3. SendersTyped' /\ WalkInv'
  BY <1>1, <1>2, WalkKept DEF SendersInv, SendersTyped, Key
<1>4. ASSUME ~overlapped' PROVE TrustInv'
  <2>1. TrustInv
    BY <1>1, <1>4 DEF SendersInv
  <2>2. \A d \in Clients \ {c} : call[d].at = "idle"
    BY <1>1, <2>1 DEF TrustInv, SendersInv, SendersTyped
  <2>3. SmallStep(call[c].set)'
    BY <1>1, <1>2, <2>1 DEF TrustInv, SmallStep, Listed
  <2>4. \A d \in Clients : Cached(d)' <=> Cached(d)
    BY <1>1 DEF Cached, Key
  <2> QED
    BY <1>1, <1>2, <2>1, <2>2, <2>3, <2>4 DEF TrustInv, Listed
<1> QED
  BY <1>3, <1>4 DEF SendersInv

LEMMA SendersReplace == ASSUME SendersInv, NEW c \in Clients, Replace(c) PROVE SendersInv'
<1>1. call[c].at = "replace" /\ UNCHANGED <<cache, clock>>
  BY DEF Replace
<1>2. CASE tmp = NoTmp
  <2>1. call' = [call EXCEPT ![c] = NoCall] /\ UNCHANGED <<trustFile, walk, keys, overlapped, tmp>>
    BY <1>2 DEF Replace
  <2>2. NoCall \in [at : {"idle", "write", "replace", "stat"}, set : SUBSET People]
    BY DEF NoCall
  <2>3. overlapped
    BY <1>1, <1>2 DEF SendersInv, TrustInv, NoTmp
  <2>4. SendersTyped' /\ WalkInv'
    BY <1>1, <2>1, <2>2, WalkKept DEF SendersInv, SendersTyped, Key
  <2> QED
    BY <2>1, <2>3, <2>4 DEF SendersInv
<1>3. CASE tmp # NoTmp
  <2> DEFINE f == [form |-> "set", set |-> tmp[1], stamp |-> clock]
  <2>1. /\ Becomes(f, Busy \ {c}) /\ call' = [call EXCEPT ![c].at = "stat"] /\ tmp' = NoTmp
    BY <1>3 DEF Replace
  <2>2. /\ call' \in [Clients -> [at : {"idle", "write", "replace", "stat"}, set : SUBSET People]]
        /\ call'[c].at = "stat" /\ call'[c].set = call[c].set /\ \A d \in Clients \ {c} : call'[d] = call[d]
    BY <2>1 DEF SendersInv, SendersTyped
  <2>3. tmp[1] \in SUBSET People
    BY <1>3 DEF SendersInv, SendersTyped
  <2>4. clock \in Nat
    BY SendersAssumption DEF SendersInv, SendersTyped
  <2>5. f \in TrustFiles /\ f.form = "set" /\ f.set = tmp[1] /\ f.stamp = clock
    BY <2>3, <2>4 DEF TrustFiles
  <2> HIDE DEF f
  <2>6. /\ trustFile' = f /\ walk' \in Walks /\ overlapped' \in BOOLEAN
        /\ trustFile'.stamp # 0 /\ Key(trustFile') \in keys'
        /\ WalkInv'
        /\ ~overlapped' => ~overlapped /\ Busy \ {c} = {}
        /\ TrustInv /\ ~overlapped' => /\ \A d \in Clients : cache'[d].key = NoKey \/ cache'[d].key \in keys'
                                       /\ \A d \in Clients : ~Cached(d)'
    BY <1>1, <2>1, <2>5, FileBecomes DEF SendersInv
  <2>7. SendersTyped'
    BY <1>1, <2>1, <2>2, <2>5, <2>6 DEF SendersInv, SendersTyped, Key
  <2>8. ASSUME ~overlapped' PROVE TrustInv'
    <3>1. TrustInv /\ \A d \in Clients \ {c} : call[d].at = "idle"
      BY <2>6, <2>8 DEF SendersInv, Busy
    <3>2. trustFile'.form = "set" /\ trustFile'.set = call[c].set
      BY <1>1, <2>5, <2>6, <3>1 DEF TrustInv
    <3> QED
      BY <2>2, <2>6, <2>8, <3>1, <3>2 DEF TrustInv
  <2> QED
    BY <2>6, <2>7, <2>8 DEF SendersInv
<1> QED
  BY <1>2, <1>3

LEMMA SendersRemember == ASSUME SendersInv, NEW c \in Clients, Remember(c) PROVE SendersInv'
<1> DEFINE new == [key |-> Key(trustFile), set |-> call[c].set]
<1>1. /\ call[c].at = "stat" /\ cache' = [cache EXCEPT ![c] = new] /\ call' = [call EXCEPT ![c] = NoCall]
      /\ UNCHANGED <<trustFile, tmp, walk, clock, keys, overlapped>>
  BY DEF Remember
<1>2. new \in [key : FileKeys, set : SUBSET People] /\ new.key = Key(trustFile) /\ new.set = call[c].set
  <2>1. Key(trustFile) \in FileKeys
    BY DEF SendersInv, SendersTyped, TrustFiles, Key, FileKeys
  <2> QED
    BY <2>1 DEF SendersInv, SendersTyped
<1>3. NoCall \in [at : {"idle", "write", "replace", "stat"}, set : SUBSET People] /\ NoCall.at = "idle"
  BY DEF NoCall
<1> HIDE DEF new
<1>4. SendersTyped' /\ WalkInv'
  BY <1>1, <1>2, <1>3, WalkKept DEF SendersInv, SendersTyped, Key
<1>5. ASSUME ~overlapped' PROVE TrustInv'
  <2>1. TrustInv
    BY <1>1, <1>5 DEF SendersInv
  <2>2. \A d \in Clients \ {c} : call[d].at = "idle"
    BY <1>1, <2>1 DEF TrustInv, SendersInv, SendersTyped
  <2>3. /\ \A d \in Clients \ {c} : cache'[d] = cache[d] /\ call'[d] = call[d]
        /\ cache'[c] = new /\ call'[c] = NoCall
    BY <1>1, <1>2, <1>3 DEF SendersInv, SendersTyped
  <2>4. trustFile.form = "set" /\ trustFile.set = call[c].set /\ Key(trustFile) \in keys
    BY <1>1, <2>1 DEF TrustInv, SendersInv, SendersTyped
  <2>5. \A d \in Clients \ {c} : Cached(d)' <=> Cached(d)
    BY <1>1, <2>3 DEF Cached, Key
  <2> QED
    BY <1>1, <1>2, <1>3, <2>1, <2>2, <2>3, <2>4, <2>5 DEF TrustInv, Listed
<1> QED
  BY <1>4, <1>5 DEF SendersInv

LEMMA SendersEdit == ASSUME SendersInv, EditFile PROVE SendersInv'
<1>1. PICK set \in SUBSET People, form \in {"set", "broken", "newer"} :
         Becomes([form |-> form, set |-> IF form = "set" THEN set ELSE {}, stamp |-> clock], Busy)
  BY DEF EditFile
<1> DEFINE f == [form |-> form, set |-> IF form = "set" THEN set ELSE {}, stamp |-> clock]
<1>2. UNCHANGED <<tmp, cache, call, clock>>
  BY DEF EditFile
<1>3. clock \in Nat
  BY SendersAssumption DEF SendersInv, SendersTyped
<1>4. f \in TrustFiles /\ f.form # "absent" /\ f.stamp = clock
  BY <1>3 DEF TrustFiles
<1> HIDE DEF f
<1>5. /\ trustFile' = f /\ walk' \in Walks /\ overlapped' \in BOOLEAN
      /\ trustFile'.stamp # 0 /\ Key(trustFile') \in keys'
      /\ WalkInv'
      /\ ~overlapped' => ~overlapped /\ Busy = {}
      /\ TrustInv /\ ~overlapped' => /\ \A d \in Clients : cache'[d].key = NoKey \/ cache'[d].key \in keys'
                                     /\ \A d \in Clients : ~Cached(d)'
  BY <1>1, <1>2, <1>4, FileBecomes DEF SendersInv, f
<1>6. SendersTyped'
  BY <1>2, <1>4, <1>5 DEF SendersInv, SendersTyped, Key
<1>7. ASSUME ~overlapped' PROVE TrustInv'
  <2>1. TrustInv /\ \A d \in Clients : call[d].at = "idle"
    BY <1>5, <1>7 DEF SendersInv, Busy
  <2> QED
    BY <1>2, <1>5, <1>7, <2>1 DEF TrustInv
<1> QED
  BY <1>5, <1>6, <1>7 DEF SendersInv

\* While file and calls stay, a step of a listing is all there is to see to.
LEMMA ListingStep ==
    ASSUME SendersInv, UNCHANGED <<trustFile, tmp, call, clock, keys, overlapped>>,
           \/ UNCHANGED cache
           \/ \E c \in Clients : Readable(c) /\ cache' = [cache EXCEPT ![c] = Remembers(c)],
           walk' \in Walks, WalkInv'
    PROVE  SendersInv'
<1>1. CASE UNCHANGED cache
  <2>1. SendersTyped' /\ (TrustInv => TrustInv')
    BY <1>1 DEF SendersInv, SendersTyped, Key, TrustInv, Cached, SmallStep, Listed
  <2> QED
    BY <2>1 DEF SendersInv
<1>2. ASSUME NEW c \in Clients, Readable(c), cache' = [cache EXCEPT ![c] = Remembers(c)]
      PROVE  SendersInv'
  <2>1. SendersTyped'
    BY <1>2, CacheKept DEF SendersInv, SendersTyped, Key
  <2>2. TrustInv => TrustInv'
    BY <1>2, CacheKept DEF SendersInv, TrustInv, SmallStep, Listed
  <2> QED
    BY <2>1, <2>2 DEF SendersInv
<1> QED
  BY <1>1, <1>2

LEMMA SendersAsk == ASSUME SendersInv, NEW c \in Clients, NEW m \in Messages, Ask(c, m) PROVE SendersInv'
<1> DEFINE trusted == Sender[m] \in Trusted(c)
<1>1. /\ walk.at \in {"main", "quarantine", "both"} /\ m \in walk.todo
      /\ Readable(c) /\ cache' = [cache EXCEPT ![c] = Remembers(c)]
      /\ walk' = [walk EXCEPT
           !.todo = @ \ {m},
           !.main = IF trusted /\ walk.at # "quarantine" THEN @ \cup {m} ELSE @,
           !.quarantine = IF ~trusted /\ walk.at # "main" THEN @ \cup {m} ELSE @]
      /\ UNCHANGED <<trustFile, tmp, call, clock, keys, overlapped>>
  BY DEF Ask
<1>2. trusted \in BOOLEAN /\ walk \in Walks
  BY DEF SendersInv, SendersTyped
<1>3. ~overlapped => (trusted <=> m \in Sided(Listed(trustFile)))
  BY TrustedIsListed DEF SendersInv, Sided
<1> HIDE DEF trusted
<1>4. /\ walk' \in Walks /\ walk'.at = walk.at /\ walk'.todo = walk.todo \ {m}
      /\ walk'.moved <=> walk.moved
      /\ walk'.main = IF trusted /\ walk.at # "quarantine" THEN walk.main \cup {m} ELSE walk.main
      /\ walk'.quarantine = IF ~trusted /\ walk.at # "main" THEN walk.quarantine \cup {m} ELSE walk.quarantine
  BY <1>1, <1>2 DEF Walks
<1>5. Listed(trustFile)' = Listed(trustFile)
  BY <1>1 DEF Listed
<1>6. WalkInv'
  <2>1. walk.todo \subseteq Messages /\ Sided(Listed(trustFile)) \subseteq Messages
    BY <1>2 DEF Walks, Sided
  <2>2. CASE walk.at = "both"
    BY <1>1, <1>4, <2>1, <2>2 DEF WalkInv, SendersInv
  <2>3. CASE walk.at = "main"
    BY <1>1, <1>3, <1>4, <1>5, <2>1, <2>3 DEF WalkInv, SendersInv
  <2>4. CASE walk.at = "quarantine"
    BY <1>1, <1>3, <1>4, <1>5, <2>1, <2>4 DEF WalkInv, SendersInv
  <2> QED
    BY <1>1, <2>2, <2>3, <2>4
<1> QED
  BY <1>1, <1>4, <1>6, ListingStep

LEMMA SendersWalk == ASSUME SendersInv, Walk PROVE SendersInv'
<1>1. UNCHANGED <<trustFile, tmp, cache, call, clock, keys, overlapped>> /\ walk \in Walks
  BY DEF Walk, SendersInv, SendersTyped
<1>2. Listed(trustFile)' = Listed(trustFile)
  BY <1>1 DEF Listed
<1>3. ASSUME NEW at \in {"main", "both"}, List(at) PROVE walk' \in Walks /\ WalkInv'
  <2>1. /\ walk' \in Walks /\ walk'.at = at /\ walk'.todo = Messages
        /\ walk'.main = {} /\ walk'.quarantine = {}
    BY <1>3 DEF List, NoWalk, Walks
  <2>2. Sided(Listed(trustFile)) \subseteq Messages
    BY DEF Sided
  <2> QED
    BY <1>2, <2>1, <2>2 DEF WalkInv
<1>4. ASSUME Turn PROVE walk' \in Walks /\ WalkInv'
  <2>1. /\ walk' \in Walks /\ walk'.at = "quarantine" /\ walk'.todo = Messages /\ walk.at = "main" /\ walk.todo = {}
        /\ walk'.main = walk.main /\ walk'.quarantine = walk.quarantine
        /\ walk'.moved <=> walk.moved
    BY <1>1, <1>4 DEF Turn, Walks
  <2> QED
    BY <1>1, <1>2, <2>1 DEF WalkInv, SendersInv
<1>5. ASSUME ListEnds PROVE walk' \in Walks /\ WalkInv'
  <2>1. /\ walk' \in Walks /\ walk'.at = IF walk.at = "both" THEN "whole" ELSE "parts"
        /\ walk'.todo = walk.todo /\ walk.todo = {} /\ walk.at \in {"quarantine", "both"}
        /\ walk'.main = walk.main /\ walk'.quarantine = walk.quarantine
        /\ walk'.moved <=> walk.moved
    BY <1>1, <1>5 DEF ListEnds, Walks
  <2>2. Sided(Listed(trustFile)) \subseteq Messages
    BY DEF Sided
  <2> QED
    BY <1>1, <1>2, <2>1, <2>2 DEF WalkInv, SendersInv
<1> QED
  BY <1>1, <1>3, <1>4, <1>5, ListingStep DEF Walk

LEMMA SendersTick == ASSUME SendersInv, Tick PROVE SendersInv'
<1>1. /\ clock' = clock + 1 /\ clock < MaxStamp
      /\ UNCHANGED <<trustFile, tmp, cache, call, walk, keys, overlapped>>
  BY DEF Tick
<1>2. clock' \in 1 .. MaxStamp
  BY <1>1, SendersAssumption DEF SendersInv, SendersTyped
<1>3. SendersTyped' /\ WalkInv' /\ (TrustInv => TrustInv')
  BY <1>1, <1>2, WalkKept DEF SendersInv, SendersTyped, Key, TrustInv, Cached, SmallStep, Listed
<1> QED
  BY <1>1, <1>3 DEF SendersInv

LEMMA SendersStep == SendersInv /\ [SendersNext]_sendersVars => SendersInv'
<1> SUFFICES ASSUME SendersInv, [SendersNext]_sendersVars PROVE SendersInv'
  OBVIOUS
<1>1. CASE SendersNext
  BY <1>1, SendersMake, SendersChange, SendersWrite, SendersReplace, SendersRemember, SendersEdit,
     SendersAsk, SendersWalk, SendersTick DEF SendersNext
<1>2. CASE UNCHANGED sendersVars
  <2>1. SendersTyped' /\ WalkInv' /\ (TrustInv => TrustInv')
    BY <1>2, WalkKept DEF sendersVars, SendersInv, SendersTyped, Key, TrustInv, Cached, SmallStep, Listed
  <2> QED
    BY <1>2, <2>1 DEF SendersInv, sendersVars
<1> QED
  BY <1>1, <1>2

\* A save by a step of one call that nothing crossed.
SaveIsExact ==
    \A c \in Clients :
        call[c].at = "replace" /\ call'[c].at = "stat" /\ ~overlapped' =>
            \/ trustFile.form = "absent" /\ trustFile'.set = Defaults
            \/ /\ trustFile.form # "newer"
               /\ Cardinality(trustFile'.set \ Listed(trustFile)) <= 1
               /\ Cardinality(Listed(trustFile) \ trustFile'.set) <= 1

LEMMA OneAtMost == ASSUME NEW S, NEW p, S \subseteq {p} PROVE Cardinality(S) <= 1
<1>1. IsFiniteSet({p}) /\ Cardinality({p}) = 1
  BY FS_Singleton
<1> QED
  BY <1>1, FS_Subset

LEMMA SavesExactly == SendersInv /\ [SendersNext]_sendersVars => SaveIsExact
<1> SUFFICES ASSUME SendersInv, [SendersNext]_sendersVars, NEW c \in Clients,
                    call[c].at = "replace", call'[c].at = "stat", ~overlapped'
             PROVE  \/ trustFile.form = "absent" /\ trustFile'.set = Defaults
                    \/ /\ trustFile.form # "newer"
                       /\ Cardinality(trustFile'.set \ Listed(trustFile)) <= 1
                       /\ Cardinality(Listed(trustFile) \ trustFile'.set) <= 1
  BY DEF SaveIsExact
<1>1. call'[c] # call[c]
  OBVIOUS
<1>2. Replace(c)
  <2>1. call \in [Clients -> [at : {"idle", "write", "replace", "stat"}, set : SUBSET People]]
    BY DEF SendersInv, SendersTyped
  <2>2. ASSUME NEW d \in Clients, MakeSet(d) \/ Write(d) \/ Remember(d) \/ (Replace(d) /\ d # c)
        PROVE  FALSE
    BY <1>1, <2>1, <2>2 DEF MakeSet, Write, Remember, Replace
  <2>3. ASSUME NEW d \in Clients, NEW p \in People, NEW adds \in BOOLEAN, Change(d, p, adds) PROVE FALSE
    BY <1>1, <2>1, <2>3 DEF Change
  <2>4. ASSUME \/ \E d \in Clients, m \in Messages : Ask(d, m)
               \/ EditFile \/ Tick \/ Walk \/ UNCHANGED sendersVars
        PROVE  FALSE
    BY <1>1, <2>4 DEF Ask, EditFile, Tick, Walk, sendersVars
  <2> QED
    BY <2>2, <2>3, <2>4 DEF SendersNext
<1>3. tmp # NoTmp
  <2>1. NoCall.at = "idle"
    BY DEF NoCall
  <2> QED
    BY <1>2, <2>1 DEF Replace, SendersInv, SendersTyped
<1>4. Becomes([form |-> "set", set |-> tmp[1], stamp |-> clock], Busy \ {c})
  BY <1>2, <1>3 DEF Replace
<1>5. trustFile'.set = tmp[1] /\ ~overlapped
  BY <1>4 DEF Becomes
<1>6. SmallStep(trustFile'.set)
  BY <1>5 DEF SendersInv, TrustInv
<1>7. CASE trustFile.form = "absent" /\ trustFile'.set = Defaults
  BY <1>7
<1>8. ASSUME NEW p \in People, trustFile.form # "newer",
             trustFile'.set = Listed(trustFile) \cup {p} \/ trustFile'.set = Listed(trustFile) \ {p}
      PROVE  /\ Cardinality(trustFile'.set \ Listed(trustFile)) <= 1
             /\ Cardinality(Listed(trustFile) \ trustFile'.set) <= 1
  <2>1. trustFile'.set \ Listed(trustFile) \subseteq {p} /\ Listed(trustFile) \ trustFile'.set \subseteq {p}
    BY <1>8
  <2> QED
    BY <2>1, OneAtMost
<1> QED
  BY <1>6, <1>7, <1>8 DEF SmallStep

LEMMA SendersSound == SendersInv => SendersTypeOK /\ CacheIsCurrent /\ ListsAreExact
<1> SUFFICES ASSUME SendersInv PROVE SendersTypeOK /\ CacheIsCurrent /\ ListsAreExact
  OBVIOUS
<1>1. SendersTypeOK
  BY DEF SendersInv, SendersTyped, TrustFiles, Walks, SendersTypeOK
<1>2. CacheIsCurrent
  BY DEF SendersInv, TrustInv, CacheIsCurrent
<1>3. ListsAreExact
  BY DEF SendersInv, WalkInv, ListsAreExact
<1> QED
  BY <1>1, <1>2, <1>3

\* The set of senders is what the calls made of it, the objects know it as it is, and a
\* message is listed on one side, whoever has objects and however the file is edited
\* (tools/workflow/trust.py, inbox.py).
THEOREM SendersExact == SendersSpec => SendersAreExact
<1>1. SendersSpec => []SendersInv
  BY SendersBegin, SendersStep, PTL DEF SendersSpec
<1>2. SendersSpec => [](SendersTypeOK /\ CacheIsCurrent /\ ListsAreExact)
  BY <1>1, SendersSound, PTL
<1>3. SendersSpec => [][SaveIsExact]_sendersVars
  BY <1>1, SavesExactly, PTL DEF SendersSpec
<1> QED
  BY <1>2, <1>3 DEF SendersAreExact, SavesAreExact, SaveIsExact

--------------------------------------------------------------------------------
(* Drops of nodes on nodes *)

AllKinds == Kinds \cup DOMAIN Virtual
ModuleTexts == {Broken} \cup (Kinds \X BOOLEAN)
Hooks == [at : {"idle", "scan", "swap", "errors"}, read : Seq(ModuleTexts), moved : BOOLEAN]
SentDrops == [page : Pages, from : Nodes, to : Nodes \cup {NoTarget}, keys : Keys,
              graph : SUBSET Edges, id : Nat]
ServedDrops == [at : {"target"}, page : Pages, from : Nodes, to : Nodes, keys : Keys,
                graph : SUBSET Edges, seen : SUBSET AllKinds]
MadeDrops == [page : Pages, edge : Edges, seen : SUBSET AllKinds]

\* Types of the registry, the drops on their way and the graphs.
DropsTyped ==
    /\ disk \in [Files -> ModuleTexts] /\ hook \in Hooks
    /\ DOMAIN registry \subseteq AllKinds /\ errors \subseteq AllKinds
    /\ graph \in [Pages -> SUBSET Edges] /\ answers \in [Pages -> Seq(SUBSET Edges)]
    /\ queue \in Seq(SentDrops) /\ drop \in {NoDrop} \cup ServedDrops
    /\ store \subseteq Edges /\ heard \in Seq({"add", "replace", "rejected"})
    /\ dropsCrossed \subseteq Pages /\ made \in Seq(MadeDrops)
    /\ drops \in Nat /\ fails \in Nat

\* What a rebuild has read is what is there, as long as nobody saved; what it swapped
\* in is what it has read.
HookInv ==
    ~hook.moved =>
        /\ hook.at = "scan" => /\ Len(hook.read) <= Cardinality(Files)
                               /\ \A i \in 1 .. Len(hook.read) : hook.read[i] = disk[i]
        /\ hook.at \in {"swap", "errors"} => hook.read = disk
        /\ hook.at \in {"errors", "idle"} => registry = Bindings(FreshKinds)
        /\ hook.at = "idle" => errors = Refused(FreshKinds)

\* The kinds seen by the drop that is served are those of the registry and before.
SeenInv ==
    drop.at # "none" => /\ DOMAIN registry \subseteq drop.seen
                        /\ KindOf[drop.from] \in drop.seen

\* Every graph on its way has one relation for a pair.
OneRelationIn(g) == \A x, y \in g : Pair(x) = Pair(y) => x = y
GraphsInv ==
    /\ \A c \in Pages : OneRelationIn(graph[c])
    /\ \A c \in Pages : \A i \in DOMAIN answers[c] : OneRelationIn(answers[c][i])
    /\ \A i \in DOMAIN queue : OneRelationIn(queue[i].graph)
    /\ drop.at # "none" => OneRelationIn(drop.graph)

\* A page that never crossed has one drop or answer on its way at most, and what is on
\* its way, or else the page, has the graph its drops made.
InQueue(c) == {i \in DOMAIN queue : queue[i].page = c}
IsServed(c) == drop.at # "none" /\ drop.page = c
PageInv(c) ==
    /\ ~Waits(c) => graph[c] = LastEdges(c)
    /\ \A i, j \in InQueue(c) : i = j
    /\ \A i \in InQueue(c) : queue[i].graph = LastEdges(c) /\ ~IsServed(c) /\ answers[c] = <<>>
    /\ IsServed(c) => drop.graph = LastEdges(c) /\ answers[c] = <<>>
    /\ answers[c] # <<>> => Len(answers[c]) = 1 /\ answers[c][1] = LastEdges(c)
PagesInv == \A c \in Pages \ dropsCrossed : PageInv(c)

DropsInv ==
    /\ DropsTyped /\ HookInv /\ SeenInv /\ OnlyKnownJoin
    /\ GraphsInv /\ PagesInv /\ AllAreHeard

--------------------------------------------------------------------------------
\* Lemmas about keys, kinds and graphs.

\* A list of keys in which some mean something has a first that does.
LEMMA FirstOfKeys ==
    ASSUME NEW n \in Nat, NEW T, T \subseteq 1 .. n, T # {}
    PROVE  \E x \in T : \A y \in T : x <= y
<1> DEFINE U == {0 .. i : i \in T}
<1>1. IsWellFoundedOn(StrictSubsetOrdering(0 .. n), SUBSET (0 .. n))
  <2>1. IsFiniteSet(0 .. n)
    BY FS_Interval
  <2>2. FiniteSubsetsOf(0 .. n) = SUBSET (0 .. n)
    BY <2>1, FS_FiniteSubsetsOfFinite
  <2> QED
    BY <2>2, FS_StrictSubsetOrderingWellFounded
<1>2. U \subseteq SUBSET (0 .. n) /\ U # {}
  <2>1. \A i \in T : 0 .. i \subseteq 0 .. n
    OBVIOUS
  <2> QED
    BY <2>1
<1>3. PICK X \in U : \A Y \in U : ~(<<Y, X>> \in StrictSubsetOrdering(0 .. n))
  <2> HIDE DEF U
  <2> QED
    BY <1>1, <1>2, WFMin
<1>4. PICK x \in T : X = 0 .. x
  OBVIOUS
<1>5. ASSUME NEW y \in T, ~(x <= y) PROVE FALSE
  <2>1. 0 .. y \subseteq 0 .. x /\ x \in 0 .. x /\ x \notin 0 .. y
    BY <1>5
  <2>2. 0 .. y \in U /\ 0 .. y \in SUBSET (0 .. n) /\ 0 .. x \in SUBSET (0 .. n)
    OBVIOUS
  <2>3. <<0 .. y, 0 .. x>> \in StrictSubsetOrdering(0 .. n)
    BY <2>1, <2>2 DEF StrictSubsetOrdering
  <2> QED
    BY <1>3, <1>4, <2>2, <2>3
<1> QED
  BY <1>5

\* A drop between nodes makes an edge.
LEMMA DropMakesEdge ==
    ASSUME NEW d, d.from \in Nodes, d.to \in Nodes, d.keys \in Keys
    PROVE  Edge(d) \in Edges
<1> DEFINE known == {i \in DOMAIN d.keys : d.keys[i] \in DOMAIN Override}
           first == CHOOSE i \in known : \A j \in known : i <= j
           relations == {Override[k] : k \in DOMAIN Override} \cup
                        {Table[p] : p \in DOMAIN Table} \cup {"references"}
<1>1. Relation(d) \in relations
  <2>1. CASE known # {}
    <3>1. \E i \in known : \A j \in known : i <= j
      <4>1. Len(d.keys) \in Nat /\ known \subseteq 1 .. Len(d.keys)
        BY DropsAssumption
      <4> HIDE DEF known
      <4> QED
        BY <2>1, <4>1, FirstOfKeys
    <3>2. first \in known
      <4> HIDE DEF known
      <4> QED
        BY <3>1
    <3>3. Relation(d) = Override[d.keys[first]]
      BY <2>1 DEF Relation
    <3> QED
      BY <3>2, <3>3
  <2>2. CASE known = {}
    BY <2>2 DEF Relation
  <2> QED
    BY <2>1, <2>2
<1> QED
  BY <1>1 DEF Edge, Edges

\* The kinds of a registry are those that modules or declarations name.
LEMMA KindsAreKnown ==
    ASSUME NEW read
    PROVE  /\ DOMAIN Merged(Discovered(read)) \subseteq AllKinds
           /\ DOMAIN Bindings(Merged(Discovered(read))) \subseteq AllKinds
           /\ Refused(Merged(Discovered(read))) \subseteq AllKinds
<1>1. DOMAIN Discovered(read) \subseteq Kinds
  BY DEF Discovered
<1>2. DOMAIN Merged(Discovered(read)) \subseteq AllKinds
  BY <1>1 DEF Merged, AllKinds
<1>3. Valid(Merged(Discovered(read))) \subseteq DOMAIN Merged(Discovered(read))
  BY DEF Valid
<1> QED
  BY <1>2, <1>3 DEF Bindings, Refused

\* An edge that is projected is the only one of its pair.
LEMMA ProjectedIs ==
    ASSUME NEW g, OneRelationIn(g), g \subseteq Edges, NEW e \in Edges
    PROVE  /\ Projected(g, e) = {x \in g : Pair(x) # Pair(e)} \cup {e}
           /\ OneRelationIn(Projected(g, e)) /\ Projected(g, e) \subseteq Edges
<1>1. \A x \in Edges : Pair(x) = Pair(e) /\ x.relation = e.relation => x = e
  BY DEF Edges, Pair
<1>2. Projected(g, e) = {x \in g : Pair(x) # Pair(e)} \cup {e}
  <2>1. CASE Replaces(g, e)
    BY <2>1 DEF Projected
  <2>2. CASE ~Replaces(g, e)
    BY <1>1, <2>2 DEF Projected, Replaces
  <2> QED
    BY <2>1, <2>2
<1> QED
  BY <1>2 DEF OneRelationIn

\* A drop that is made adds its edge to the last ones of its page and to no others.
LEMMA LastEdgesGrow ==
    ASSUME made \in Seq(MadeDrops), NEW r \in MadeDrops, made' = Append(made, r), NEW c
    PROVE  /\ r.page # c => LastEdges(c)' = LastEdges(c)
           /\ r.page = c => LastEdges(c)' = {x \in LastEdges(c) : Pair(x) # Pair(r.edge)} \cup {r.edge}
<1> DEFINE n == Len(made) + 1
           stands(i) == i \in MadeBy(c) /\ \A j \in MadeBy(c) : Pair(made[j].edge) = Pair(made[i].edge) => j <= i
           standsNow(i) == i \in MadeBy(c)' /\ \A j \in MadeBy(c)' : Pair(made'[j].edge) = Pair(made'[i].edge) => j <= i
<1>1. /\ n \in Nat /\ DOMAIN made = 1 .. Len(made) /\ DOMAIN made' = 1 .. n
      /\ \A i \in DOMAIN made : made'[i] = made[i] /\ i < n
      /\ made'[n] = r /\ DOMAIN made' = DOMAIN made \cup {n} /\ n \notin DOMAIN made
  OBVIOUS
<1>2. MadeBy(c)' = IF r.page = c THEN MadeBy(c) \cup {n} ELSE MadeBy(c)
  <2> HIDE DEF n
  <2> QED
    BY <1>1 DEF MadeBy
<1>3. LastEdges(c) = {made[i].edge : i \in {i \in MadeBy(c) : stands(i)}}
  BY DEF LastEdges
<1>4. LastEdges(c)' = {made'[i].edge : i \in {i \in MadeBy(c)' : standsNow(i)}}
  BY DEF LastEdges
<1>5. \A i \in MadeBy(c) : i \in DOMAIN made /\ made'[i] = made[i] /\ i \in Nat /\ i < n
  BY <1>1 DEF MadeBy
<1>6. CASE r.page # c
  <2>1. \A i \in MadeBy(c) : stands(i) <=> standsNow(i)
    BY <1>2, <1>5, <1>6
  <2> HIDE DEF stands, standsNow, n
  <2> QED
    BY <1>2, <1>3, <1>4, <1>5, <1>6, <2>1
<1>7. CASE r.page = c
  <2>1. standsNow(n)
    BY <1>1, <1>2, <1>5, <1>7
  <2>2. \A i \in MadeBy(c) : standsNow(i) <=> stands(i) /\ Pair(made[i].edge) # Pair(r.edge)
    <3> TAKE i \in MadeBy(c)
    <3>1. standsNow(i) <=> /\ \A j \in MadeBy(c) : Pair(made[j].edge) = Pair(made[i].edge) => j <= i
                           /\ Pair(r.edge) = Pair(made[i].edge) => n <= i
      BY <1>1, <1>2, <1>5, <1>7
    <3>2. ~(n <= i)
      BY <1>1, <1>5
    <3> QED
      BY <3>1, <3>2
  <2> HIDE DEF stands, standsNow, n
  <2>3. LastEdges(c)' = {made'[i].edge : i \in {i \in MadeBy(c) : standsNow(i)}} \cup {r.edge}
    <3>1. {i \in MadeBy(c)' : standsNow(i)} = {i \in MadeBy(c) : standsNow(i)} \cup {n}
      BY <1>2, <1>7, <2>1
    <3>2. made'[n].edge = r.edge
      BY <1>1
    <3> QED
      BY <1>4, <3>1, <3>2
  <2>4. {made'[i].edge : i \in {i \in MadeBy(c) : standsNow(i)}} = {x \in LastEdges(c) : Pair(x) # Pair(r.edge)}
    BY <1>3, <1>5, <2>2
  <2> QED
    BY <1>7, <2>3, <2>4
<1> QED
  BY <1>6, <1>7

--------------------------------------------------------------------------------
\* The invariant holds at first.
LEMMA DropsInvInit == DropsInit => DropsInv
<1> SUFFICES ASSUME DropsInit PROVE DropsInv
  OBVIOUS
<1> USE DEF DropsInit
<1>1. DropsTyped
  BY KindsAreKnown DEF DropsTyped, ModuleTexts, Hooks, NoHook, FreshKinds
<1>2. HookInv
  BY DEF HookInv, NoHook
<1>3. SeenInv /\ OnlyKnownJoin
  BY DEF SeenInv, OnlyKnownJoin, NoDrop
<1>4. GraphsInv
  BY DEF GraphsInv, OneRelationIn, NoDrop
<1>5. PagesInv
  <2>1. \A c : LastEdges(c) = {}
    BY DEF LastEdges, MadeBy
  <2>2. \A c : InQueue(c) = {} /\ ~IsServed(c)
    BY DEF InQueue, IsServed, NoDrop
  <2> QED
    BY <2>1, <2>2 DEF PagesInv, PageInv
<1>6. AllAreHeard
  <2>1. {i \in DOMAIN made : made[i].edge \notin store} = {}
    OBVIOUS
  <2> QED
    <3>1. Cardinality({}) = 0
      BY FS_EmptySet
    <3>2. Cardinality({i \in DOMAIN made : made[i].edge \notin store}) <= fails
      BY <2>1, <3>1
    <3>3. Len(heard) = 0 /\ Len(queue) = 0 /\ drops = 0 /\ drop.at = "none"
      BY DEF NoDrop
    <3> HIDE DEF DropsInit
    <3>4. Len(heard) = drops - Len(queue) - (IF drop.at = "none" THEN 0 ELSE 1)
      BY <3>3
    <3> QED
      BY <3>2, <3>4 DEF AllAreHeard
<1> QED
  BY <1>1, <1>2, <1>3, <1>4, <1>5, <1>6 DEF DropsInv

\* What the drops' actions leave to the hook, and the hook to the drops.
HookActions == (\E f \in Files : Save(f)) \/ Rebuild \/ Scan \/ Swap \/ SwapErrors
DropActions == (\E c \in Pages : Send(c) \/ Take(c)) \/ Serve \/ Settle

LEMMA HookLeaves ==
    HookActions => UNCHANGED <<graph, queue, answers, store, heard, dropsCrossed, made, drops, fails>>
BY DEF HookActions, Save, Rebuild, Scan, Swap, SwapErrors

\* A swap adds to the kinds that the drop which is served has seen, and to nothing else.
LEMMA HookKeeps ==
    ASSUME DropsTyped, HookActions
    PROVE  /\ drop'.at # "none" <=> drop.at # "none"
           /\ drop'.at # "none" => drop'.graph = drop.graph /\ drop'.page = drop.page
<1>1. CASE drop' = drop
  BY <1>1
<1>2. CASE Swap
  <2>1. CASE drop.at = "none"
    BY <1>2, <2>1 DEF Swap
  <2>2. CASE drop.at # "none"
    <3>1. drop' = [drop EXCEPT !.seen = @ \cup DOMAIN registry'] /\ drop \in ServedDrops
      BY <1>2, <2>2 DEF Swap, DropsTyped, NoDrop
    <3>2. drop'.at = drop.at /\ drop'.graph = drop.graph /\ drop'.page = drop.page
      BY <3>1 DEF ServedDrops
    <3> QED
      BY <2>2, <3>2
  <2> QED
    BY <2>1, <2>2
<1> QED
  BY <1>1, <1>2 DEF HookActions, Save, Rebuild, Scan, SwapErrors

LEMMA DropsLeave == DropActions => UNCHANGED <<disk, registry, errors, hook>>
BY DEF DropActions, Send, Take, Serve, Settle

\* What is dropped is served, and what is served is there as it was sent.
LEMMA ServedIs ==
    ASSUME DropsTyped, Serve
    PROVE  LET d == Head(queue) IN
           /\ d \in SentDrops /\ queue # <<>> /\ queue' = Tail(queue) /\ drop = NoDrop
           /\ \/ /\ drop' = [at |-> "target", page |-> d.page, from |-> d.from, to |-> d.to,
                             keys |-> d.keys, graph |-> d.graph, seen |-> DOMAIN registry]
                 /\ drop' \in ServedDrops /\ KindOf[d.from] \in DOMAIN registry
                 /\ UNCHANGED <<answers, heard>>
              \/ /\ answers' = [answers EXCEPT ![d.page] = Append(@, d.graph)]
                 /\ heard' = Append(heard, "rejected") /\ drop' = drop
<1>1. Head(queue) \in SentDrops /\ queue # <<>> /\ queue' = Tail(queue)
  BY DEF DropsTyped, Serve
<1>2. drop = NoDrop
  BY DEF DropsTyped, Serve, ServedDrops
<1>3. CASE Head(queue).from # Head(queue).to /\ Head(queue).to # NoTarget /\ KindOf[Head(queue).from] \in DOMAIN registry
  <2>1. /\ drop' = [at |-> "target", page |-> Head(queue).page, from |-> Head(queue).from, to |-> Head(queue).to,
                    keys |-> Head(queue).keys, graph |-> Head(queue).graph, seen |-> DOMAIN registry]
        /\ UNCHANGED <<answers, heard>>
    BY <1>3 DEF Serve
  <2>2. DOMAIN registry \in SUBSET AllKinds /\ Head(queue).to \in Nodes
    BY <1>1, <1>3 DEF DropsTyped, SentDrops
  <2>3. drop' \in ServedDrops
    BY <1>1, <2>1, <2>2 DEF SentDrops, ServedDrops
  <2> QED
    BY <1>1, <1>2, <1>3, <2>1, <2>3
<1>4. CASE ~(Head(queue).from # Head(queue).to /\ Head(queue).to # NoTarget /\ KindOf[Head(queue).from] \in DOMAIN registry)
  BY <1>1, <1>2, <1>4 DEF Serve, Rejects
<1> QED
  BY <1>3, <1>4

LEMMA SettledIs ==
    ASSUME DropsTyped, Settle
    PROVE  /\ drop \in ServedDrops /\ drop.at = "target" /\ drop' = NoDrop /\ Edge(drop) \in Edges
           /\ \/ /\ KindOf[drop.to] \in DOMAIN registry /\ InWindow(drop)
                 /\ answers' = [answers EXCEPT ![drop.page] = Append(@, Projected(drop.graph, Edge(drop)))]
                 /\ made' = Append(made, [page |-> drop.page, edge |-> Edge(drop), seen |-> drop.seen])
                 /\ [page |-> drop.page, edge |-> Edge(drop), seen |-> drop.seen] \in MadeDrops
                 /\ \E h \in {"add", "replace"} : heard' = Append(heard, h)
                 /\ \/ store' = store \cup {Edge(drop)} /\ fails' = fails
                    \/ fails' = fails + 1 /\ store' = store
              \/ /\ answers' = [answers EXCEPT ![drop.page] = Append(@, drop.graph)]
                 /\ heard' = Append(heard, "rejected") /\ UNCHANGED <<store, fails, made>>
<1>1. drop \in ServedDrops /\ drop.at = "target" /\ drop' = NoDrop
  BY DEF DropsTyped, Settle, NoDrop
<1>2. Edge(drop) \in Edges
  BY <1>1, DropMakesEdge DEF ServedDrops
<1>3. CASE KindOf[drop.to] \in DOMAIN registry /\ InWindow(drop)
  <2>1. [page |-> drop.page, edge |-> Edge(drop), seen |-> drop.seen] \in MadeDrops
    BY <1>1, <1>2 DEF ServedDrops, MadeDrops
  <2> QED
    BY <1>1, <1>2, <1>3, <2>1 DEF Settle
<1>4. CASE ~(KindOf[drop.to] \in DOMAIN registry /\ InWindow(drop))
  BY <1>1, <1>2, <1>4 DEF Settle, Rejects
<1> QED
  BY <1>3, <1>4

\* Types.
LEMMA HookTyped == DropsTyped /\ HookActions => DropsTyped'
<1> SUFFICES ASSUME DropsTyped, HookActions PROVE DropsTyped'
  OBVIOUS
<1>1. UNCHANGED <<graph, queue, answers, store, heard, dropsCrossed, made, drops, fails>>
  BY HookLeaves
<1>2. ASSUME disk' \in [Files -> ModuleTexts], hook' \in Hooks, DOMAIN registry' \subseteq AllKinds,
             errors' \subseteq AllKinds, drop' \in {NoDrop} \cup ServedDrops
      PROVE  DropsTyped'
  BY <1>1, <1>2 DEF DropsTyped
<1>3. ASSUME NEW f \in Files, Save(f) PROVE DropsTyped'
  <2>1. disk' \in [Files -> ModuleTexts]
    BY <1>3 DEF Save, DropsTyped, ModuleTexts
  <2>2. hook' \in Hooks
    BY <1>3 DEF Save, DropsTyped, Hooks
  <2> QED
    BY <1>2, <1>3, <2>1, <2>2 DEF Save, DropsTyped
<1>4. CASE Rebuild
  <2>1. hook' \in Hooks
    BY <1>4 DEF Rebuild, Hooks
  <2> QED
    BY <1>2, <1>4, <2>1 DEF Rebuild, DropsTyped
<1>5. CASE Scan
  <2>1. hook' \in Hooks
    <3>1. CASE Len(hook.read) + 1 \in Files
      <4>1. hook' = [hook EXCEPT !.read = Append(@, disk[Len(hook.read) + 1])]
        BY <1>5, <3>1 DEF Scan
      <4>2. disk[Len(hook.read) + 1] \in ModuleTexts
        BY <3>1 DEF DropsTyped
      <4> QED
        <5>1. hook.read \in Seq(ModuleTexts) /\ hook \in Hooks
          BY DEF DropsTyped, Hooks
        <5>2. Append(hook.read, disk[Len(hook.read) + 1]) \in Seq(ModuleTexts)
          BY <4>2, <5>1
        <5> QED
          BY <4>1, <5>1, <5>2 DEF Hooks
    <3>2. CASE Len(hook.read) + 1 \notin Files
      BY <1>5, <3>2 DEF Scan, DropsTyped, Hooks
    <3> QED
      BY <3>1, <3>2
  <2> QED
    BY <1>2, <1>5, <2>1 DEF Scan, DropsTyped
<1>6. CASE Swap
  <2>1. DOMAIN registry' \subseteq AllKinds
    BY <1>6, KindsAreKnown DEF Swap
  <2>2. hook' \in Hooks
    BY <1>6 DEF Swap, DropsTyped, Hooks
  <2>3. drop' \in {NoDrop} \cup ServedDrops
    <3>1. CASE drop.at = "none"
      BY <1>6, <3>1 DEF Swap, DropsTyped
    <3>2. CASE drop.at # "none"
      <4>1. drop' = [drop EXCEPT !.seen = @ \cup DOMAIN registry']
        BY <1>6, <3>2 DEF Swap
      <4> QED
        BY <2>1, <3>2, <4>1 DEF DropsTyped, NoDrop, ServedDrops
    <3> QED
      BY <3>1, <3>2
  <2> QED
    BY <1>2, <1>6, <2>1, <2>2, <2>3 DEF Swap, DropsTyped
<1>7. CASE SwapErrors
  <2>1. errors' \subseteq AllKinds
    BY <1>7, KindsAreKnown DEF SwapErrors
  <2>2. hook' \in Hooks
    BY <1>7 DEF SwapErrors, DropsTyped, Hooks
  <2> QED
    BY <1>2, <1>7, <2>1, <2>2 DEF SwapErrors, DropsTyped
<1> QED
  BY <1>3, <1>4, <1>5, <1>6, <1>7 DEF HookActions

LEMMA DropTyped == DropsTyped /\ DropActions => DropsTyped'
<1> SUFFICES ASSUME DropsTyped, DropActions PROVE DropsTyped'
  OBVIOUS
<1>1. UNCHANGED <<disk, registry, errors, hook>>
  BY DropsLeave
<1>2. ASSUME NEW c \in Pages, Send(c) PROVE DropsTyped'
  <2>1. PICK from \in Nodes, to \in Nodes \cup {NoTarget}, held \in Keys :
            queue' = Append(queue, [page |-> c, from |-> from, to |-> to, keys |-> held,
                                    graph |-> graph[c], id |-> drops])
    BY <1>2 DEF Send
  <2>2. [page |-> c, from |-> from, to |-> to, keys |-> held, graph |-> graph[c], id |-> drops] \in SentDrops
    BY DEF DropsTyped, SentDrops
  <2>3. queue' \in Seq(SentDrops)
    BY <2>1, <2>2 DEF DropsTyped
  <2>4. dropsCrossed' \subseteq Pages /\ drops' \in Nat
    BY <1>2 DEF Send, DropsTyped
  <2> QED
    BY <1>1, <1>2, <2>3, <2>4 DEF Send, DropsTyped
<1>3. ASSUME NEW c \in Pages, Take(c) PROVE DropsTyped'
  <2>1. Head(answers[c]) \in SUBSET Edges /\ Tail(answers[c]) \in Seq(SUBSET Edges)
    <3>1. answers[c] \in Seq(SUBSET Edges) /\ answers[c] # <<>>
      BY <1>3 DEF Take, DropsTyped
    <3> QED
      BY <3>1
  <2>2. graph' \in [Pages -> SUBSET Edges] /\ answers' \in [Pages -> Seq(SUBSET Edges)]
    BY <1>3, <2>1 DEF Take, DropsTyped
  <2> QED
    BY <1>1, <1>3, <2>2 DEF Take, DropsTyped
<1>4. CASE Serve
  <2>1. Tail(queue) \in Seq(SentDrops)
    BY <1>4, ServedIs DEF DropsTyped
  <2>2. drop' \in {NoDrop} \cup ServedDrops
    BY <1>4, ServedIs DEF DropsTyped
  <2>a. heard' \in Seq({"add", "replace", "rejected"})
    <3>1. heard' = heard \/ heard' = Append(heard, "rejected")
      BY <1>4, ServedIs
    <3>2. heard \in Seq({"add", "replace", "rejected"})
      BY DEF DropsTyped
    <3> QED
      BY <3>1, <3>2
  <2>3. answers' \in [Pages -> Seq(SUBSET Edges)]
    <3>1. Head(queue).page \in Pages /\ Head(queue).graph \in SUBSET Edges
      BY <1>4, ServedIs DEF SentDrops
    <3>2. Append(answers[Head(queue).page], Head(queue).graph) \in Seq(SUBSET Edges)
      BY <3>1 DEF DropsTyped
    <3> QED
      BY <1>4, <3>2, ServedIs DEF DropsTyped
  <2> QED
    BY <1>1, <1>4, <2>1, <2>2, <2>a, <2>3 DEF Serve, DropsTyped
<1>5. CASE Settle
  <2>1. /\ drop \in ServedDrops /\ drop.page \in Pages /\ drop.graph \in SUBSET Edges
        /\ Projected(drop.graph, Edge(drop)) \in SUBSET Edges
    BY <1>5, SettledIs DEF ServedDrops, Projected
  <2>2. answers' \in [Pages -> Seq(SUBSET Edges)]
    <3>1. \A g \in SUBSET Edges : Append(answers[drop.page], g) \in Seq(SUBSET Edges)
      BY <2>1 DEF DropsTyped
    <3> QED
      BY <1>5, <2>1, <3>1, SettledIs DEF DropsTyped
  <2>3. made' \in Seq(MadeDrops)
    <3>1. made' = made \/ \E r \in MadeDrops : made' = Append(made, r)
      BY <1>5, SettledIs
    <3>2. made \in Seq(MadeDrops)
      BY DEF DropsTyped
    <3> QED
      BY <3>1, <3>2
  <2>4. heard' \in Seq({"add", "replace", "rejected"})
    <3>1. \E h \in {"add", "replace", "rejected"} : heard' = Append(heard, h)
      BY <1>5, SettledIs
    <3>2. heard \in Seq({"add", "replace", "rejected"})
      BY DEF DropsTyped
    <3> QED
      BY <3>1, <3>2
  <2>5. store' \subseteq Edges /\ fails' \in Nat /\ drop' \in {NoDrop} \cup ServedDrops
    BY <1>5, SettledIs DEF DropsTyped
  <2> QED
    BY <1>1, <1>5, <2>2, <2>3, <2>4, <2>5 DEF Settle, DropsTyped
<1> QED
  BY <1>2, <1>3, <1>4, <1>5 DEF DropActions

--------------------------------------------------------------------------------
\* The registry is that of the files.
LEMMA HookStep == DropsTyped /\ HookInv /\ HookActions => HookInv'
<1> SUFFICES ASSUME DropsTyped, HookInv, HookActions, ~hook'.moved PROVE HookInv'
  BY DEF HookInv
<1>0. hook \in Hooks /\ hook.read \in Seq(ModuleTexts) /\ disk \in [Files -> ModuleTexts]
  BY DEF DropsTyped, Hooks
<1>1. ASSUME NEW f \in Files, Save(f) PROVE FALSE
  BY <1>0, <1>1 DEF Save, Hooks
<1>2. CASE Rebuild
  <2>1. hook' = [at |-> "scan", read |-> <<>>, moved |-> FALSE]
    BY <1>2 DEF Rebuild
  <2>2. hook'.at = "scan" /\ Len(hook'.read) = 0
    BY <2>1
  <2>3. Cardinality(Files) \in Nat
    BY DropsAssumption, FS_CardinalityType
  <2> QED
    BY <2>2, <2>3 DEF HookInv
<1>3. CASE Scan
  <2> DEFINE n == Len(hook.read)
  <2>1. hook.at = "scan" /\ ~hook.moved /\ UNCHANGED <<disk, registry, errors>>
    BY <1>0, <1>3 DEF Scan, Hooks
  <2>2. n \in Nat /\ n <= Cardinality(Files) /\ \A i \in 1 .. n : hook.read[i] = disk[i]
    BY <1>0, <2>1 DEF HookInv
  <2>3. Cardinality(Files) \in Nat /\ Files = 1 .. Cardinality(Files)
    BY DropsAssumption, FS_CardinalityType
  <2>4. CASE n + 1 \in Files
    <3>1. hook'.at = "scan" /\ hook'.read = Append(hook.read, disk[n + 1])
      BY <1>0, <1>3, <2>1, <2>4 DEF Scan, Hooks
    <3>2. Len(hook'.read) = n + 1 /\ \A i \in 1 .. n : hook'.read[i] = hook.read[i]
      BY <1>0, <3>1
    <3>3. hook'.read[n + 1] = disk[n + 1]
      BY <1>0, <3>1
    <3>4. n + 1 <= Cardinality(Files)
      BY <2>3, <2>4
    <3>5. \A i \in 1 .. n + 1 : hook'.read[i] = disk'[i]
      <4> TAKE i \in 1 .. n + 1
      <4>1. i \in 1 .. n \/ i = n + 1
        BY <2>2
      <4> QED
        BY <2>1, <2>2, <3>2, <3>3, <4>1
    <3> QED
      BY <3>1, <3>2, <3>4, <3>5 DEF HookInv
  <2>5. CASE n + 1 \notin Files
    <3>1. hook'.at = "swap" /\ hook'.read = hook.read
      BY <1>0, <1>3, <2>1, <2>5 DEF Scan, Hooks
    <3>2. n = Cardinality(Files)
      BY <2>2, <2>3, <2>5
    <3>3. hook.read = disk
      <4>1. DOMAIN hook.read = 1 .. n /\ DOMAIN disk = 1 .. n
        BY <1>0, <2>3, <3>2
      <4>2. \E S, T : hook.read \in [1 .. n -> S] /\ disk \in [1 .. n -> T]
        <5>1. hook.read \in [1 .. n -> ModuleTexts]
          BY <1>0
        <5>2. disk \in [1 .. n -> ModuleTexts]
          BY <1>0, <2>3, <3>2
        <5> QED
          BY <5>1, <5>2
      <4> QED
        BY <2>2, <4>2
    <3> QED
      BY <2>1, <3>1, <3>3 DEF HookInv
  <2> QED
    BY <2>4, <2>5
<1>4. CASE Swap
  <2>1. hook.at = "swap" /\ ~hook.moved /\ hook'.at = "errors" /\ hook'.read = hook.read /\ disk' = disk
    BY <1>0, <1>4 DEF Swap, Hooks
  <2>2. hook.read = disk
    BY <2>1 DEF HookInv
  <2>3. registry' = Bindings(Merged(Discovered(disk)))
    BY <1>4, <2>2 DEF Swap
  <2>4. FreshKinds' = Merged(Discovered(disk))
    BY <2>1 DEF FreshKinds, Discovered
  <2> QED
    BY <2>1, <2>2, <2>3, <2>4 DEF HookInv
<1>5. CASE SwapErrors
  <2>1. hook.at = "errors" /\ ~hook.moved /\ hook'.at = "idle" /\ disk' = disk /\ registry' = registry
    BY <1>0, <1>5 DEF SwapErrors, Hooks
  <2>2. hook.read = disk /\ registry = Bindings(FreshKinds)
    BY <2>1 DEF HookInv
  <2>3. errors' = Refused(FreshKinds)
    BY <1>5, <2>2 DEF SwapErrors, FreshKinds
  <2>4. FreshKinds' = FreshKinds
    BY <2>1 DEF FreshKinds, Discovered
  <2> QED
    BY <2>1, <2>2, <2>3, <2>4 DEF HookInv
<1> QED
  BY <1>1, <1>2, <1>3, <1>4, <1>5 DEF HookActions

--------------------------------------------------------------------------------
\* What is joined is known: the registry may only grow in what the drop has seen.
LEMMA SeenStep == DropsTyped /\ SeenInv /\ DropsNext => SeenInv'
<1> SUFFICES ASSUME DropsTyped, SeenInv, DropsNext PROVE SeenInv'
  OBVIOUS
<1>1. ASSUME UNCHANGED <<drop, registry>> PROVE SeenInv'
  BY <1>1 DEF SeenInv
<1>2. CASE Swap
  <2>1. CASE drop.at = "none"
    BY <1>2, <2>1 DEF Swap, SeenInv
  <2>2. CASE drop.at # "none"
    <3>1. drop' = [drop EXCEPT !.seen = @ \cup DOMAIN registry'] /\ drop \in ServedDrops
      BY <1>2, <2>2 DEF Swap, DropsTyped, NoDrop
    <3>2. drop'.seen = drop.seen \cup DOMAIN registry' /\ drop'.from = drop.from
      BY <3>1 DEF ServedDrops
    <3>3. KindOf[drop.from] \in drop.seen
      BY <2>2 DEF SeenInv
    <3> QED
      BY <3>2, <3>3 DEF SeenInv
  <2> QED
    BY <2>1, <2>2
<1>3. CASE Serve
  <2>1. registry' = registry
    BY <1>3 DEF Serve
  <2> QED
    BY <1>3, <2>1, ServedIs DEF SeenInv, NoDrop
<1>4. CASE Settle
  BY <1>4 DEF Settle, SeenInv, NoDrop
<1> QED
  BY <1>1, <1>2, <1>3, <1>4 DEF DropsNext, Save, Rebuild, Scan, SwapErrors, Send, Take

LEMMA JoinStep == DropsTyped /\ SeenInv /\ OnlyKnownJoin /\ DropsNext => OnlyKnownJoin'
<1> SUFFICES ASSUME DropsTyped, SeenInv, OnlyKnownJoin, DropsNext PROVE OnlyKnownJoin'
  OBVIOUS
<1>1. ASSUME made' = made PROVE OnlyKnownJoin'
  BY <1>1 DEF OnlyKnownJoin
<1>2. CASE Settle /\ made' # made
  <2> DEFINE r == [page |-> drop.page, edge |-> Edge(drop), seen |-> drop.seen]
  <2>1. made' = Append(made, r) /\ KindOf[drop.to] \in DOMAIN registry /\ InWindow(drop) /\ drop.at = "target"
    BY <1>2, SettledIs
  <2>2. r.edge.source = drop.from /\ r.edge.target = drop.to /\ r.seen = drop.seen
    BY DEF Edge
  <2>3. {KindOf[drop.from], KindOf[drop.to]} \subseteq drop.seen
    BY <2>1 DEF SeenInv
  <2>4. InWindow([from |-> drop.from, to |-> drop.to])
    BY <2>1 DEF InWindow
  <2> HIDE DEF r
  <2>5. made \in Seq(MadeDrops)
    BY DEF DropsTyped
  <2>6. \A i \in DOMAIN made' : (i \in DOMAIN made /\ made'[i] = made[i]) \/ made'[i] = r
    BY <2>1, <2>5
  <2> QED
    BY <2>2, <2>3, <2>4, <2>6 DEF OnlyKnownJoin
<1> QED
  BY <1>1, <1>2 DEF DropsNext, Save, Rebuild, Scan, Swap, SwapErrors, Send, Take, Serve

\* One relation for a pair, wherever a graph is.
LEMMA GraphsStep == DropsTyped /\ GraphsInv /\ DropsNext => GraphsInv'
<1> SUFFICES ASSUME DropsTyped, GraphsInv, DropsNext PROVE GraphsInv'
  OBVIOUS
<1>1. CASE HookActions
  <2>2. drop'.at # "none" => drop.at # "none" /\ drop'.graph = drop.graph
    BY <1>1, HookKeeps
  <2> QED
    BY <1>1, <2>2, HookLeaves DEF GraphsInv
<1>2. ASSUME NEW c \in Pages, Send(c) PROVE GraphsInv'
  <2>1. PICK d : d.graph = graph[c] /\ queue' = Append(queue, d)
    BY <1>2 DEF Send
  <2>2. queue \in Seq(SentDrops)
    BY DEF DropsTyped
  <2>3. \A i \in DOMAIN queue' : (i \in DOMAIN queue /\ queue'[i] = queue[i]) \/ queue'[i] = d
    BY <2>1, <2>2
  <2> QED
    BY <1>2, <2>1, <2>3 DEF Send, GraphsInv
<1>3. ASSUME NEW c \in Pages, Take(c) PROVE GraphsInv'
  <2>1. answers[c] \in Seq(SUBSET Edges) /\ answers[c] # <<>>
    BY <1>3 DEF Take, DropsTyped
  <2>2. 1 \in DOMAIN answers[c] /\ Head(answers[c]) = answers[c][1]
    BY <2>1
  <2>3. \A i \in DOMAIN Tail(answers[c]) : i + 1 \in DOMAIN answers[c] /\ Tail(answers[c])[i] = answers[c][i + 1]
    BY <2>1
  <2>4. /\ \A b \in Pages : graph'[b] = IF b = c THEN Head(answers[c]) ELSE graph[b]
        /\ \A b \in Pages : answers'[b] = IF b = c THEN Tail(answers[c]) ELSE answers[b]
        /\ UNCHANGED <<queue, drop>>
    BY <1>3 DEF Take, DropsTyped
  <2> QED
    <3>1. \A b \in Pages : OneRelationIn(graph'[b])
      BY <2>2, <2>4 DEF GraphsInv
    <3>2. \A b \in Pages : \A i \in DOMAIN answers'[b] : OneRelationIn(answers'[b][i])
      BY <2>3, <2>4 DEF GraphsInv
    <3> QED
      BY <2>4, <3>1, <3>2 DEF GraphsInv
<1>4. ASSUME NEW b \in Pages, NEW g, OneRelationIn(g), answers' = [answers EXCEPT ![b] = Append(@, g)], g \in SUBSET Edges
      PROVE  \A c \in Pages : \A i \in DOMAIN answers'[c] : OneRelationIn(answers'[c][i])
  <2>1. TAKE c \in Pages
  <2>2. CASE c # b
    BY <1>4, <2>2 DEF DropsTyped, GraphsInv
  <2>3. CASE c = b
    <3>1. answers[b] \in Seq(SUBSET Edges) /\ answers'[b] = Append(answers[b], g)
      BY <1>4 DEF DropsTyped
    <3>2. \A i \in DOMAIN answers'[b] : (i \in DOMAIN answers[b] /\ answers'[b][i] = answers[b][i]) \/ answers'[b][i] = g
      BY <1>4, <3>1
    <3> QED
      BY <1>4, <2>3, <3>2 DEF GraphsInv
  <2> QED
    BY <2>2, <2>3
<1>5. CASE Serve
  <2>1. Head(queue) \in SentDrops /\ queue # <<>> /\ queue' = Tail(queue) /\ queue \in Seq(SentDrops)
    BY <1>5, ServedIs DEF DropsTyped
  <2>2. OneRelationIn(Head(queue).graph) /\ Head(queue).page \in Pages /\ Head(queue).graph \in SUBSET Edges
    <3>1. Head(queue) = queue[1] /\ 1 \in DOMAIN queue
      BY <2>1
    <3> QED
      BY <2>1, <3>1 DEF GraphsInv, SentDrops
  <2>3. \A i \in DOMAIN queue' : OneRelationIn(queue'[i].graph)
    <3>1. \A i \in DOMAIN Tail(queue) : i + 1 \in DOMAIN queue /\ Tail(queue)[i] = queue[i + 1]
      BY <2>1
    <3> QED
      BY <2>1, <3>1 DEF GraphsInv
  <2>4. drop'.at # "none" => OneRelationIn(drop'.graph)
    BY <1>5, <2>2, ServedIs DEF NoDrop
  <2>5. \A c \in Pages : \A i \in DOMAIN answers'[c] : OneRelationIn(answers'[c][i])
    <3>1. answers' = answers \/ answers' = [answers EXCEPT ![Head(queue).page] = Append(@, Head(queue).graph)]
      BY <1>5, ServedIs
    <3> QED
      BY <1>4, <2>2, <3>1 DEF GraphsInv
  <2> QED
    BY <1>5, <2>3, <2>4, <2>5 DEF Serve, GraphsInv
<1>6. CASE Settle
  <2>1. drop \in ServedDrops /\ drop.at = "target" /\ drop' = NoDrop /\ Edge(drop) \in Edges
    BY <1>6, SettledIs
  <2>2. OneRelationIn(drop.graph) /\ drop.page \in Pages /\ drop.graph \subseteq Edges
    BY <2>1 DEF GraphsInv, ServedDrops
  <2>3. \A c \in Pages : \A i \in DOMAIN answers'[c] : OneRelationIn(answers'[c][i])
    <3>1. OneRelationIn(Projected(drop.graph, Edge(drop))) /\ Projected(drop.graph, Edge(drop)) \subseteq Edges
      BY <2>1, <2>2, ProjectedIs
    <3>2. \/ answers' = [answers EXCEPT ![drop.page] = Append(@, Projected(drop.graph, Edge(drop)))]
          \/ answers' = [answers EXCEPT ![drop.page] = Append(@, drop.graph)]
      BY <1>6, SettledIs
    <3> QED
      BY <1>4, <2>2, <3>1, <3>2
  <2> QED
    BY <1>6, <2>1, <2>3 DEF Settle, GraphsInv, NoDrop
<1> QED
  BY <1>1, <1>2, <1>3, <1>5, <1>6 DEF DropsNext, HookActions

--------------------------------------------------------------------------------
\* A page's last drop stands.
LEMMA WaitsIs == ASSUME NEW c PROVE Waits(c) <=> InQueue(c) # {} \/ IsServed(c) \/ answers[c] # <<>>
BY DEF Waits, InQueue, IsServed

LEMMA OnlyOne ==
    ASSUME NEW S, NEW s \in Seq(S), Len(s) = 1
    PROVE  Head(s) = s[1] /\ Tail(s) = <<>>
<1>1. Len(Tail(s)) = 0 /\ Tail(s) \in Seq(S) /\ Head(s) = s[1]
  OBVIOUS
<1>2. \A t \in Seq(S) : Len(t) = 0 => t = <<>>
  OBVIOUS
<1> QED
  BY <1>1, <1>2

\* A step that does nothing for a page, but moves what it has sent on in the queue.
LEMMA PageKept ==
    ASSUME NEW c \in Pages, PageInv(c), NEW k \in {0, 1},
           graph'[c] = graph[c], answers'[c] = answers[c], LastEdges(c)' = LastEdges(c),
           IsServed(c)' <=> IsServed(c), IsServed(c) => drop'.graph = drop.graph,
           InQueue(c)' \subseteq Nat,
           \A i \in Nat : i \in InQueue(c)' <=> i + k \in InQueue(c),
           \A i \in InQueue(c)' : queue'[i] = queue[i + k],
           InQueue(c) # {} => InQueue(c)' # {}
    PROVE  PageInv(c)'
<1>1. \A i, j \in InQueue(c)' : i = j
  <2>1. \A i, j \in InQueue(c)' : i \in Nat /\ j \in Nat /\ i + k = j + k
    BY DEF PageInv
  <2> QED
    BY <2>1
<1>2. \A i \in InQueue(c)' : queue'[i].graph = LastEdges(c) /\ ~IsServed(c) /\ answers[c] = <<>>
  BY DEF PageInv
<1>3. IsServed(c) => drop.graph = LastEdges(c) /\ answers[c] = <<>>
  BY DEF PageInv
<1>4. answers[c] # <<>> => Len(answers[c]) = 1 /\ answers[c][1] = LastEdges(c)
  BY DEF PageInv
<1>5. ~Waits(c)' => graph'[c] = LastEdges(c)
  <2>1. ASSUME ~Waits(c)' PROVE ~Waits(c)
    BY <2>1, WaitsIs DEF Waits, InQueue, IsServed
  <2> QED
    BY <2>1 DEF PageInv
<1> QED
  BY <1>1, <1>2, <1>3, <1>4, <1>5 DEF PageInv

LEMMA SamePages == ASSUME made' = made, NEW c PROVE LastEdges(c)' = LastEdges(c)
BY DEF LastEdges, MadeBy

LEMMA QueuedIs == ASSUME DropsTyped, NEW c PROVE InQueue(c) \subseteq Nat
BY DEF DropsTyped, InQueue

LEMMA PagesStep == DropsTyped /\ DropsTyped' /\ GraphsInv /\ PagesInv /\ DropsNext => PagesInv'
<1> SUFFICES ASSUME DropsTyped, DropsTyped', GraphsInv, PagesInv, DropsNext,
                    NEW c \in Pages, c \notin dropsCrossed'
             PROVE  PageInv(c)'
  BY DEF PagesInv
<1>0. c \notin dropsCrossed /\ InQueue(c) \subseteq Nat /\ InQueue(c)' \subseteq Nat
  <2>1. dropsCrossed \subseteq dropsCrossed'
    BY DEF DropsNext, Save, Rebuild, Scan, Swap, SwapErrors, Send, Take, Serve, Settle
  <2>2. InQueue(c)' \subseteq Nat
    BY DEF DropsTyped, InQueue
  <2> QED
    BY <2>1, <2>2, QueuedIs
<1>1. PageInv(c)
  BY <1>0 DEF PagesInv
<1>2. ASSUME queue' = queue
      PROVE  /\ InQueue(c)' = InQueue(c)
             /\ \A i \in Nat : i \in InQueue(c)' <=> i + 0 \in InQueue(c)
             /\ \A i \in InQueue(c)' : queue'[i] = queue[i + 0]
  <2>1. InQueue(c)' = InQueue(c)
    BY <1>2 DEF InQueue
  <2>2. \A i \in Nat : i + 0 = i
    OBVIOUS
  <2> QED
    BY <1>0, <1>2, <2>1, <2>2
<1>3. CASE HookActions
  <2>1. UNCHANGED <<graph, queue, answers, made>>
    BY <1>3, HookLeaves
  <2>2. IsServed(c)' <=> IsServed(c)
    BY <1>3, HookKeeps DEF IsServed
  <2>3. IsServed(c) => drop'.graph = drop.graph
    BY <1>3, HookKeeps DEF IsServed
  <2> QED
    BY <1>0, <1>1, <1>2, <2>1, <2>2, <2>3, PageKept, SamePages
<1>4. ASSUME NEW b \in Pages, Send(b) PROVE PageInv(c)'
  <2>1. PICK d : d.page = b /\ d.graph = graph[b] /\ queue' = Append(queue, d)
    BY <1>4 DEF Send
  <2>2. UNCHANGED <<graph, drop, answers, made>>
    BY <1>4 DEF Send
  <2>3. queue \in Seq(SentDrops)
    BY DEF DropsTyped
  <2>4. /\ DOMAIN queue' = DOMAIN queue \cup {Len(queue) + 1}
        /\ Len(queue) + 1 \notin DOMAIN queue
        /\ \A i \in DOMAIN queue : queue'[i] = queue[i]
        /\ queue'[Len(queue) + 1] = d
    BY <2>1, <2>3
  <2>5. CASE b # c
    <3>1. InQueue(c)' = InQueue(c) /\ \A i \in InQueue(c)' : queue'[i] = queue[i]
      BY <2>1, <2>4, <2>5 DEF InQueue
    <3>2. /\ \A i \in Nat : i \in InQueue(c)' <=> i + 0 \in InQueue(c)
          /\ \A i \in InQueue(c)' : queue'[i] = queue[i + 0]
      <4>1. \A i \in Nat : i + 0 = i
        OBVIOUS
      <4> QED
        BY <1>0, <3>1, <4>1
    <3>3. (IsServed(c)' <=> IsServed(c)) /\ drop' = drop
      BY <2>2 DEF IsServed
    <3> QED
      BY <1>0, <1>1, <2>2, <3>1, <3>2, <3>3, PageKept, SamePages
  <2>6. CASE b = c
    <3>1. ~Waits(c)
      BY <1>4, <2>6 DEF Send
    <3>2. InQueue(c) = {} /\ ~IsServed(c) /\ answers[c] = <<>>
      BY <3>1, WaitsIs
    <3>3. graph[c] = LastEdges(c)
      BY <1>1, <3>1 DEF PageInv
    <3>4. InQueue(c)' = {Len(queue) + 1} /\ queue'[Len(queue) + 1].graph = LastEdges(c)
      BY <2>1, <2>4, <2>6, <3>2, <3>3 DEF InQueue
    <3>5. ~IsServed(c)' /\ answers'[c] = <<>> /\ LastEdges(c)' = LastEdges(c)
      BY <2>2, <3>2, SamePages DEF IsServed
    <3>6. Waits(c)'
      BY <3>4 DEF Waits, InQueue
    <3> QED
      BY <3>4, <3>5, <3>6 DEF PageInv
  <2> QED
    BY <2>5, <2>6
<1>5. ASSUME NEW b \in Pages, Take(b) PROVE PageInv(c)'
  <2>1. UNCHANGED <<queue, drop, made>> /\ answers[b] # <<>>
    BY <1>5 DEF Take
  <2>2. (IsServed(c)' <=> IsServed(c)) /\ drop' = drop /\ LastEdges(c)' = LastEdges(c)
    BY <2>1, SamePages DEF IsServed
  <2>3. CASE b # c
    <3>1. graph'[c] = graph[c] /\ answers'[c] = answers[c]
      BY <1>5, <2>3 DEF Take, DropsTyped
    <3> QED
      BY <1>0, <1>1, <1>2, <2>1, <2>2, <3>1, PageKept
  <2>4. CASE b = c
    <3>1. graph'[c] = Head(answers[c]) /\ answers'[c] = Tail(answers[c]) /\ answers[c] \in Seq(SUBSET Edges)
      BY <1>5, <2>4 DEF Take, DropsTyped
    <3>2. Len(answers[c]) = 1 /\ answers[c][1] = LastEdges(c)
      BY <1>1, <2>1, <2>4 DEF PageInv
    <3>3. Head(answers[c]) = LastEdges(c) /\ Tail(answers[c]) = <<>>
      BY <3>1, <3>2, OnlyOne
    <3>4. InQueue(c) = {} /\ ~IsServed(c)
      BY <1>1, <2>1, <2>4 DEF PageInv
    <3> QED
      BY <1>2, <2>1, <2>2, <3>1, <3>3, <3>4 DEF PageInv
  <2> QED
    BY <2>3, <2>4
<1>6. CASE Serve
  <2>1. /\ queue \in Seq(SentDrops) /\ queue # <<>> /\ queue' = Tail(queue) /\ drop = NoDrop
        /\ Head(queue).page \in Pages
    BY <1>6, ServedIs DEF DropsTyped, SentDrops
  <2>2. /\ Head(queue) = queue[1] /\ 1 \in DOMAIN queue /\ DOMAIN queue \subseteq Nat \ {0}
        /\ \A i \in Nat : i \in DOMAIN queue' <=> i # 0 /\ i + 1 \in DOMAIN queue
        /\ \A i \in DOMAIN queue' : queue'[i] = queue[i + 1]
    BY <2>1
  <2>3. LastEdges(c)' = LastEdges(c) /\ graph' = graph /\ ~IsServed(c)
    BY <1>6, <2>1, SamePages DEF Serve, IsServed, NoDrop
  <2>4. CASE Head(queue).page # c
    <3>1. answers'[c] = answers[c] /\ ~IsServed(c)'
      <4>1. \/ answers' = answers /\ drop'.page = Head(queue).page
            \/ /\ answers' = [answers EXCEPT ![Head(queue).page] = Append(@, Head(queue).graph)]
               /\ drop' = drop
        BY <1>6, ServedIs
      <4> QED
        BY <2>1, <2>3, <2>4, <4>1 DEF DropsTyped, IsServed
    <3>2. /\ \A i \in Nat : i \in InQueue(c)' <=> i + 1 \in InQueue(c)
          /\ \A i \in InQueue(c)' : queue'[i] = queue[i + 1]
      BY <1>0, <2>2, <2>4 DEF InQueue
    <3>3. InQueue(c) # {} => InQueue(c)' # {}
      <4> SUFFICES ASSUME NEW j \in InQueue(c) PROVE InQueue(c)' # {}
        OBVIOUS
      <4>1. j \in Nat /\ j # 0 /\ j # 1
        BY <2>2, <2>4 DEF InQueue
      <4>2. j - 1 \in Nat /\ (j - 1) + 1 = j
        BY <4>1
      <4> QED
        BY <3>2, <4>2
    <3> QED
      BY <1>0, <1>1, <2>3, <3>1, <3>2, <3>3, PageKept
  <2>5. CASE Head(queue).page = c
    <3>1. 1 \in InQueue(c)
      BY <2>2, <2>5 DEF InQueue
    <3>2. Head(queue).graph = LastEdges(c) /\ answers[c] = <<>> /\ \A i \in InQueue(c) : i = 1
      BY <1>1, <2>2, <3>1 DEF PageInv
    <3>3. InQueue(c)' = {}
      <4> SUFFICES ASSUME NEW i \in InQueue(c)' PROVE FALSE
        OBVIOUS
      <4>1. i \in Nat /\ i # 0 /\ i + 1 \in InQueue(c)
        BY <1>0, <2>2 DEF InQueue
      <4> QED
        BY <3>2, <4>1
    <3>4. CASE answers' = answers /\ drop'.at = "target" /\ drop'.page = c /\ drop'.graph = LastEdges(c)
      <4>1. answers'[c] = <<>> /\ Waits(c)'
        BY <3>2, <3>4 DEF Waits
      <4> QED
        BY <2>3, <3>3, <3>4, <4>1 DEF PageInv, IsServed
    <3>5. CASE answers' = [answers EXCEPT ![c] = Append(@, LastEdges(c))] /\ drop' = drop
      <4>1. answers'[c] = <<LastEdges(c)>>
        BY <3>2, <3>5 DEF DropsTyped
      <4>2. Len(answers'[c]) = 1 /\ answers'[c][1] = LastEdges(c) /\ answers'[c] # <<>>
        BY <4>1
      <4>3. ~IsServed(c)' /\ Waits(c)'
        BY <2>3, <3>5, <4>2 DEF IsServed, Waits
      <4> QED
        BY <2>3, <3>3, <4>2, <4>3 DEF PageInv
    <3> QED
      <4> DEFINE d == Head(queue)
      <4>1. d.page = c /\ d.graph = LastEdges(c)
        BY <2>5, <3>2
      <4>2. \/ /\ drop' = [at |-> "target", page |-> d.page, from |-> d.from, to |-> d.to,
                            keys |-> d.keys, graph |-> d.graph, seen |-> DOMAIN registry]
               /\ answers' = answers
            \/ answers' = [answers EXCEPT ![d.page] = Append(@, d.graph)] /\ drop' = drop
        BY <1>6, ServedIs
      <4> HIDE DEF d
      <4> QED
        BY <3>4, <3>5, <4>1, <4>2
  <2> QED
    BY <2>4, <2>5
<1>7. CASE Settle
  <2>1. drop \in ServedDrops /\ drop.at = "target" /\ drop' = NoDrop /\ Edge(drop) \in Edges /\ drop.page \in Pages
    BY <1>7, SettledIs DEF ServedDrops
  <2>2. queue' = queue /\ graph' = graph /\ ~IsServed(c)' /\ made \in Seq(MadeDrops)
    BY <1>7, <2>1 DEF Settle, IsServed, NoDrop, DropsTyped
  <2>3. CASE drop.page # c
    <3>1. answers'[c] = answers[c] /\ ~IsServed(c)
      BY <1>7, <2>1, <2>3, SettledIs DEF DropsTyped, IsServed
    <3>2. LastEdges(c)' = LastEdges(c)
      <4>1. made' = made \/ \E r \in MadeDrops : r.page # c /\ made' = Append(made, r)
        BY <1>7, <2>3, SettledIs
      <4> QED
        BY <2>2, <4>1, SamePages, LastEdgesGrow
    <3> QED
      BY <1>0, <1>1, <1>2, <2>2, <3>1, <3>2, PageKept
  <2>4. CASE drop.page = c
    <3>1. IsServed(c) /\ OneRelationIn(drop.graph) /\ drop.graph \subseteq Edges
      BY <2>1, <2>4 DEF IsServed, GraphsInv, ServedDrops
    <3>2. drop.graph = LastEdges(c) /\ answers[c] = <<>> /\ InQueue(c)' = {}
      BY <1>1, <1>2, <2>2, <3>1 DEF PageInv
    <3>3. \E g : answers' = [answers EXCEPT ![c] = Append(@, g)] /\ g = LastEdges(c)'
      <4>1. CASE made' = made /\ answers' = [answers EXCEPT ![c] = Append(@, drop.graph)]
        BY <3>2, <4>1, SamePages
      <4>2. CASE /\ made' = Append(made, [page |-> drop.page, edge |-> Edge(drop), seen |-> drop.seen])
                 /\ [page |-> drop.page, edge |-> Edge(drop), seen |-> drop.seen] \in MadeDrops
                 /\ answers' = [answers EXCEPT ![c] = Append(@, Projected(drop.graph, Edge(drop)))]
        <5>1. LastEdges(c)' = {x \in LastEdges(c) : Pair(x) # Pair(Edge(drop))} \cup {Edge(drop)}
          <6> DEFINE r == [page |-> drop.page, edge |-> Edge(drop), seen |-> drop.seen]
          <6>1. r.page = c /\ r.edge = Edge(drop) /\ r \in MadeDrops /\ made' = Append(made, r)
            BY <2>4, <4>2
          <6> HIDE DEF r
          <6> QED
            BY <2>2, <6>1, LastEdgesGrow
        <5>2. Projected(drop.graph, Edge(drop)) = LastEdges(c)'
          BY <2>1, <3>1, <3>2, <5>1, ProjectedIs
        <5> QED
          BY <4>2, <5>2
      <4> QED
        BY <1>7, <2>4, <4>1, <4>2, SettledIs
    <3>4. answers'[c] = <<LastEdges(c)'>>
      BY <3>2, <3>3 DEF DropsTyped
    <3>5. Len(answers'[c]) = 1 /\ answers'[c][1] = LastEdges(c)' /\ answers'[c] # <<>> /\ Waits(c)'
      BY <3>4 DEF Waits
    <3> QED
      BY <2>2, <3>2, <3>5 DEF PageInv
  <2> QED
    BY <2>3, <2>4
<1> QED
  BY <1>3, <1>4, <1>5, <1>6, <1>7 DEF DropsNext, HookActions

--------------------------------------------------------------------------------
\* Each drop is heard of, and the store misses what raised.
Missed == {i \in DOMAIN made : made[i].edge \notin store}
Serving == IF drop.at = "none" THEN 0 ELSE 1

LEMMA HeardStep == DropsTyped /\ AllAreHeard /\ DropsNext => AllAreHeard'
<1> SUFFICES ASSUME DropsTyped, AllAreHeard, DropsNext PROVE AllAreHeard'
  OBVIOUS
<1>0. Len(heard) = drops - Len(queue) - Serving /\ Cardinality(Missed) <= fails
  BY DEF AllAreHeard, Missed, Serving
<1>1. ASSUME Len(heard') = drops' - Len(queue') - Serving', Cardinality(Missed') <= fails' PROVE AllAreHeard'
  BY <1>1 DEF AllAreHeard, Missed, Serving
<1>2. IsFiniteSet(Missed) /\ Cardinality(Missed) \in Nat
  <2>1. made \in Seq(MadeDrops)
    BY DEF DropsTyped
  <2>2. Missed \subseteq 1 .. Len(made) /\ Len(made) \in Nat
    BY <2>1 DEF Missed
  <2>3. IsFiniteSet(1 .. Len(made))
    BY <2>2, FS_Interval
  <2> QED
    BY <2>2, <2>3, FS_Subset, FS_CardinalityType
<1>3. Len(heard) \in Nat /\ Len(queue) \in Nat /\ drops \in Nat /\ fails \in Nat /\ Serving \in {0, 1}
  BY DEF DropsTyped, Serving
<1>4. ASSUME made' = made, store' = store, fails' = fails PROVE Cardinality(Missed') <= fails'
  <2>1. Missed' = Missed
    BY <1>4 DEF Missed
  <2> QED
    BY <1>0, <1>4, <2>1
<1>5. CASE HookActions
  <2>1. UNCHANGED <<queue, store, heard, made, drops, fails>>
    BY <1>5, HookLeaves
  <2>2. Serving' = Serving
    BY <1>5, HookKeeps DEF Serving
  <2> QED
    BY <1>0, <1>1, <1>4, <2>1, <2>2
<1>6. ASSUME NEW c \in Pages, Send(c) PROVE AllAreHeard'
  <2>1. (\E d : queue' = Append(queue, d)) /\ drops' = drops + 1 /\ UNCHANGED <<drop, store, heard, made, fails>>
    BY <1>6 DEF Send
  <2>2. Len(queue') = Len(queue) + 1 /\ Serving' = Serving
    BY <2>1 DEF DropsTyped, Serving
  <2>3. Len(heard') = drops' - Len(queue') - Serving'
    BY <1>0, <1>3, <2>1, <2>2
  <2> QED
    BY <1>1, <1>4, <2>1, <2>3
<1>7. ASSUME NEW c \in Pages, Take(c) PROVE AllAreHeard'
  <2>1. UNCHANGED <<queue, drop, store, heard, made, drops, fails>>
    BY <1>7 DEF Take
  <2>2. Serving' = Serving
    BY <2>1 DEF Serving
  <2> QED
    BY <1>0, <1>1, <1>4, <2>1, <2>2
<1>8. CASE Serve
  <2>1. UNCHANGED <<store, made, drops, fails>>
    BY <1>8 DEF Serve
  <2>2. queue \in Seq(SentDrops) /\ queue # <<>> /\ queue' = Tail(queue)
    BY <1>8, ServedIs DEF DropsTyped
  <2>3. Len(queue') = Len(queue) - 1
    BY <2>2
  <2>4. \/ Serving = 0 /\ Serving' = 1 /\ heard' = heard
        \/ Serving = 0 /\ Serving' = 0 /\ heard' = Append(heard, "rejected")
    BY <1>8, ServedIs DEF Serving, NoDrop
  <2>5. heard' = Append(heard, "rejected") => Len(heard') = Len(heard) + 1
    BY DEF DropsTyped
  <2>6. Len(heard') = drops' - Len(queue') - Serving'
    BY <1>0, <1>3, <2>1, <2>3, <2>4, <2>5
  <2> QED
    BY <1>1, <1>4, <2>1, <2>6
<1>9. CASE Settle
  <2>1. UNCHANGED <<queue, drops>>
    BY <1>9 DEF Settle
  <2>2. Serving = 1 /\ Serving' = 0
    BY <1>9, SettledIs DEF Serving, NoDrop
  <2>3. \E h : heard' = Append(heard, h)
    BY <1>9, SettledIs
  <2>4. Len(heard') = Len(heard) + 1
    BY <2>3 DEF DropsTyped
  <2>5. Len(heard') = drops' - Len(queue') - Serving'
    BY <1>0, <1>3, <2>1, <2>2, <2>4
  <2>6. Cardinality(Missed') <= fails'
    <3> DEFINE n == Len(made) + 1
    <3>1. CASE UNCHANGED <<store, fails, made>>
      BY <1>4, <3>1
    <3>2. ASSUME NEW r, r.edge = Edge(drop), made' = Append(made, r),
                 \/ store' = store \cup {Edge(drop)} /\ fails' = fails
                 \/ fails' = fails + 1 /\ store' = store
          PROVE  Cardinality(Missed') <= fails'
      <4>1. made \in Seq(MadeDrops)
        BY DEF DropsTyped
      <4>2. /\ DOMAIN made' = DOMAIN made \cup {n} /\ made'[n] = r
            /\ \A i \in DOMAIN made : made'[i] = made[i]
        BY <3>2, <4>1
      <4>3. CASE store' = store \cup {Edge(drop)} /\ fails' = fails
        <5>1. Missed' \subseteq Missed
          BY <3>2, <4>2, <4>3 DEF Missed
        <5>2. Cardinality(Missed') <= Cardinality(Missed) /\ Cardinality(Missed') \in Nat
          BY <1>2, <5>1, FS_Subset, FS_CardinalityType
        <5> QED
          BY <1>0, <1>2, <1>3, <4>3, <5>2
      <4>4. CASE fails' = fails + 1 /\ store' = store
        <5>1. Missed' \subseteq Missed \cup {n}
          BY <3>2, <4>2, <4>4 DEF Missed
        <5>2. IsFiniteSet(Missed \cup {n}) /\ Cardinality(Missed \cup {n}) <= Cardinality(Missed) + 1
          <6> HIDE DEF n
          <6>1. /\ IsFiniteSet(Missed \cup {n})
                /\ Cardinality(Missed \cup {n}) = IF n \in Missed THEN Cardinality(Missed) ELSE Cardinality(Missed) + 1
            BY <1>2, FS_AddElement
          <6> QED
            BY <1>2, <6>1
        <5>3. Cardinality(Missed') <= Cardinality(Missed \cup {n}) /\ Cardinality(Missed') \in Nat
          BY <5>1, <5>2, FS_Subset, FS_CardinalityType
        <5>4. Cardinality(Missed \cup {n}) \in Nat
          BY <5>2, FS_CardinalityType
        <5> QED
          BY <1>0, <1>2, <1>3, <4>4, <5>2, <5>3, <5>4
      <4> QED
        BY <3>2, <4>3, <4>4
    <3> HIDE DEF n
    <3> QED
      BY <1>9, <3>1, <3>2, SettledIs
  <2> QED
    BY <1>1, <2>5, <2>6
<1> QED
  BY <1>5, <1>6, <1>7, <1>8, <1>9 DEF DropsNext, HookActions

--------------------------------------------------------------------------------
LEMMA DropsInvHolds == DropsSpec => []DropsInv
<1>1. DropsInit => DropsInv
  BY DropsInvInit
<1>2. DropsInv /\ [DropsNext]_dropsVars => DropsInv'
  <2> SUFFICES ASSUME DropsInv, [DropsNext]_dropsVars PROVE DropsInv'
    OBVIOUS
  <2>0. DropsTyped /\ HookInv /\ SeenInv /\ OnlyKnownJoin /\ GraphsInv /\ PagesInv /\ AllAreHeard
    BY DEF DropsInv
  <2>1. CASE DropsNext
    <3>1. HookActions \/ DropActions
      BY <2>1 DEF DropsNext, HookActions, DropActions
    <3>2. DropsTyped'
      BY <2>0, <3>1, HookTyped, DropTyped
    <3>3. HookInv'
      <4>1. CASE HookActions
        BY <2>0, <4>1, HookStep
      <4>2. CASE DropActions
        BY <2>0, <4>2, DropsLeave DEF HookInv, FreshKinds, Discovered
      <4> QED
        BY <3>1, <4>1, <4>2
    <3> QED
      BY <2>0, <2>1, <3>2, <3>3, SeenStep, JoinStep, GraphsStep, PagesStep, HeardStep DEF DropsInv
  <2>2. CASE UNCHANGED dropsVars
    <3> USE <2>2 DEF dropsVars
    <3>1. DropsTyped'
      BY <2>0 DEF DropsTyped
    <3>2. HookInv'
      BY <2>0 DEF HookInv, FreshKinds, Discovered
    <3>3. SeenInv' /\ OnlyKnownJoin'
      BY <2>0 DEF SeenInv, OnlyKnownJoin
    <3>4. GraphsInv'
      BY <2>0 DEF GraphsInv
    <3>5. PagesInv'
      BY <2>0 DEF PagesInv, PageInv, Waits, LastEdges, MadeBy, InQueue, IsServed
    <3>6. AllAreHeard'
      BY <2>0 DEF AllAreHeard
    <3> QED
      BY <3>1, <3>2, <3>3, <3>4, <3>5, <3>6 DEF DropsInv
  <2> QED
    BY <2>1, <2>2
<1> QED
  BY <1>1, <1>2, PTL DEF DropsSpec

\* Drops are exact (drag_drop_dispatcher.py, registry.py): every graph has one relation
\* for a pair, a page that waits for its answers has the relations of its last drops,
\* what is joined was registered and near, every drop is heard of once, and a registry
\* that no save crossed is that of the files.
THEOREM DropsExact == DropsSpec => []DropsAreExact
<1>1. DropsInv => DropsAreExact
  <2> SUFFICES ASSUME DropsInv PROVE DropsAreExact
    OBVIOUS
  <2> USE DEF DropsInv
  <2>1. DropsTypeOK
    <3>1. \A c \in Pages : graph[c] \subseteq Edges /\ answers[c] \in Seq(SUBSET Edges)
      BY DEF DropsTyped
    <3>2. \A i \in DOMAIN heard : heard[i] \in {"add", "replace", "rejected"}
      BY DEF DropsTyped
    <3>3. DOMAIN registry \subseteq Kinds \cup DOMAIN Virtual /\ errors \subseteq Kinds \cup DOMAIN Virtual /\ store \subseteq Edges
      BY DEF DropsTyped, AllKinds
    <3> QED
      BY <3>1, <3>2, <3>3 DEF DropsTypeOK
  <2>2. RebuiltFromDisk
    <3> SUFFICES ASSUME hook.at = "idle", ~hook.moved
                 PROVE  /\ registry = Bindings(FreshKinds) /\ errors = DOMAIN FreshKinds \ DOMAIN registry
                        /\ \A k \in DOMAIN Discovered(disk) :
                              k \in DOMAIN registry => registry[k].source = "native"
      BY DEF RebuiltFromDisk
    <3>1. registry = Bindings(FreshKinds) /\ errors = Refused(FreshKinds)
      BY DEF HookInv
    <3>2. DOMAIN registry = Valid(FreshKinds) /\ \A k \in DOMAIN registry : registry[k] = FreshKinds[k]
      BY <3>1 DEF Bindings
    <3>3. errors = DOMAIN FreshKinds \ DOMAIN registry
      BY <3>1, <3>2 DEF Refused
    <3>4. \A k \in DOMAIN Discovered(disk) : FreshKinds[k] = Discovered(disk)[k]
      BY DEF FreshKinds, Merged
    <3>5. \A k \in DOMAIN Discovered(disk) : Discovered(disk)[k].source = "native"
      BY DEF Discovered, Native
    <3> QED
      BY <3>1, <3>2, <3>3, <3>4, <3>5
  <2>3. OneRelation
    BY DEF GraphsInv, OneRelationIn, OneRelation
  <2>4. LastDropStands
    BY DEF PagesInv, PageInv, LastDropStands
  <2> QED
    BY <2>1, <2>2, <2>3, <2>4 DEF DropsAreExact
<1> QED
  BY <1>1, DropsInvHolds, PTL
=============================================================================
