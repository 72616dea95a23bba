------------------------------- MODULE HotReload -------------------------------
(***************************************************************************)
(* The running game and the file it watches (runtime/live_host.gd): the    *)
(* writers that share live/arrangement.json, each with its own way of      *)
(* putting a version there, and the poll that hotloads what it finds into  *)
(* the GraphRuntime, whose reload is a diff against the running nodes      *)
(* (runtime/graph_runtime.gd).                                             *)
(*                                                                         *)
(* What the writers write is any of a set of arrangements; that a commit   *)
(* of the store replaces the file in one step is what GraphStore shows.    *)
(* A node's kind is its type and its params.                               *)
(*                                                                         *)
(* The writers are taken to be other processes than the game: a panel or a *)
(* channel in the game itself runs between two of its polls, which is some *)
(* of the behaviours here.                                                 *)
(***************************************************************************)
EXTENDS FileContent

CONSTANTS
    Versions,      \* the arrangements the writers put on disk
    InitArr,       \* the arrangement the game starts with
    Registered,    \* the node types the runtime has a primitive for
    MaxEdits       \* bound: versions written in a behaviour

VARIABLES
    file,       \* arrangement.json
    panel,      \* the text the editor panel is writing in place, or Absent
    ontoFile,   \* the panel's descriptor is on the file the path names
    channel,    \* the text the external bridge channel is saving, or Absent
    removed,    \* the channel is past the removal of the old file
    edits,
    checked,    \* the poll has seen that the file exists and will read it
    lastText,   \* the text whose hash the last poll kept
    running,    \* GraphRuntime.arrangement
    nodes,      \* GraphRuntime.nodes: its live instances
    loads,      \* reloads so far: an instance is known by the one that made it
    hostRev     \* LiveHost.rev

diskVars == <<file, panel, ontoFile, channel, removed, edits>>
hostVars == <<checked, lastText, running, nodes, loads, hostRev>>
vars == <<diskVars, hostVars>>

Init ==
    /\ file = Whole(InitArr, 1)
    /\ panel = Absent /\ ontoFile = FALSE
    /\ channel = Absent /\ removed = FALSE
    /\ edits = 0
    /\ checked = FALSE
    /\ lastText = Absent
    /\ running = EmptyArr
    /\ nodes = [id \in {} |-> EmptyArr]
    /\ loads = 0
    /\ hostRev = 0

-----------------------------------------------------------------------------
(***************************************************************************)
(* The writers.  Whatever gives the path another file leaves the panel's   *)
(* descriptor on one without a name.                                       *)
(***************************************************************************)

Edit ==
    /\ edits < MaxEdits
    /\ edits' = edits + 1
    /\ UNCHANGED hostVars

Publish(text) == file' = text /\ ontoFile' = FALSE

\* commit_actions, graph_commit: a replace, under the next revision.
StoreCommits(arr) ==
    /\ Edit
    /\ Publish(Whole(arr, file.rev + 1))
    /\ UNCHANGED <<panel, channel, removed>>

\* scene_bridge writes what it is sent, an arrangement or some other JSON.
SceneLoads(arr) ==
    /\ Edit
    /\ Publish(Whole(arr, 0)) \/ Publish(Unreadable("list"))
    /\ UNCHANGED <<panel, channel, removed>>

\* The panel truncates the file and writes the document it has, which carries
\* the revision of the version it was opened on: one written by now.
PanelOpens(arr) ==
    /\ Edit
    /\ panel = Absent
    /\ \E rev \in 0 .. edits + 1 : panel' = Whole(arr, rev)
    /\ file' = Created /\ ontoFile' = TRUE
    /\ UNCHANGED <<channel, removed>>

PanelFlushes ==
    /\ panel # Absent /\ ontoFile /\ file = Created
    /\ file' = Torn
    /\ UNCHANGED <<panel, ontoFile, channel, removed, edits, hostVars>>

PanelCloses ==
    /\ panel # Absent
    /\ file' = IF ontoFile THEN panel ELSE file
    /\ panel' = Absent /\ ontoFile' = FALSE
    /\ UNCHANGED <<channel, removed, edits, hostVars>>

\* The channel changes what it loaded, revision included, writes it beside the
\* file, removes the file, and renames.
ChannelLoads(arr) ==
    /\ Edit
    /\ channel = Absent
    /\ channel' = Whole(arr, file.rev)
    /\ UNCHANGED <<file, panel, ontoFile, removed>>

ChannelRemoves ==
    /\ channel # Absent /\ ~removed
    /\ removed' = TRUE
    /\ Publish(Absent)
    /\ UNCHANGED <<panel, channel, edits, hostVars>>

ChannelRenames ==
    /\ removed
    /\ Publish(channel)
    /\ channel' = Absent /\ removed' = FALSE
    /\ UNCHANGED <<panel, edits, hostVars>>

-----------------------------------------------------------------------------
(***************************************************************************)
(* LiveHost.poll_once, called on the game's frames.                        *)
(***************************************************************************)

PollExists ==
    /\ ~checked
    /\ file # Absent
    /\ checked' = TRUE
    /\ UNCHANGED <<diskVars, lastText, running, nodes, loads, hostRev>>

\* The specs by id: of two nodes with one id the runtime takes one.
Specs(arr) ==
    {spec \in [NodeIds(arr) -> {n.kind : n \in arr.nodes}] :
        \A id \in NodeIds(arr) : [id |-> id, kind |-> spec[id]] \in arr.nodes}

\* Mutant: an instance is kept for its id alone.
KeptById(spec) == DOMAIN nodes \cap DOMAIN spec

Kept(spec) == {id \in DOMAIN nodes \cap DOMAIN spec : spec[id].type = nodes[id].kind.type}

Instance(id, spec) ==
    [kind |-> spec[id], made |-> IF id \in Kept(spec) THEN nodes[id].made ELSE loads']

\* Unchanged primitives are kept and given their params, the others replaced; a
\* type the runtime does not know is left out.
LoadArrangement(arr) ==
    /\ loads' = loads + 1
    /\ \E spec \in Specs(arr) :
          nodes' = [id \in Kept(spec) \cup {i \in DOMAIN spec : spec[i].type \in Registered}
                        |-> Instance(id, spec)]
    /\ running' = arr

ReadText == IF file = Absent THEN Created ELSE file

\* Mutant: a text that does not parse is an empty arrangement.
PollReadLenient ==
    /\ checked
    /\ checked' = FALSE
    /\ IF ReadText = lastText THEN UNCHANGED <<lastText, running, nodes, loads, hostRev>>
       ELSE /\ lastText' = ReadText
            /\ LoadArrangement(ReadText.arr)
            /\ hostRev' = ReadText.rev
    /\ UNCHANGED diskVars

\* Mutant: a change is a change of the revision.
PollReadRev ==
    /\ checked
    /\ checked' = FALSE
    /\ IF ReadText.rev = lastText.rev THEN UNCHANGED <<lastText, running, nodes, loads, hostRev>>
       ELSE /\ lastText' = ReadText
            /\ IF ReadText.state = "whole"
               THEN LoadArrangement(ReadText.arr) /\ hostRev' = ReadText.rev
               ELSE UNCHANGED <<running, nodes, loads, hostRev>>
    /\ UNCHANGED diskVars

\* Equal texts are equal hashes.  The file may have gone since it was seen to
\* exist: it then reads as an empty text.
PollRead ==
    /\ checked
    /\ checked' = FALSE
    /\ IF ReadText = lastText THEN UNCHANGED <<lastText, running, nodes, loads, hostRev>>
       ELSE /\ lastText' = ReadText
            /\ IF ReadText.state = "whole"
               THEN LoadArrangement(ReadText.arr) /\ hostRev' = ReadText.rev
               ELSE UNCHANGED <<running, nodes, loads, hostRev>>
    /\ UNCHANGED diskVars

Poll == PollExists \/ PollRead

Write ==
    \/ \E arr \in Versions :
          StoreCommits(arr) \/ SceneLoads(arr) \/ PanelOpens(arr) \/ ChannelLoads(arr)
    \/ PanelFlushes \/ PanelCloses \/ ChannelRemoves \/ ChannelRenames

Next == Write \/ Poll

\* The game's frames keep calling the poll; nothing makes a writer go on.
Spec == Init /\ [][Next]_vars /\ WF_vars(Poll)

-----------------------------------------------------------------------------

TypeOK ==
    /\ IsFile(lastText) \/ lastText = Unreadable("list")
    /\ IsFile(panel) /\ IsFile(channel)
    /\ ontoFile => panel # Absent /\ file \in {Created, Torn}
    /\ \A id \in DOMAIN nodes : nodes[id].made \in 1 .. loads
    /\ removed => channel # Absent
    /\ edits \in 0 .. MaxEdits

(***************************************************************************)
(* The running graph is the arrangement loaded last, through any sequence  *)
(* of additions, removals and changes of type and params: every instance   *)
(* is of a known type and has the type and params of its node, and a node  *)
(* has no instance only if its id names one of a type nobody knows.        *)
(***************************************************************************)
RunsWhatItLoaded ==
    /\ \A id \in DOMAIN nodes :
          /\ nodes[id].kind.type \in Registered
          /\ [id |-> id, kind |-> nodes[id].kind] \in running.nodes
    /\ \A n \in running.nodes : n.id \notin DOMAIN nodes =>
          \E m \in running.nodes : m.id = n.id /\ m.kind.type \notin Registered

GivenUp(id) == IF id \in DOMAIN nodes' THEN nodes'[id].made # nodes[id].made ELSE TRUE

(***************************************************************************)
(* A live instance, and whatever it holds, is given up only because a      *)
(* whole arrangement on disk has no node of its id, or one of another      *)
(* type: never for an empty, half-written, missing or foreign text the     *)
(* poll happened on ("stable across hotloads so instances are preserved",  *)
(* the schema of a node's id).                                             *)
(***************************************************************************)
InstancesSurvive ==
    [][\A id \in DOMAIN nodes : GivenUp(id) =>
          /\ file.state = "whole"
          /\ id \in NodeIds(file.arr) =>
                \E n \in file.arr.nodes : n.id = id /\ n.kind.type # nodes[id].kind.type]_vars

(***************************************************************************)
(* What stays on disk comes to run: once the file is whole for good, the   *)
(* game has loaded it again and again, whatever the poll found before,     *)
(* also when the writer left the revision as it was.                       *)
(***************************************************************************)
Converges ==
    <>[](file.state = "whole") => []<>(running = file.arr /\ hostRev = file.rev)

(***************************************************************************)
(* What the documentation says of the file and its revision.               *)
(***************************************************************************)

\* The revision a consumer of `reloaded' reads only grows ("The monotonic
\* revision of the arrangement last loaded", LiveHost.rev).
HostRevMonotone == [][hostRev' >= hostRev]_vars

\* A commit never finds the path without a file while the channel saves ("the
\* whole arrangement re-written atomically", _bridge_send): it would take the
\* graph for an empty one and publish its batch as all there is.
CommitsFindTheGraph ==
    [][\A arr \in Versions : StoreCommits(arr) => file # Absent]_vars
=============================================================================
