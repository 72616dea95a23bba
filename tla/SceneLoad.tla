------------------------------- MODULE SceneLoad -------------------------------
(***************************************************************************)
(* The scene of the Python engine: load_scene, spawn and precompute of     *)
(* engine/core.py, run by the watcher thread of engine/scene_watcher.py    *)
(* when the scene's file changes, and by the tabs of the interface through *)
(* the scene loader node (node_types/scene_loader.py), whose answer they   *)
(* read from the view state that engine/actions.py shares among them.      *)
(***************************************************************************)
EXTENDS Naturals, FiniteSets, FiniteSetsExt

CONSTANTS
    Instances, \* numbers: the order of the nodes in a file
    Loader,    \* the node scene_loader_main
    Tabs,      \* threads of the interface
    Watcher,   \* the thread of the SceneWatcher
    MaxSceneSaves, \* bound: saves of the file in a behaviour
    MaxDeaths, \* bound: failures of emit in a behaviour
    MaxCommands  \* bound: commands of each tab

ASSUME SceneLoadAssumption ==
    /\ IsFiniteSet(Instances) /\ Instances \subseteq Nat
    /\ Watcher \notin Tabs
    /\ {MaxSceneSaves, MaxDeaths, MaxCommands} \subseteq Nat /\ MaxSceneSaves # 0

VARIABLES
    disk,     \* the scene file: whether it parses, its nodes, its time
    nodes,    \* Engine.nodes: the version each was spawned from, and dead
    cache,    \* Engine.cache: the version precompute last saw of each node
    seen,     \* the watcher's _mtimes
    load,     \* the load each thread is in
    view,     \* the loader's view state: current_scene set, last result
    answers,  \* history: what each tab was told last, and what its load did
    missed,   \* history: versions the watcher gave up, and why
    deaths, commands

sceneVars == <<disk, nodes, cache, seen, load, view, answers, missed, deaths, commands>>

Threads == Tabs \cup {Watcher}
Absent  == [at |-> 0, dead |-> FALSE]
Idle    == [pc |-> "idle", text |-> [whole |-> FALSE, nodes |-> {}, at |-> 0],
            todo |-> {}, size |-> 0, ok |-> FALSE, alone |-> TRUE]
Spawned   == {n \in Instances : nodes[n].at # 0}
Live(n) == n \in Spawned /\ ~nodes[n].dead
SceneText(whole, ns, at) == [whole |-> whole, nodes |-> ns, at |-> at]

\* The process has loaded the scene it starts with, if it could.
SceneInit ==
    /\ \E ns \in SUBSET Instances : disk \in {SceneText(TRUE, ns, 1), SceneText(FALSE, {}, 1)}
    /\ nodes = [n \in Instances |-> IF n \in disk.nodes THEN [Absent EXCEPT !.at = 1] ELSE Absent]
    /\ cache = [n \in Instances |-> nodes[n].at]
    /\ seen = 1
    /\ load = [t \in Threads |-> Idle]
    /\ view = [current |-> FALSE, ok |-> FALSE]
    /\ answers = [t \in Tabs |-> [said |-> FALSE, did |-> FALSE, alone |-> TRUE]]
    /\ missed = {}
    /\ deaths = 0 /\ commands = [t \in Tabs |-> 0]

\* An editor saves the file, perhaps in two passes.
SaveScene(ns, whole) ==
    /\ disk.at < MaxSceneSaves
    /\ disk' = SceneText(whole, IF whole THEN ns ELSE {}, disk.at + 1)
    /\ UNCHANGED <<nodes, cache, seen, load, view, answers, missed, deaths, commands>>

--------------------------------------------------------------------------------
\* Who loads, and when

\* A load begins; two of them at once spoil each other's claims.
Begin(t, pc) ==
    load' = [u \in Threads |->
               IF u = t THEN [Idle EXCEPT !.pc = pc,
                                !.alone = pc = "read" /\ \A v \in Threads \ {t} : load[v].pc = "idle"]
               ELSE [load[u] EXCEPT !.alone = FALSE]]

\* poll_once: the time is recorded, then the file is loaded if it is the
\* current scene; until a tab has loaded one, no scene is.
Poll ==
    /\ load[Watcher].pc = "idle" /\ disk.at > seen
    /\ seen' = disk.at
    /\ IF view.current
       THEN Begin(Watcher, "read") /\ UNCHANGED missed
       ELSE missed' = missed \cup {[at |-> disk.at, why |-> "no current scene"]} /\ UNCHANGED load
    /\ UNCHANGED <<disk, nodes, cache, view, answers, deaths, commands>>

\* scene.load and scene.reload dispatch to the loader node; if that cannot be,
\* the command goes on to read its answer all the same.
Command(t) ==
    /\ load[t].pc = "idle"
    /\ commands[t] < MaxCommands
    /\ commands' = [commands EXCEPT ![t] = @ + 1]
    /\ Begin(t, IF Live(Loader) THEN "read" ELSE "answer")
    /\ UNCHANGED <<disk, nodes, cache, seen, view, answers, missed, deaths>>

--------------------------------------------------------------------------------
\* Engine: load_scene, spawn, precompute

\* A load ends; the watcher's says no more than that, a tab's has a result.
Ends(t, ok) ==
    /\ load' = [load EXCEPT ![t] = IF t = Watcher THEN Idle ELSE [@ EXCEPT !.pc = "view", !.ok = ok]]
    /\ missed' = IF t = Watcher /\ ~ok
                 THEN missed \cup {[at |-> load[t].text.at, why |-> "raised"]} ELSE missed

\* A text that does not parse raises before any node is spawned.
Read(t) ==
    /\ load[t].pc = "read"
    /\ IF disk.whole
       THEN /\ load' = [load EXCEPT ![t].pc = "spawn", ![t].text = disk, ![t].todo = disk.nodes]
            /\ UNCHANGED missed
       ELSE Ends(t, FALSE)
    /\ UNCHANGED <<disk, nodes, cache, seen, view, answers, deaths, commands>>

\* The nodes are spawned one by one, over those of the same id; none is removed.
Spawn(t) ==
    LET n == Min(load[t].todo) IN
    /\ load[t].pc = "spawn" /\ load[t].todo # {}
    /\ nodes' = [nodes EXCEPT ![n] = [at |-> load[t].text.at, dead |-> FALSE]]
    /\ load' = [load EXCEPT ![t].todo = @ \ {n}]
    /\ missed' = IF nodes[n].at > load[t].text.at
                 THEN missed \cup {[at |-> nodes[n].at, why |-> "overwritten"]} ELSE missed
    /\ UNCHANGED <<disk, cache, seen, view, answers, deaths, commands>>

\* precompute goes through the live dict of nodes.
Precompute(t) ==
    /\ load[t].pc = "spawn" /\ load[t].todo = {}
    /\ load' = [load EXCEPT ![t].pc = "hook", ![t].todo = Spawned, ![t].size = Cardinality(Spawned)]
    /\ UNCHANGED <<disk, nodes, cache, seen, view, answers, missed, deaths, commands>>

Grown(t) == Cardinality(Spawned) # load[t].size

\* Mutant: the hook of the first node ends the pass.
HookOnce(t) ==
    LET n == Min(load[t].todo) IN
    /\ load[t].pc = "hook" /\ load[t].todo # {} /\ ~Grown(t)
    /\ cache' = IF nodes[n].dead THEN cache ELSE [cache EXCEPT ![n] = nodes[n].at]
    /\ load' = [load EXCEPT ![t].todo = {}]
    /\ UNCHANGED <<disk, nodes, seen, view, answers, missed, deaths, commands>>

Hook(t) ==
    LET n == Min(load[t].todo) IN
    /\ load[t].pc = "hook" /\ load[t].todo # {} /\ ~Grown(t)
    /\ cache' = IF nodes[n].dead THEN cache ELSE [cache EXCEPT ![n] = nodes[n].at]
    /\ load' = [load EXCEPT ![t].todo = @ \ {n}]
    /\ UNCHANGED <<disk, nodes, seen, view, answers, missed, deaths, commands>>

\* A node another thread has added meanwhile makes the iteration raise.
HooksEnd(t) ==
    /\ load[t].pc = "hook" /\ (Grown(t) \/ load[t].todo = {})
    /\ Ends(t, ~Grown(t))
    /\ UNCHANGED <<disk, nodes, cache, seen, view, answers, deaths, commands>>

--------------------------------------------------------------------------------
\* The answer of a command

\* dispatch_action merges the result into the loader's view state.
Merge(t) ==
    /\ load[t].pc = "view"
    /\ view' = [current |-> view.current \/ load[t].ok, ok |-> load[t].ok]
    /\ load' = [load EXCEPT ![t].pc = "answer"]
    /\ UNCHANGED <<disk, nodes, cache, seen, answers, missed, deaths, commands>>

\* The command takes its result from the view state, whoever left it there.
Answer(t) ==
    /\ load[t].pc = "answer"
    /\ answers' = [answers EXCEPT ![t] = [said |-> view.ok, did |-> load[t].ok, alone |-> load[t].alone]]
    /\ load' = [load EXCEPT ![t] = Idle]
    /\ UNCHANGED <<disk, nodes, cache, seen, view, missed, deaths, commands>>

--------------------------------------------------------------------------------
\* _emit_node marks a node whose emit raised; restore clears the mark.
EmitFails(n) ==
    /\ Live(n) /\ deaths < MaxDeaths
    /\ deaths' = deaths + 1
    /\ nodes' = [nodes EXCEPT ![n].dead = TRUE]
    /\ UNCHANGED <<disk, cache, seen, load, view, answers, missed, commands>>

Restore(n) ==
    /\ n \in Spawned /\ nodes[n].dead
    /\ nodes' = [nodes EXCEPT ![n].dead = FALSE]
    /\ UNCHANGED <<disk, cache, seen, load, view, answers, missed, deaths, commands>>

Step(t) == Read(t) \/ Spawn(t) \/ Precompute(t) \/ Hook(t) \/ HooksEnd(t)

SceneNext ==
    \/ \E ns \in SUBSET Instances, whole \in BOOLEAN : SaveScene(ns, whole)
    \/ Poll
    \/ \E t \in Threads : Step(t)
    \/ \E t \in Tabs : Command(t) \/ Merge(t) \/ Answer(t)
    \/ \E n \in Instances : EmitFails(n) \/ Restore(n)

\* The threads of the process run.
SceneFairness ==
    /\ WF_sceneVars(Poll)
    /\ \A t \in Threads : WF_sceneVars(Step(t))
    /\ \A t \in Tabs : WF_sceneVars(Merge(t) \/ Answer(t))

SceneSpec == SceneInit /\ [][SceneNext]_sceneVars /\ SceneFairness

--------------------------------------------------------------------------------
\* The state is what the code makes of it; no version is seen before it is saved.
SceneTypeOK ==
    /\ disk.at \in 1 .. MaxSceneSaves /\ seen \in 1 .. disk.at
    /\ \A n \in Instances : nodes[n].at \in 0 .. disk.at /\ cache[n] \in 0 .. disk.at
    /\ \A t \in Threads : load[t].todo \subseteq Instances /\ load[t].text.at <= disk.at

Quiet == \A t \in Threads : load[t].pc = "idle"

\* A load that had the engine to itself leaves each live node of its file as the
\* file has it, and precomputed from that.
LoadedExactly ==
    [][\A t \in Threads :
          load[t].pc = "hook" /\ load'[t].pc # "hook" /\ load[t].alone =>
             \A n \in load[t].text.nodes :
                nodes[n].at = load[t].text.at /\ (cache[n] = nodes[n].at \/ deaths > 0)]_sceneVars

\* A tab is told what became of its own load, if nothing else was loading and
\* the loader node took the command (commands.py _scene_load).
AnswerIsOwn ==
    \A t \in Tabs : answers[t].alone => answers[t].said = answers[t].did

\* A whole scene that is saved and left alone is in the engine in the end, unless
\* the watcher gave that version up, or another thread loaded an older text over it.
SavedSceneLoads ==
    <>[](disk.whole /\ disk.at > 1 =>
           \/ \A n \in disk.nodes : nodes[n].at = disk.at
           \/ \E w \in missed : w.at = disk.at)

\* scene_watcher.py:23: "the next poll re-fires and succeeds once the file is whole".
NextPollRetries == <>[](disk.whole /\ view.current => \A n \in disk.nodes : nodes[n].at = disk.at)

\* A load with the engine to itself leaves what its file says, its tab is told what
\* it did, and a scene that is saved and left alone is in the engine in the end.
LoadsAreExact ==
    /\ [](SceneTypeOK /\ AnswerIsOwn)
    /\ LoadedExactly
    /\ SavedSceneLoads
=============================================================================
