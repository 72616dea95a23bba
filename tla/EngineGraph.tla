----------------------------- MODULE EngineGraph -----------------------------
(***************************************************************************)
(* The node graph of the Python engine and what edits it while it runs:    *)
(* the scene mutator (spawn, set_param, connect, disconnect), archive and  *)
(* restore, the module clipboard (copy a node and what it is connected to  *)
(* as text, paste the text under new names), and the inverse pass (an edit *)
(* of generated content is turned into an edit of the generator's seed).   *)
(*                                                                         *)
(* A node is built from its params once: the state it then runs with and   *)
(* the params that are copied and saved part ways when either is changed.  *)
(* Of a seed's parameters one value is kept, and a generator's content is  *)
(* the value of the seed it read.                                          *)
(***************************************************************************)
EXTENDS Integers, Sequences, FiniteSets, SequencesExt, Functions

CONSTANTS
    Names,     \* the ids people choose; a renamed id is its name and suffixes
    Slots,     \* the connection slots, in their order; "seed" is one of them
    Values,    \* the values of a parameter
    Snippets,  \* module texts that come from outside the program
    MaxNodes,  \* bound: nodes in the engine
    MaxOps     \* bound: operations

VARIABLES
    nodes,    \* engine.nodes
    cache,    \* engine.cache of the generators
    clip,     \* the text on the clipboard, parsed
    pasted,   \* the ids the last paste returned
    touched,  \* generators whose wiring, or whose seed's life, has changed since
              \* their content was computed, or whose seed another one has edited
    edited,   \* the node the last inverse edit was made on
    ops       \* operations so far

vars == <<nodes, cache, clip, pasted, touched, edited, ops>>

None == << >>
Null == "null"   \* no value
Types == {"Seed", "Generator", "Ghost"}   \* nothing declares the type "Ghost"
SlotNames == Range(Slots)
Unwired == [s \in SlotNames |-> None]

Ids == DOMAIN nodes
Generators == {g \in Ids : nodes[g].type = "Generator"}

Built(type, value, conns) ==
    [type |-> type, param |-> value, state |-> value,
     dead |-> type = "Ghost", conns |-> conns]

\* What _read_seed_state finds for a generator.
SeedOf(ns, g) ==
    LET s == ns[g].conns["seed"]
    IN  IF s \in DOMAIN ns /\ ~ns[s].dead THEN s ELSE None

Content(ns, g) == IF SeedOf(ns, g) = None THEN Null ELSE ns[SeedOf(ns, g)].state

\* precompute runs the hook of every generator that is not archived.
Precomputed(ns) ==
    [g \in DOMAIN ns |->
        IF ns[g].type = "Generator" /\ ~ns[g].dead THEN Content(ns, g)
        ELSE IF g \in DOMAIN cache THEN cache[g] ELSE Null]

\* The generators a change of the life of node id may concern.
Wired(ns, id) == {g \in DOMAIN ns : id \in {g, ns[g].conns["seed"]}}

Counted == ops < MaxOps /\ ops' = ops + 1

Init ==
    /\ nodes = << >> /\ cache = << >>
    /\ clip = << >> /\ pasted = << >>
    /\ touched = {} /\ edited = None /\ ops = 0

-----------------------------------------------------------------------------
(* The scene mutator and the engine's own operations.                      *)

\* The id must be free.
Spawn(id, type, conns) ==
    /\ Counted
    /\ id \notin Ids /\ Cardinality(Ids) < MaxNodes
    /\ \E v \in Values :
        nodes' = [i \in Ids \cup {id} |-> IF i = id THEN Built(type, v, conns) ELSE nodes[i]]
    /\ cache' = [i \in Ids \cup {id} |-> IF i = id THEN Null ELSE cache[i]]
    /\ touched' = touched \cup Wired(nodes', id)
    /\ UNCHANGED <<clip, pasted, edited>>

\* The node is not built again.
SetParam(id, v) ==
    /\ Counted
    /\ nodes' = [nodes EXCEPT ![id].param = v]
    /\ UNCHANGED <<cache, clip, pasted, touched, edited>>

\* The target need not exist.
Connect(id, slot, to) ==
    /\ Counted
    /\ nodes' = [nodes EXCEPT ![id].conns[slot] = to]
    /\ touched' = IF slot = "seed" THEN touched \cup {id} ELSE touched
    /\ UNCHANGED <<cache, clip, pasted, edited>>

Disconnect(id, slot) ==
    /\ Counted
    /\ nodes[id].conns[slot] # None
    /\ nodes' = [nodes EXCEPT ![id].conns[slot] = None]
    /\ touched' = IF slot = "seed" THEN touched \cup {id} ELSE touched
    /\ UNCHANGED <<cache, clip, pasted, edited>>

Archive(id) ==
    /\ Counted
    /\ nodes' = [nodes EXCEPT ![id].dead = TRUE]
    /\ touched' = touched \cup Wired(nodes, id)
    /\ UNCHANGED <<cache, clip, pasted, edited>>

Restore(id) ==
    /\ Counted
    /\ nodes' = [nodes EXCEPT ![id].dead = FALSE]
    /\ touched' = touched \cup Wired(nodes, id)
    /\ UNCHANGED <<cache, clip, pasted, edited>>

Precompute ==
    /\ Counted
    /\ cache' = Precomputed(nodes)
    /\ touched' = {g \in touched : nodes[g].dead}
    /\ UNCHANGED <<nodes, clip, pasted, edited>>

-----------------------------------------------------------------------------
(* The clipboard.                                                          *)

Targets(id) ==
    SelectSeq([k \in DOMAIN Slots |-> nodes[id].conns[Slots[k]]], LAMBDA t : t # None)

\* The nodes reached from a root, each when it is first met, depth first.
Reached(root) ==
    LET visit[k \in Nat] ==
            IF k = 0 THEN [todo |-> <<root>>, seen |-> << >>]
            ELSE LET at == visit[k - 1]
                     id == Head(at.todo)
                     rest == Tail(at.todo)
                 IN  IF at.todo = << >> THEN at
                     ELSE IF id \in Range(at.seen) \/ id \notin Ids
                     THEN [at EXCEPT !.todo = rest]
                     ELSE [todo |-> Targets(id) \o rest, seen |-> Append(at.seen, id)]
    IN  visit[1 + Cardinality(Ids) * Len(Slots)].seen

\* The text holds params, not the state the node runs with.
Entry(id) == [id |-> id, type |-> nodes[id].type, param |-> nodes[id].param,
              conns |-> nodes[id].conns]

Copy(root) ==
    /\ Counted
    /\ clip' = [i \in DOMAIN Reached(root) |-> Entry(Reached(root)[i])]
    /\ UNCHANGED <<nodes, cache, pasted, touched, edited>>

CopyOutside(snippet) ==
    /\ Counted
    /\ clip' = snippet
    /\ UNCHANGED <<nodes, cache, pasted, touched, edited>>

\* The id itself, or with the smallest suffix from 2 up that is free.
FreeId(id, used) ==
    IF id \notin used THEN id
    ELSE Append(id, CHOOSE n \in 2 .. Cardinality(used) + 2 :
                        /\ Append(id, n) \notin used
                        /\ \A m \in 2 .. n - 1 : Append(id, m) \in used)

\* Mutant: an id planned for an earlier entry is not counted as used.
PlannedFromEngine ==
    FoldLeft(LAMBDA ids, e : Append(ids, FreeId(e.id, Ids)), << >>, clip)

\* The ids the entries get, in their order.
Planned ==
    FoldLeft(LAMBDA ids, e : Append(ids, FreeId(e.id, Ids \cup Range(ids))), << >>, clip)

FirstEntry(id) ==
    CHOOSE i \in DOMAIN clip : clip[i].id = id /\ \A j \in 1 .. i - 1 : clip[j].id # id

\* A link to an entry of the text follows it; any other is kept.
Rewritten(t, plan) ==
    IF \E i \in DOMAIN clip : clip[i].id = t THEN plan[FirstEntry(t)] ELSE t

\* Entries are spawned one by one over whatever has their id; then the shell
\* precomputes.
Paste ==
    /\ Counted
    /\ clip # << >>
    /\ LET plan == Planned
           At(id) == CHOOSE i \in DOMAIN plan :
                        plan[i] = id /\ \A j \in DOMAIN plan : plan[j] = id => j <= i
           New(e) == Built(e.type, e.param,
                           [s \in SlotNames |-> IF e.conns[s] = None THEN None
                                                ELSE Rewritten(e.conns[s], plan)])
       IN  /\ Cardinality(Ids \cup Range(plan)) <= MaxNodes
           /\ pasted' = plan
           /\ nodes' = [i \in Ids \cup Range(plan) |->
                            IF i \in Range(plan) THEN New(clip[At(i)]) ELSE nodes[i]]
    /\ cache' = Precomputed(nodes')
    /\ touched' = {g \in touched : nodes'[g].dead}
    /\ UNCHANGED <<clip, edited>>

-----------------------------------------------------------------------------
(* The inverse pass.                                                       *)

\* The distance upwards, along connections, from an edited node.
Parents(ids) == {p \in Ids : \E s \in SlotNames : nodes[p].conns[s] \in ids}

Above(id, k) ==
    LET up[n \in Nat] == IF n = 0 THEN {id} ELSE up[n - 1] \cup Parents(up[n - 1])
    IN  up[k]

\* The generators nearest to a node; the order of the dictionary decides among
\* those at one distance.  An archived one counts.
Nearest(id) ==
    LET hit == {k \in 0 .. Cardinality(Ids) : Generators \cap Above(id, k) # {}}
    IN  IF hit = {} THEN {}
        ELSE Generators \cap Above(id, CHOOSE k \in hit : \A j \in hit : k <= j)

\* The state of the seed takes the value, its params do not; the generator asked
\* computes its content again, others of the same seed do not.
Edit(id, v) ==
    /\ Counted
    /\ edited' = id
    /\ \E g \in Nearest(id) :
        /\ SeedOf(nodes, g) # None
        /\ nodes' = [nodes EXCEPT ![SeedOf(nodes, g)].state = v]
        /\ cache' = [cache EXCEPT ![g] = Content(nodes', g)]
        /\ touched' = (touched \cup Wired(nodes, SeedOf(nodes, g))) \ {g}
    /\ UNCHANGED <<clip, pasted>>

Next ==
    \/ \E n \in Names, t \in Types, to \in Names \cup {Null} :
        Spawn(<<n>>, t, [Unwired EXCEPT !["seed"] = IF to = Null THEN None ELSE <<to>>])
    \/ \E id \in Ids, v \in Values : SetParam(id, v) \/ Edit(id, v)
    \/ \E id \in Ids, s \in SlotNames :
        Disconnect(id, s) \/ \E to \in Names : Connect(id, s, <<to>>)
    \/ \E id \in Ids : Archive(id) \/ Restore(id) \/ Copy(id)
    \/ \E snippet \in Snippets : CopyOutside(snippet)
    \/ Precompute
    \/ Paste

Spec == Init /\ [][Next]_vars

-----------------------------------------------------------------------------

TypeOK ==
    /\ \A i \in Ids :
        /\ nodes[i].type \in Types /\ nodes[i].dead \in BOOLEAN
        /\ {nodes[i].param, nodes[i].state} \subseteq Values
        /\ DOMAIN nodes[i].conns = SlotNames
    /\ DOMAIN cache = Ids /\ \A i \in Ids : cache[i] \in Values \cup {Null}
    /\ touched \subseteq Ids /\ Range(pasted) \subseteq Ids

(***************************************************************************)
(* Adding nodes disturbs none: a step that makes a node, by spawning or by *)
(* pasting a text of several with any ids, leaves every node there was as  *)
(* it was, whatever ids collide.                                           *)
(***************************************************************************)
AddingDisturbsNothing ==
    [][Ids # DOMAIN nodes' => \A i \in Ids : nodes'[i] = nodes[i]]_vars

(***************************************************************************)
(* A paste makes one new node for each entry of the text, with its own     *)
(* copy of the connections among them: a link inside the text stays        *)
(* inside, a link out of it leads where it led.                            *)
(***************************************************************************)
PasteIsACopy ==
    [][pasted' # pasted =>
        /\ IsInjective(pasted') /\ Range(pasted') \cap Ids = {}
        /\ \A i \in DOMAIN clip, s \in SlotNames :
            LET to == nodes'[pasted'[i]].conns[s]
                from == clip[i].conns[s]
                inside == {j \in DOMAIN clip : clip[j].id = from}
            IN  IF inside = {} THEN to = from
                ELSE \E j \in inside : to = pasted'[j]]_vars

(***************************************************************************)
(* A generator shows its seed: as long as neither its wiring nor the life  *)
(* of its seed has changed, and no other generator has edited that seed,   *)
(* its content is the one its seed would produce now, over any number of   *)
(* inverse edits and pastes.                                               *)
(***************************************************************************)
ShowsItsSeed ==
    \A g \in Generators \ touched : ~nodes[g].dead => cache[g] = Content(nodes, g)

\* The generators above a node with no other generator in between.
Own(id) ==
    LET up[n \in Nat] == IF n = 0 THEN {id} ELSE up[n - 1] \cup Parents(up[n - 1] \ Generators)
    IN  Generators \cap up[Cardinality(Ids)]

(***************************************************************************)
(* An inverse edit stays with the generator whose content was edited: the  *)
(* only state that changes is the seed of a generator from which some path *)
(* of connections leads to the edited node past no other generator         *)
(* ("further up the graph is some other generator over different           *)
(* content").                                                              *)
(***************************************************************************)
EditsStayNear ==
    [][\A s \in Ids : nodes'[s].state # nodes[s].state =>
        \E g \in Own(edited') : SeedOf(nodes, g) = s /\ cache'[g] = nodes'[s].state]_vars

(***************************************************************************)
(* "apply the returned param_delta to the Seed, and re-trigger precompute  *)
(* for the affected sub-graph" (engine/inverse.py:20-24): after an edit    *)
(* every generator of the seed shows it.                                   *)
(***************************************************************************)
EditShowsEverywhere ==
    [][\A s \in Ids : nodes'[s].state # nodes[s].state =>
        \A g \in Generators :
            SeedOf(nodes, g) = s /\ ~nodes[g].dead => cache'[g] = nodes'[s].state]_vars

(***************************************************************************)
(* "copy and pasting modules is identical to copying and pasting their     *)
(* nodes" (tools/module_clipboard.py:20): the copy of a live seed runs     *)
(* with the value the seed runs with.                                      *)
(***************************************************************************)
CopyRunsTheSame ==
    [][pasted' # pasted =>
        \A i \in DOMAIN clip :
            clip[i].id \in Ids => nodes'[pasted'[i]].state = nodes[clip[i].id].state]_vars

\* Through edits, copies, pastes and archives a generator shows what its seed says,
\* nothing that is added disturbs what is there, a paste is a copy of its text, and an
\* inverse edit stays with the nearest generator.
GraphIsSound ==
    /\ [](TypeOK /\ ShowsItsSeed)
    /\ AddingDisturbsNothing
    /\ PasteIsACopy
    /\ EditsStayNear
=============================================================================
