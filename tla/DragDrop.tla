-------------------------------- MODULE DragDrop --------------------------------
(***************************************************************************)
(* Drops of one node of the web interface on another                       *)
(* (tools/renderer_registry/drag_drop_dispatcher.py), and the registry of  *)
(* kinds that says which nodes may be dropped (registry.py).  The          *)
(* dispatcher keeps no graph: a page sends its own along with each drop    *)
(* and takes the next one from the answer.  Drops are served one by one;   *)
(* the hook of the hot reload rebuilds the registry on a thread of its     *)
(* own, from files that are saved and broken meanwhile.  A graph is the    *)
(* set of its edges: the list the code keeps has an edge twice if it was   *)
(* added twice, and nothing asks how often or in which order.              *)
(***************************************************************************)
EXTENDS Naturals, Sequences, FiniteSets

CONSTANTS
    Pages,
    Files,     \* module files 1 .. n, in the order they are discovered
    Kinds,     \* what a manifest's name may become
    Virtual,   \* Virtual[k]: what virtual kind k composes, VIRTUAL_KIND_DECLARATIONS
    Nodes,     \* nodes that can be dragged and dropped on
    KindOf,    \* KindOf[n]: the kind of node n
    TierOf,    \* TierOf[n]: its tier, or 0 if none is known
    Table,     \* DISPATCH_TABLE: relations of some pairs of kinds
    Override,  \* MODIFIER_OVERRIDES: relations of some keys
    Keys,      \* sequences of keys held during a drop
    MaxDrops, MaxSaves, MaxRebuilds, MaxFails  \* bounds

ASSUME DropsAssumption ==
    /\ IsFiniteSet(Files) /\ Files = 1 .. Cardinality(Files)
    /\ \A keys \in Keys : Len(keys) \in Nat /\ DOMAIN keys = 1 .. Len(keys)

VARIABLES
    disk,      \* Files -> <<kind, whether its renderer id is allowed>>, or Broken
    registry,  \* kind -> its binding, of the kinds that are valid
    errors,    \* the kinds the validator refused
    hook,      \* the rebuild that is under way, and what it has read
    graph,     \* of each page: its edges
    queue,     \* drops that wait, with the graphs they were sent with
    drop,      \* the drop that is served
    answers,   \* of each page: the graphs it has been sent
    store,     \* a subscriber: the edges it was told to relate
    heard,     \* another one: the events it heard
    dropsCrossed,  \* history: pages that dropped before the last answer was in
    made,      \* history: drops that were accepted, oldest first
    drops, saves, rebuilds, fails

dropsVars == <<disk, registry, errors, hook, graph, queue, drop, answers, store, heard,
          dropsCrossed, made, drops, saves, rebuilds, fails>>

Broken   == <<>>
NoDrop   == [at |-> "none"]
NoTarget == "canvas"
Window   == 2   \* TIER_WINDOW

--------------------------------------------------------------------------------
\* The registry: discovery, merger and validator

Native(allowed) == [source |-> "native", allowed |-> allowed, composes |-> {}]

\* ApeironDiscovery: the file read last has the kind, if two become the same one.
Discovered(read) ==
    LET of(k) == {f \in DOMAIN read : read[f] # Broken /\ read[f][1] = k}
    IN [k \in {k \in Kinds : of(k) # {}} |->
           Native(read[CHOOSE f \in of(k) : \A g \in of(k) : g <= f][2])]

\* VirtualKindDeclarations and BindingMerger: a native kind hides a virtual one.
Merged(native) ==
    [k \in DOMAIN native \cup DOMAIN Virtual |->
        IF k \in DOMAIN native THEN native[k]
        ELSE [source |-> "virtual", allowed |-> TRUE, composes |-> Virtual[k]]]

\* RegistryValidator: references are looked up in all there is, refused kinds included.
Valid(all) == {k \in DOMAIN all : all[k].allowed /\ all[k].composes \subseteq DOMAIN all}

Bindings(all) == [k \in Valid(all) |-> all[k]]
Refused(all)  == DOMAIN all \ Valid(all)

FreshKinds == Merged(Discovered(disk))

NoHook == [at |-> "idle", read |-> <<>>, moved |-> FALSE]

DropsInit ==
    /\ disk \in [Files -> {Broken} \cup (Kinds \X BOOLEAN)]
    /\ registry = Bindings(FreshKinds) /\ errors = Refused(FreshKinds)   \* get_registry, at the first drop
    /\ hook = NoHook
    /\ graph = [c \in Pages |-> {}] /\ answers = [c \in Pages |-> <<>>]
    /\ queue = <<>> /\ drop = NoDrop
    /\ store = {} /\ heard = <<>>
    /\ dropsCrossed = {} /\ made = <<>>
    /\ drops = 0 /\ saves = 0 /\ rebuilds = 0 /\ fails = 0

\* A module is saved, with another manifest or with an error.
Save(f) ==
    /\ saves < MaxSaves
    /\ \E text \in {Broken} \cup (Kinds \X BOOLEAN) :
          /\ text # disk[f]
          /\ disk' = [disk EXCEPT ![f] = text]
    /\ saves' = saves + 1
    /\ hook' = [hook EXCEPT !.moved = TRUE]
    /\ UNCHANGED <<registry, errors, graph, queue, drop, answers, store, heard, dropsCrossed,
                   made, drops, rebuilds, fails>>

--------------------------------------------------------------------------------
\* rebuild, on the thread of the hot reload

Rebuild ==
    /\ hook.at = "idle" /\ rebuilds < MaxRebuilds
    /\ rebuilds' = rebuilds + 1
    /\ hook' = [at |-> "scan", read |-> <<>>, moved |-> FALSE]
    /\ UNCHANGED <<disk, registry, errors, graph, queue, drop, answers, store, heard,
                   dropsCrossed, made, drops, saves, fails>>

\* One module after the other is loaded into an engine made for this.
Scan ==
    /\ hook.at = "scan"
    /\ LET f == Len(hook.read) + 1 IN
       hook' = IF f \in Files THEN [hook EXCEPT !.read = Append(@, disk[f])]
                              ELSE [hook EXCEPT !.at = "swap"]
    /\ UNCHANGED <<disk, registry, errors, graph, queue, drop, answers, store, heard,
                   dropsCrossed, made, drops, saves, rebuilds, fails>>

\* The kinds first, the errors after them.
Swap ==
    /\ hook.at = "swap"
    /\ registry' = Bindings(Merged(Discovered(hook.read)))
    /\ hook' = [hook EXCEPT !.at = "errors"]
    /\ drop' = IF drop.at = "none" THEN drop
               ELSE [drop EXCEPT !.seen = @ \cup DOMAIN registry']
    /\ UNCHANGED <<disk, errors, graph, queue, answers, store, heard, dropsCrossed, made, drops,
                   saves, rebuilds, fails>>

SwapErrors ==
    /\ hook.at = "errors"
    /\ errors' = Refused(Merged(Discovered(hook.read)))
    /\ hook' = [hook EXCEPT !.at = "idle"]
    /\ UNCHANGED <<disk, registry, graph, queue, drop, answers, store, heard, dropsCrossed, made,
                   drops, saves, rebuilds, fails>>

--------------------------------------------------------------------------------
\* A drop: guard, classify, emit_edit, project_next_state

Waits(c) == (\E i \in DOMAIN queue : queue[i].page = c)
            \/ (drop.at # "none" /\ drop.page = c)
            \/ answers[c] # <<>>

\* A page sends a drop of one node on another, or on the canvas, with its graph.
Send(c) ==
    /\ drops < MaxDrops
    /\ \E from \in Nodes, to \in Nodes \cup {NoTarget}, keys \in Keys :
          queue' = Append(queue, [page |-> c, from |-> from, to |-> to, keys |-> keys,
                                  graph |-> graph[c], id |-> drops])
    /\ drops' = drops + 1
    /\ dropsCrossed' = IF Waits(c) THEN dropsCrossed \cup {c} ELSE dropsCrossed
    /\ UNCHANGED <<disk, registry, errors, hook, graph, drop, answers, store, heard, made,
                   saves, rebuilds, fails>>

\* guard: nothing is dropped on itself or on the canvas, and its kind is looked up.
Rejects(d) == answers' = [answers EXCEPT ![d.page] = Append(@, d.graph)]

Serve ==
    /\ drop.at = "none" /\ queue # <<>>
    /\ queue' = Tail(queue)
    /\ LET d == Head(queue) IN
       IF d.from # d.to /\ d.to # NoTarget /\ KindOf[d.from] \in DOMAIN registry
       THEN /\ drop' = [at |-> "target", page |-> d.page, from |-> d.from, to |-> d.to,
                        keys |-> d.keys, graph |-> d.graph, seen |-> DOMAIN registry]
            /\ UNCHANGED <<answers, heard>>
       ELSE Rejects(d) /\ heard' = Append(heard, "rejected") /\ UNCHANGED drop
    /\ UNCHANGED <<disk, registry, errors, hook, graph, store, dropsCrossed, made, drops, saves,
                   rebuilds, fails>>

Distance(m, n) == IF m < n THEN n - m ELSE m - n

InWindow(d) ==
    LET s == TierOf[d.from]  t == TierOf[d.to]
    IN (s # 0 /\ t # 0) => Distance(s, t) <= Window

\* classify: the first key that means something, or the table, or "references".
Relation(d) ==
    LET known == {i \in DOMAIN d.keys : d.keys[i] \in DOMAIN Override}
        pair  == <<KindOf[d.from], KindOf[d.to]>>
    IN IF known # {} THEN Override[d.keys[CHOOSE i \in known : \A j \in known : i <= j]]
       ELSE IF pair \in DOMAIN Table THEN Table[pair] ELSE "references"

Edge(d) == [source |-> d.from, relation |-> Relation(d), target |-> d.to]
Pair(e) == <<e.source, e.target>>

Replaces(g, e) == \E x \in g : Pair(x) = Pair(e) /\ x.relation # e.relation

\* Mutant: an edge that is replaced stays.
ProjectedBeside(g, e) == g \cup {e}

\* project_next_state: all edges of the pair go if one has another relation.
Projected(g, e) ==
    (IF Replaces(g, e) THEN {x \in g : Pair(x) # Pair(e)} ELSE g) \cup {e}

\* fire_subscribers: the store may raise, the log hears the event all the same.
Settle ==
    /\ drop.at = "target"
    /\ drop' = NoDrop
    /\ LET ok == KindOf[drop.to] \in DOMAIN registry /\ InWindow(drop)
           e  == Edge(drop)
       IN IF ok
          THEN /\ answers' = [answers EXCEPT ![drop.page] = Append(@, Projected(drop.graph, e))]
               /\ made' = Append(made, [page |-> drop.page, edge |-> e, seen |-> drop.seen])
               /\ heard' = Append(heard, IF Replaces(drop.graph, e) THEN "replace" ELSE "add")
               /\ \/ store' = store \cup {e} /\ UNCHANGED fails
                  \/ fails < MaxFails /\ fails' = fails + 1 /\ UNCHANGED store
          ELSE Rejects(drop) /\ heard' = Append(heard, "rejected")
               /\ UNCHANGED <<store, fails, made>>
    /\ UNCHANGED <<disk, registry, errors, hook, graph, queue, dropsCrossed, drops, saves, rebuilds>>

\* The page's graph is the one it is answered with.
Take(c) ==
    /\ answers[c] # <<>>
    /\ graph' = [graph EXCEPT ![c] = Head(answers[c])]
    /\ answers' = [answers EXCEPT ![c] = Tail(@)]
    /\ UNCHANGED <<disk, registry, errors, hook, queue, drop, store, heard, dropsCrossed, made,
                   drops, saves, rebuilds, fails>>

DropsNext ==
    \/ \E f \in Files : Save(f)
    \/ Rebuild \/ Scan \/ Swap \/ SwapErrors
    \/ \E c \in Pages : Send(c) \/ Take(c)
    \/ Serve \/ Settle

DropsSpec == DropsInit /\ [][DropsNext]_dropsVars

--------------------------------------------------------------------------------
(* Properties *)

Edges == [source : Nodes, target : Nodes,
          relation : {Override[k] : k \in DOMAIN Override} \cup
                     {Table[p] : p \in DOMAIN Table} \cup {"references"}]

\* Types of the state.
DropsTypeOK ==
    /\ DOMAIN registry \subseteq Kinds \cup DOMAIN Virtual
    /\ errors \subseteq Kinds \cup DOMAIN Virtual
    /\ \A c \in Pages : graph[c] \subseteq Edges /\ answers[c] \in Seq(SUBSET Edges)
    /\ store \subseteq Edges
    /\ \A i \in DOMAIN heard : heard[i] \in {"add", "replace", "rejected"}

\* Once a rebuild that no save crossed is over, the registry and the errors are those
\* of the files: each kind is in one of them, and a module hides a virtual kind of
\* its name, even one whose renderer id is refused.
RebuiltFromDisk ==
    (hook.at = "idle" /\ ~hook.moved) =>
        /\ registry = Bindings(FreshKinds)
        /\ errors = DOMAIN FreshKinds \ DOMAIN registry
        /\ \A k \in DOMAIN Discovered(disk) :
              k \in DOMAIN registry => registry[k].source = "native"

\* A drop that was accepted joins nodes of kinds that were registered while it was
\* served, and of tiers within the window of each other.
OnlyKnownJoin ==
    \A i \in DOMAIN made :
        LET e == made[i].edge IN
        /\ {KindOf[e.source], KindOf[e.target]} \subseteq made[i].seen
        /\ InWindow([from |-> e.source, to |-> e.target])

\* However answers and drops cross, a pair of nodes has one relation in a graph
\* ("Replaces-existing-same-pair if found", emit_edit).
OneRelation ==
    \A c \in Pages : \A x, y \in graph[c] : Pair(x) = Pair(y) => x = y

MadeBy(c) == {i \in DOMAIN made : made[i].page = c}

LastEdges(c) == {made[i].edge : i \in {i \in MadeBy(c) :
    \A j \in MadeBy(c) : Pair(made[j].edge) = Pair(made[i].edge) => j <= i}}

\* A page that waits for its answers has, of each pair it joined, the relation of
\* its last drop, and nothing else.
LastDropStands ==
    \A c \in Pages \ dropsCrossed : ~Waits(c) =>
        graph[c] = LastEdges(c)

\* A subscriber that raises keeps nothing from the others: each drop that was served
\* is heard of once; and what the store missed are the calls that raised.
AllAreHeard ==
    /\ Len(heard) = drops - Len(queue) - (IF drop.at = "none" THEN 0 ELSE 1)
    /\ Cardinality({i \in DOMAIN made : made[i].edge \notin store}) <= fails

\* Drops make graphs that a page can rely on, and the registry that allows them is
\* that of the files.
DropsAreExact ==
    /\ DropsTypeOK /\ RebuiltFromDisk /\ OnlyKnownJoin
    /\ OneRelation /\ LastDropStands /\ AllAreHeard

\* "the validator enforces that every reference resolves" (registry.py:251).  A kind
\* that composes one that was refused is registered: it does not hold.
ReferencesResolve ==
    \A k \in DOMAIN registry : registry[k].composes \subseteq DOMAIN registry

\* The store, told to relate and never to take back, keeps relations that were replaced:
\* it does not hold.
StoreHasNoMore ==
    \A c \in Pages \ dropsCrossed : (Pages = {c} /\ ~Waits(c)) =>
        store \subseteq graph[c]
================================================================================
