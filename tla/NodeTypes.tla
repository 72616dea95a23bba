------------------------------- MODULE NodeTypes -------------------------------
(***************************************************************************)
(* The node types of the Python engine and their live reload: discovery    *)
(* and reload_type of engine/core.py, and the watcher thread that polls    *)
(* the files by modification time (engine/file_watcher.py), while editors  *)
(* save, break, rename and delete them.  A file is its order in the        *)
(* directory, a text the type it declares and whether it runs; the default *)
(* patterns of render trust admit every watched file, so the trust gate    *)
(* is always open here.                                                    *)
(***************************************************************************)
EXTENDS Naturals, FiniteSets, FiniteSetsExt

CONSTANTS
    FileCount,   \* files in the watched directories, in the order of glob
    Names,       \* type names a file may declare
    MaxSaves     \* bound: saves and deletions in a behaviour

VARIABLES
    source,   \* the text of each file on disk
    modules,  \* sys.modules: the text each file's module was made of
    types,    \* Engine.types: the module registered for a name
    mtimes,   \* FileWatcher._mtimes; 0: not tracked
    named,    \* FileWatcher._path_to_type
    poll,     \* the pass in progress: the glob, what is left of it, the file at hand
    life,     \* "discovered" until the watcher is constructed, then "watching"
    hinders,  \* history: why a file, since it was loaded last, may miss a save
    clock     \* the number of saves: the mtimes

typesVars == <<source, modules, types, mtimes, named, poll, life, hinders, clock>>

Files   == 1 .. FileCount
NoName  == "no name"

ASSUME NodeTypesAssumption ==
    FileCount \in Nat /\ MaxSaves \in Nat \ {0} /\ NoName \notin Names

\* A text runs "whole", or raises "late", after manifest is defined, or "bare".
Text(f, runs, name, at) == [file |-> f, runs |-> runs, name |-> name, at |-> at]
Gone(f) == Text(f, "gone", NoName, 0)
Bare(f) == Text(f, "bare", NoName, 0)
TextsOf(f, at) == {Text(f, runs, n, at) : runs \in {"whole", "late"}, n \in Names}
                    \cup {Text(f, "bare", NoName, at)}
Resting  == [at |-> "rest", glob |-> {}, todo |-> {}, file |-> 0, mtime |-> 0]

Exists(f)     == source[f].runs # "gone"
Declares(mod) == mod.runs \in {"whole", "late"}

NamesOf(mods, nms, f) == {mods[f].name, nms[f]} \ {NoName}

\* What may keep a file from being reloaded.  A module without manifest stops
\* every reload that comes to it; of two files with one name only the
\* first is reloaded; a name other than the one recorded is not found.
Hindered(mods, nms) ==
    [f \in Files |->
        {why \in {"broken", "blocked", "twin", "renamed"} :
            \/ why = "broken"  /\ mods[f].runs = "bare" /\ nms[f] # NoName
            \/ why = "blocked" /\ \E g \in Files : g < f /\ mods[g].runs = "bare"
            \/ why = "twin"    /\ \E g \in Files \ {f} : NamesOf(mods, nms, f) \cap NamesOf(mods, nms, g) # {}
            \/ why = "renamed" /\ Declares(mods[f]) /\ nms[f] \notin {NoName, mods[f].name}}]

\* A load that went well makes up for what was missed before.
Loaded(g) ==
    hinders' = LET now == Hindered(modules', named')
               IN [f \in Files |-> now[f] \cup IF f = g /\ modules'[g].runs = "whole" THEN {} ELSE hinders[f]]

\* discover goes through the files in their order: the last of a name stays.
TypesInit ==
    /\ source \in [Files -> UNION {{Gone(f)} \cup TextsOf(f, 1) : f \in Files}]
    /\ \A f \in Files : source[f].file = f
    /\ modules = source
    /\ types = [n \in Names |->
                  LET of == {f \in Files : source[f].name = n /\ source[f].runs = "whole"}
                  IN IF of = {} THEN Gone(0) ELSE source[Max(of)]]
    /\ mtimes = [f \in Files |-> 0]
    /\ named = [f \in Files |-> NoName]
    /\ poll = Resting
    /\ life = "discovered"
    /\ hinders = Hindered(modules, named)
    /\ clock = 1

--------------------------------------------------------------------------------
\* Editors.  The watcher takes a save before its construction as known.

Write(f, text) ==
    /\ clock < MaxSaves
    /\ clock' = clock + 1
    /\ source' = [source EXCEPT ![f] = text]
    /\ hinders' = IF life = "discovered" THEN [hinders EXCEPT ![f] = @ \cup {"early"}] ELSE hinders
    /\ UNCHANGED <<modules, types, mtimes, named, poll, life>>

Save(f) == \E text \in TextsOf(f, clock + 1) : Write(f, text)
Delete(f) == Exists(f) /\ Write(f, Gone(f))

--------------------------------------------------------------------------------
\* Engine: _load_node_type_file, reload_type

\* exec_module on what is on disk; the module stays in sys.modules if it raises.
Executed(f) == IF Exists(f) THEN source[f] ELSE Bare(f)

\* It registers a module that ran to its end.
Registered(mod) == IF mod.runs = "whole" THEN [types EXCEPT ![mod.name] = mod] ELSE types

\* The modules reload_type looks at, and those it ends at: one of the name, or
\* one without a manifest, where it gives up.
Modules == {f \in Files : Exists(f) /\ modules[f].runs # "gone"}
Stops(name) == {f \in Modules : modules[f].name = name \/ ~Declares(modules[f])}
Finds(name) == Stops(name) # {} /\ modules[Min(Stops(name))].name = name

--------------------------------------------------------------------------------
\* FileWatcher

\* _seed_initial_state
Seed ==
    /\ life = "discovered"
    /\ life' = "watching"
    /\ mtimes' = [f \in Files |-> source[f].at]
    /\ named' = [f \in Files |-> IF Exists(f) /\ Declares(modules[f]) THEN modules[f].name ELSE NoName]
    /\ hinders' = [f \in Files |-> hinders[f] \cup Hindered(modules, named')[f]]
    /\ UNCHANGED <<source, modules, types, poll, clock>>

\* The glob of a pass that will find something.
PollStarts ==
    LET glob == {f \in Files : Exists(f)} IN
    /\ life = "watching" /\ poll.at = "rest"
    /\ \E f \in Files : source[f].at # mtimes[f]
    /\ poll' = [Resting EXCEPT !.at = "scan", !.glob = glob, !.todo = glob]
    /\ UNCHANGED <<source, modules, types, mtimes, named, life, hinders, clock>>

Passed(f) == [poll EXCEPT !.at = "scan", !.todo = @ \ {f}, !.file = 0, !.mtime = 0]

\* A file that has vanished since, or is as it was, is passed over.
Stat(f) ==
    /\ poll.at = "scan" /\ f \in poll.todo
    /\ poll' = IF Exists(f) /\ source[f].at > mtimes[f]
               THEN [poll EXCEPT !.at = "act", !.file = f, !.mtime = source[f].at]
               ELSE Passed(f)
    /\ UNCHANGED <<source, modules, types, mtimes, named, life, hinders, clock>>

Acting(f) == poll.at = "act" /\ poll.file = f
New(f) == mtimes[f] = 0 \/ named[f] = NoName

\* The time it had before its load is recorded, whatever came of it.
Recorded(f) == mtimes' = [mtimes EXCEPT ![f] = poll.mtime] /\ poll' = Passed(f)

\* _load_new
LoadNew(f) ==
    LET mod == Executed(f) IN
    /\ Acting(f) /\ New(f)
    /\ modules' = [modules EXCEPT ![f] = mod]
    /\ types' = Registered(mod)
    /\ named' = [named EXCEPT ![f] = IF Declares(mod) THEN mod.name ELSE @]
    /\ Loaded(f)
    /\ Recorded(f)
    /\ UNCHANGED <<source, life, clock>>

\* Mutant: the first module is reloaded, whatever it declares.
ReloadAny(f) ==
    LET g == Min(Modules)
        mod == Executed(g) IN
    /\ Acting(f) /\ ~New(f) /\ Finds(named[f])
    /\ modules' = [modules EXCEPT ![g] = mod]
    /\ types' = IF Declares(mod) THEN [types EXCEPT ![mod.name] = mod] ELSE types
    /\ UNCHANGED named
    /\ Loaded(g)
    /\ Recorded(f)
    /\ UNCHANGED <<source, life, clock>>

\* reload_type makes the module it finds again.  One that raised after its
\* manifest is registered all the same.
Reload(f) ==
    LET g == Min(Stops(named[f]))
        mod == Executed(g) IN
    /\ Acting(f) /\ ~New(f) /\ Finds(named[f])
    /\ modules' = [modules EXCEPT ![g] = mod]
    /\ types' = IF Declares(mod) THEN [types EXCEPT ![mod.name] = mod] ELSE types
    /\ UNCHANGED named
    /\ Loaded(g)
    /\ Recorded(f)
    /\ UNCHANGED <<source, life, clock>>

ReloadFails(f) ==
    /\ Acting(f) /\ ~New(f) /\ ~Finds(named[f])
    /\ Recorded(f)
    /\ UNCHANGED <<source, modules, types, named, life, hinders, clock>>

\* Files that were not in the glob are tracked no longer; their types stay.
PollEnds ==
    LET missing == Files \ poll.glob IN
    /\ poll.at = "scan" /\ poll.todo = {}
    /\ mtimes' = [f \in Files |-> IF f \in missing THEN 0 ELSE mtimes[f]]
    /\ named' = [f \in Files |-> IF f \in missing THEN NoName ELSE named[f]]
    /\ poll' = Resting
    /\ UNCHANGED <<source, modules, types, life, hinders, clock>>

Handle(f) == Stat(f) \/ LoadNew(f) \/ Reload(f) \/ ReloadFails(f)

TypesNext ==
    \/ \E f \in Files : Save(f) \/ Delete(f) \/ Handle(f)
    \/ Seed \/ PollStarts \/ PollEnds

\* The process starts, and the watcher's thread runs.
TypesFairness ==
    /\ WF_typesVars(Seed) /\ WF_typesVars(PollStarts) /\ WF_typesVars(PollEnds)
    /\ \A f \in Files : WF_typesVars(Handle(f))

TypesSpec == TypesInit /\ [][TypesNext]_typesVars /\ TypesFairness

--------------------------------------------------------------------------------
\* The state is what the code makes of it; nothing is registered that did not
\* define its manifest.
RegistryTypeOK ==
    /\ \A f \in Files :
        /\ source[f].file = f /\ modules[f].file = f
        /\ mtimes[f] \in 0 .. clock
        /\ named[f] \in Names \cup {NoName}
        /\ Exists(f) => source[f].at \in 1 .. clock
    /\ \A n \in Names : types[n].runs = "gone" \/ (Declares(types[n]) /\ types[n].name = n)
    /\ poll.todo \subseteq poll.glob /\ poll.glob \subseteq Files
    /\ clock \in 1 .. MaxSaves

\* The module a name is registered with is the one sys.modules has of its file,
\* unless that file has since broken or changed its name.
RegistryMatches ==
    \A n \in Names : LET mod == types[n] IN
        mod.runs # "gone" =>
            LET now == modules[mod.file] IN now.runs = "whole" /\ now.name = n => now = mod

\* file_watcher.py:9: "when a file changes, only its node-type's registration
\* updates" - unless another file has that name too.
OnlyItsOwnType ==
    [][\A n \in Names :
          types'[n] # types[n] => types'[n].file = poll.file \/ "twin" \in hinders[poll.file]]_typesVars

\* A whole text that is saved and left alone is the one that is registered in
\* the end, unless something has hindered its file since it was loaded last.
RunsIfNot(whys) ==
    \A f \in Files :
        <>[](source[f].runs = "whole" /\ hinders[f] \cap whys = {} => types[source[f].name] = source[f])

SavedCodeRuns == RunsIfNot({"early", "broken", "blocked", "twin", "renamed"})

\* core.py:62: "a broken module-file means only that one type isn't available".
BreaksAlone == RunsIfNot({"early", "broken", "twin", "renamed"})

\* The types the engine uses are those of the files as they were loaded last, each
\* from its own file, and a text that is saved and left alone is registered in the end.
TypesAreCurrent ==
    /\ [](RegistryTypeOK /\ RegistryMatches)
    /\ OnlyItsOwnType
    /\ SavedCodeRuns
=============================================================================
