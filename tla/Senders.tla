-------------------------------- MODULE Senders --------------------------------
(***************************************************************************)
(* A set of trusted senders (tools/workflow/trust.py) and the lists of the *)
(* inbox that are made by it (tools/workflow/inbox.py).  The set is a JSON *)
(* file; every TrustSet object over it has a lock and a cache of its own:  *)
(* the shell has one for its life, a panel makes one for every action.     *)
(* Objects of different threads and processes meet in the file, and in the *)
(* one name they all give to the temporary file that replaces it.  The     *)
(* user may edit the file as well.                                         *)
(***************************************************************************)
EXTENDS Naturals, FiniteSets

CONSTANTS
    Clients,     \* TrustSet objects, each with one caller
    Lister,      \* the one by which the inbox is listed
    People,      \* senders, of names equally long
    Messages,
    Sender,      \* Sender[m]: whom message m is from
    Defaults,    \* trusted in a file that the program makes itself
    MaxChanges,  \* bound: calls of add and remove
    MaxEdits,    \* bound: edits by hand
    MaxStamp     \* bound: ticks of the clock that stamps files

ASSUME SendersAssumption == Defaults \subseteq People /\ MaxStamp \in Nat \ {0}

VARIABLES
    trustFile,   \* the file: its form, whom it lists and its modification time
    tmp,         \* whom the temporary file lists, or NoTmp
    cache,       \* of each object: whom it holds, and the key it read them under
    call,        \* the call of add or remove each object is in
    walk,        \* a listing of the inbox in two parts, or in one
    clock,
    keys,        \* history: what versions of the file looked like
    overlapped,  \* history: calls overlapped, or two versions look the same
    changes, edits

sendersVars == <<trustFile, tmp, cache, call, walk, clock, keys, overlapped, changes, edits>>

NoTmp   == <<>>
NoKey   == [stamp |-> 0, size |-> 0]
Fresh   == [key |-> NoKey, set |-> {}]
NoCall  == [at |-> "idle", set |-> {}]
NoWalk  == [at |-> "idle", todo |-> {}, main |-> {}, quarantine |-> {}, moved |-> FALSE]

\* What os.stat says of a file.
Key(f) == [stamp |-> f.stamp, size |-> IF f.form = "set" THEN Cardinality(f.set) ELSE 0]

\* Whom the file lists: nobody if it is missing or cannot be parsed.
Listed(f) == IF f.form = "set" THEN f.set ELSE {}

SendersInit ==
    /\ trustFile = [form |-> "absent", set |-> {}, stamp |-> 0]
    /\ tmp = NoTmp
    /\ cache = [c \in Clients |-> Fresh]
    /\ call = [c \in Clients |-> NoCall]
    /\ walk = NoWalk
    /\ clock = 1
    /\ keys = {} /\ overlapped = FALSE
    /\ changes = 0 /\ edits = 0

Busy == {c \in Clients : call[c].at # "idle"}

\* The file becomes f: whoever lists the inbox meanwhile sees it change, and a
\* version with the time and size of an earlier one passes for it.
Becomes(f, others) ==
    /\ trustFile' = f
    /\ walk' = [walk EXCEPT !.moved = @ \/ walk.at \in {"main", "quarantine"}]
    /\ overlapped' = (overlapped \/ Key(f) \in keys \/ others # {})
    /\ keys' = keys \cup {Key(f)}

--------------------------------------------------------------------------------
\* TrustSet._load_set, of a file that is not of a newer version (it raises then)

Cached(c)    == trustFile.form # "absent" /\ cache[c].key = Key(trustFile)
Readable(c)  == Cached(c) \/ trustFile.form # "newer"
Trusted(c)   == IF Cached(c) THEN cache[c].set ELSE Listed(trustFile)
Remembers(c) == [key |-> IF trustFile.form = "absent" THEN NoKey ELSE Key(trustFile), set |-> Trusted(c)]

\* An object is made: if there is no file, it writes one with the defaults.
MakeSet(c) ==
    /\ call[c].at = "idle" /\ changes < MaxChanges
    /\ changes' = changes + 1
    /\ cache' = [cache EXCEPT ![c] = Fresh]
    /\ IF trustFile.form = "absent"
       THEN call' = [call EXCEPT ![c] = [at |-> "write", set |-> Defaults]]
       ELSE UNCHANGED call
    /\ overlapped' = (overlapped \/ (trustFile.form = "absent" /\ Busy # {}))
    /\ UNCHANGED <<trustFile, tmp, walk, clock, keys, edits>>

\* add(p) and remove(p): the set is loaded, changed and saved.
Change(c, p, adds) ==
    LET set == IF adds THEN Trusted(c) \cup {p} ELSE Trusted(c) \ {p} IN
    /\ call[c].at = "idle" /\ changes < MaxChanges
    /\ Readable(c)
    /\ changes' = changes + 1
    /\ cache' = [cache EXCEPT ![c] = Remembers(c)]
    /\ call' = [call EXCEPT ![c] = [at |-> "write", set |-> set]]
    /\ overlapped' = (overlapped \/ Busy # {})
    /\ UNCHANGED <<trustFile, tmp, walk, clock, keys, edits>>

Write(c) ==
    /\ call[c].at = "write"
    /\ tmp' = <<call[c].set>>
    /\ call' = [call EXCEPT ![c].at = "replace"]
    /\ UNCHANGED <<trustFile, cache, walk, clock, keys, overlapped, changes, edits>>

\* os.replace, which fails if another call has moved the file away under its name
Replace(c) ==
    /\ call[c].at = "replace"
    /\ IF tmp = NoTmp
       THEN /\ call' = [call EXCEPT ![c] = NoCall]
            /\ UNCHANGED <<trustFile, walk, keys, overlapped, tmp>>
       ELSE /\ Becomes([form |-> "set", set |-> tmp[1], stamp |-> clock], Busy \ {c})
            /\ tmp' = NoTmp
            /\ call' = [call EXCEPT ![c].at = "stat"]
    /\ UNCHANGED <<cache, clock, changes, edits>>

\* Mutant: the cache is left as it was loaded.
RememberNothing(c) ==
    /\ call[c].at = "stat"
    /\ cache' = [cache EXCEPT ![c].key = Key(trustFile)]
    /\ call' = [call EXCEPT ![c] = NoCall]
    /\ UNCHANGED <<trustFile, tmp, walk, clock, keys, overlapped, changes, edits>>

\* What was saved is cached under the key the file has by then.
Remember(c) ==
    /\ call[c].at = "stat"
    /\ cache' = [cache EXCEPT ![c] = [key |-> Key(trustFile), set |-> call[c].set]]
    /\ call' = [call EXCEPT ![c] = NoCall]
    /\ UNCHANGED <<trustFile, tmp, walk, clock, keys, overlapped, changes, edits>>

--------------------------------------------------------------------------------
\* The user edits the file: to another set, to something that is no set, to the
\* form of a later version.
EditFile ==
    /\ edits < MaxEdits /\ edits' = edits + 1
    /\ \E set \in SUBSET People, form \in {"set", "broken", "newer"} :
         Becomes([form |-> form, set |-> IF form = "set" THEN set ELSE {}, stamp |-> clock], Busy)
    /\ UNCHANGED <<tmp, cache, call, clock, changes>>

Tick ==
    /\ clock < MaxStamp /\ clock' = clock + 1
    /\ UNCHANGED <<trustFile, tmp, cache, call, walk, keys, overlapped, changes, edits>>

--------------------------------------------------------------------------------
\* The inbox is listed: list_main and then
\* list_quarantine, as the shell's commands do, or partition_main_quarantine.
\* (Once in a behaviour: it leaves nothing behind but the cache.)
List(at) ==
    /\ walk.at = "idle"
    /\ walk' = [NoWalk EXCEPT !.at = at, !.todo = Messages]

\* Each message's sender is asked for; the cache is brought up to date by it.
Ask(c, m) ==
    /\ c = Lister /\ walk.at \in {"main", "quarantine", "both"} /\ m \in walk.todo
    /\ call[c].at = "idle" /\ Readable(c)
    /\ cache' = [cache EXCEPT ![c] = Remembers(c)]
    /\ LET trusted == Sender[m] \in Trusted(c) IN
       walk' = [walk EXCEPT
           !.todo = @ \ {m},
           !.main = IF trusted /\ walk.at # "quarantine" THEN @ \cup {m} ELSE @,
           !.quarantine = IF ~trusted /\ walk.at # "main" THEN @ \cup {m} ELSE @]
    /\ UNCHANGED <<trustFile, tmp, call, clock, keys, overlapped, changes, edits>>

Turn ==
    /\ walk.at = "main" /\ walk.todo = {}
    /\ walk' = [walk EXCEPT !.at = "quarantine", !.todo = Messages]

ListEnds ==
    /\ walk.at \in {"quarantine", "both"} /\ walk.todo = {}
    /\ walk' = [walk EXCEPT !.at = IF @ = "both" THEN "whole" ELSE "parts"]

Walk ==
    /\ \/ \E at \in {"main", "both"} : List(at)
       \/ Turn \/ ListEnds
    /\ UNCHANGED <<trustFile, tmp, cache, call, clock, keys, overlapped, changes, edits>>

SendersNext ==
    \/ \E c \in Clients :
         \/ MakeSet(c) \/ Write(c) \/ Replace(c) \/ Remember(c)
         \/ \E p \in People, adds \in BOOLEAN : Change(c, p, adds)
         \/ \E m \in Messages : Ask(c, m)
    \/ EditFile \/ Tick \/ Walk

SendersSpec == SendersInit /\ [][SendersNext]_sendersVars

--------------------------------------------------------------------------------
\* The state is what the code makes of it.
SendersTypeOK ==
    /\ trustFile.form \in {"absent", "set", "broken", "newer"} /\ trustFile.set \subseteq People
    /\ \A c \in Clients : cache[c].set \subseteq People /\ call[c].set \subseteq People
    /\ walk.todo \cup walk.main \cup walk.quarantine \subseteq Messages
    /\ clock \in 1 .. MaxStamp

\* An object's cache that looks current is: it holds whom the file lists, as long
\* as calls did not overlap and no two versions looked the same.
CacheIsCurrent ==
    ~overlapped => \A c \in Clients : Cached(c) => cache[c].set = Listed(trustFile)

\* A save makes the file with the defaults, or changes what it lists by one sender at
\* most, and never writes over a file of a later version, if nothing crossed it.
SavesAreExact ==
    [][\A c \in Clients :
         call[c].at = "replace" /\ call'[c].at = "stat" /\ ~overlapped'
            => \/ trustFile.form = "absent" /\ trustFile'.set = Defaults
               \/ /\ trustFile.form # "newer"
                  /\ Cardinality(trustFile'.set \ Listed(trustFile)) <= 1
                  /\ Cardinality(Listed(trustFile) \ trustFile'.set) <= 1]_sendersVars

\* A message is in exactly one of the lists: always in one walk, and in two walks
\* if the file did not change in between.
ListsAreExact ==
    /\ walk.at = "whole" => walk.main \cup walk.quarantine = Messages /\ walk.main \cap walk.quarantine = {}
    /\ walk.at = "parts" /\ ~walk.moved /\ ~overlapped
         => walk.main \cup walk.quarantine = Messages /\ walk.main \cap walk.quarantine = {}

\* The set of senders is what the calls made of it, the objects know it as it is,
\* and a message is listed on one side.
SendersAreExact ==
    /\ [](SendersTypeOK /\ CacheIsCurrent /\ ListsAreExact)
    /\ SavesAreExact
=============================================================================
