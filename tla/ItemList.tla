-------------------------------- MODULE ItemList --------------------------------
(***************************************************************************)
(* The list panels: a source node (a file and its parser, the quarantined  *)
(* messages, the trusted senders) puts its items into the engine's cache   *)
(* when it is precomputed; a panel draws them; and what the user does with *)
(* a row that was drawn is done to the item that has the row's id by then. *)
(*                                                                         *)
(* The id is the number of the item's line for tasks and ideas, and the    *)
(* number or path of the item itself for wishes and messages.              *)
(***************************************************************************)
EXTENDS Naturals, Sequences, FiniteSets, SequencesExt, TLC

CONSTANTS
    Things,      \* the tasks, or the messages
    Sender,      \* who each message is from
    Positional,  \* whether ids are line numbers
    MaxShown,    \* max_items
    MaxChanges   \* bound: changes of the source by others

VARIABLES
    lines,     \* the source: the file's lines, the messages oldest first
    trusted,   \* the senders of trusted_senders.json
    items,     \* the source's entry in engine.cache, as a set: their order is left out
    granted,   \* that of the list of trusted senders
    rows,      \* what the panel has drawn
    expanded,  \* the id that is expanded, and what the user meant by it
    acted,     \* history: what each verb was meant for, and done to
    changes

listVars == <<lines, trusted, items, granted, rows, expanded, acted, changes>>

Senders == {Sender[x] : x \in Things}
Blank == "blank"

ASSUME BlankAssumption == Blank \notin Things

NotExpanded == [id |-> IF Positional THEN 0 ELSE Blank, meant |-> Blank]

ListInit ==
    /\ lines = << >> /\ trusted = {} /\ items = {} /\ granted = {}
    /\ rows = {} /\ expanded = NotExpanded /\ acted = {} /\ changes = 0

-----------------------------------------------------------------------------
\* The sources

Item(ls, i) == [id |-> IF Positional THEN i ELSE ls[i], thing |-> ls[i]]

\* A file's parser skips what is no item; of the messages those of trusted senders
\* are left out, and all but the newest.
Listed(ls, trust) ==
    LET own == {i \in DOMAIN ls : /\ ls[i] # Blank
                                  /\ Positional \/ Sender[ls[i]] \notin trust}
    IN  IF Positional THEN own
        ELSE {i \in own : Cardinality({j \in own : j > i}) < MaxShown}

Parsed(ls, trust) == {Item(ls, i) : i \in Listed(ls, trust)}

\* engine.precompute runs the hook of every source.
ListPrecomputed(ls, trust) == items' = Parsed(ls, trust) /\ granted' = trust

ListPrecompute ==
    /\ ListPrecomputed(lines, trusted)
    /\ UNCHANGED <<lines, trusted, rows, expanded, acted, changes>>

\* An editor inserts or removes a line anywhere; messages arrive at the end.
InsertLine(x, i) ==
    /\ changes < MaxChanges
    /\ x = Blank \/ x \notin ToSet(lines)
    /\ Positional \/ (i = Len(lines) + 1 /\ x # Blank)
    /\ lines' = InsertAt(lines, i, x)
    /\ changes' = changes + 1
    /\ UNCHANGED <<trusted, items, granted, rows, expanded, acted>>

DeleteLine(i) ==
    /\ changes < MaxChanges
    /\ lines' = RemoveAt(lines, i)
    /\ changes' = changes + 1
    /\ UNCHANGED <<trusted, items, granted, rows, expanded, acted>>

-----------------------------------------------------------------------------
\* The panel

Draw ==
    /\ rows # items
    /\ rows' = items
    /\ UNCHANGED <<lines, trusted, items, granted, expanded, acted, changes>>

\* Local to the panel, which is drawn again.
Expand(r) ==
    /\ expanded' = [id |-> r.id, meant |-> r.thing]
    /\ rows' = items
    /\ UNCHANGED <<lines, trusted, items, granted, acted, changes>>

Collapse ==
    /\ expanded # NotExpanded
    /\ expanded' = NotExpanded
    /\ rows' = items
    /\ UNCHANGED <<lines, trusted, items, granted, acted, changes>>

\* dispatch_action finds the item that has the id now; _re_resolve looks whether
\* its message is still there.
ResolvedItems(r) == {x \in items : x.id = r.id}
ReResolved(r) == {x.thing : x \in ResolvedItems(r)} \cap ToSet(lines)

\* Mutant: the handler does not precompute, and the panel is drawn from the old items.
HandledOnly(r, ls, trust) ==
    /\ lines' = ls /\ trusted' = trust
    /\ rows' = items
    /\ acted' = acted \cup {<<r.thing, x>> : x \in ReResolved(r)}
    /\ UNCHANGED <<items, granted, expanded, changes>>

\* The handler precomputes, and the panel is drawn again, with the rest gone.
Handled(r, ls, trust) ==
    /\ lines' = ls /\ trusted' = trust
    /\ ListPrecomputed(ls, trust)
    /\ rows' = items'
    /\ acted' = acted \cup {<<r.thing, x>> : x \in ReResolved(r)}
    /\ UNCHANGED <<expanded, changes>>

DeleteMessage(r) ==
    /\ ~Positional
    /\ \E i \in DOMAIN lines :
         /\ lines[i] \in ReResolved(r)
         /\ Handled(r, RemoveAt(lines, i), trusted)

Promote(r) ==
    /\ ~Positional
    /\ \E x \in ReResolved(r) : Handled(r, lines, trusted \cup {Sender[x]})

\* The message is gone, or the id: nothing is done, and the panel is drawn again.
Misses(r) ==
    /\ ~Positional /\ ReResolved(r) = {}
    /\ rows' = items
    /\ UNCHANGED <<lines, trusted, items, granted, expanded, acted, changes>>

\* In the list of trusted senders.
Revoke(s) ==
    /\ s \in granted
    /\ trusted' = trusted \ {s}
    /\ ListPrecomputed(lines, trusted')
    /\ UNCHANGED <<lines, rows, expanded, acted, changes>>

ListNext ==
    \/ ListPrecompute \/ Draw \/ Collapse
    \/ \E i \in 1 .. Len(lines) + 1, x \in Things \cup {Blank} : InsertLine(x, i)
    \/ \E i \in DOMAIN lines : DeleteLine(i)
    \/ \E r \in rows : Expand(r) \/ DeleteMessage(r) \/ Promote(r) \/ Misses(r)
    \/ \E s \in Senders : Revoke(s)

ListSpec == ListInit /\ [][ListNext]_listVars

-----------------------------------------------------------------------------

ListTypeOK ==
    /\ ToSet(lines) \subseteq Things \cup {Blank}
    /\ trusted \cup granted \subseteq Senders
    /\ {x.thing : x \in items \cup rows} \subseteq Things

(***************************************************************************)
(* A verb is done to the message the user clicked on, however the source   *)
(* and the cache have changed since the row was drawn.                     *)
(***************************************************************************)
ActsOnWhatWasMeant == \A a \in acted : a[1] = a[2]

(***************************************************************************)
(* The body that is shown is that of the item the user expanded            *)
(* (list_renderer.py:328: "a source-file edit that shifts ids falls        *)
(* through to the list view instead of expanding the wrong item").         *)
(***************************************************************************)
ExpandedIsMeant ==
    \A r \in rows : r.id = expanded.id /\ expanded # NotExpanded => r.thing = expanded.meant

(***************************************************************************)
(* Once a sender is promoted or a message deleted, the panel that is drawn *)
(* after the verb no longer lists it, whatever it listed before.           *)
(***************************************************************************)
HandledIsGone ==
    [][acted' # acted =>
        \A a \in acted' \ acted : \A r \in rows' : r.thing # a[2]]_listVars

\* However its source changes under a list, a verb is done to the item the user meant,
\* the body shown is that of the item expanded, and an item acted on is gone.
ListsAreTrue ==
    /\ [](ListTypeOK /\ ActsOnWhatWasMeant /\ ExpandedIsMeant)
    /\ HandledIsGone
=============================================================================
