-------------------------------- MODULE Timeline --------------------------------
(***************************************************************************)
(* The timeline of the workflow surface.  A view in the substrate holds    *)
(* positions, to which entries are appended; the WorkflowView node mirrors *)
(* it when the scene is precomputed (node_types/workflow_view.py); the     *)
(* panel shows a window of the mirror (renderers/sliding_window.py and     *)
(* workflow_continuous_scroll_v1.py), and callers of the renderer show one *)
(* of the view itself, with nodes they fetched.  The substrate is another  *)
(* program's: entries are appended to it, and it may be out of order.      *)
(***************************************************************************)
EXTENDS Integers, Sequences, SequencesExt

CONSTANTS
    Ids,         \* content nodes
    Defaults,    \* the window if none is asked for: visible, above, below
    Windows,     \* windows that are asked for, as lists of numbers
    Scrolls,     \* positions of the scroll bar, in heights of a node
    Fetches,     \* the nodes that callers have for the ids
    MaxEntries, MaxForms  \* bounds

ASSUME TimelineAssumption ==
    /\ Defaults \in Nat \X Nat \X Nat
    /\ Windows \subseteq Seq(Int) /\ Scrolls \subseteq Int
    /\ MaxEntries \in Nat

VARIABLES
    named,    \* what the scene says of the view: "none", "name" or "both"
    form,     \* what the substrate has under the name
    entries,  \* the positions of the last version, oldest first
    cache,    \* engine.cache of the WorkflowView node
    page,     \* what is rendered at this moment, if anything is
    stale,    \* history: the view changed since the scene was precomputed
    forms

timelineVars == <<named, form, entries, cache, page, stale, forms>>

Malformed   == "malformed"   \* an entry that is no object, or has no node_id
NoBody == "none"        \* a node that was not fetched
Forms  == {"whole", "absent", "branched", "spoilt"}
Entry  == [id : Ids, ref : BOOLEAN] \cup {[id |-> Malformed, ref |-> FALSE]}

Empty(e) == [positions |-> <<>>, error |-> e]
NoPage   == [kind |-> "none"]

TimelineInit ==
    /\ named \in {"none", "name", "both"}
    /\ form = "whole" /\ entries = <<>>
    /\ cache = Empty(named = "name")   \* of a scene that was loaded, with an empty view
    /\ page = NoPage
    /\ stale = FALSE /\ forms = 0

--------------------------------------------------------------------------------
\* The substrate: an id may be appended again if it names what it supersedes.
Append1(e) ==
    /\ Len(entries) < MaxEntries
    /\ e.ref \/ e.id = Malformed \/ \A i \in DOMAIN entries : entries[i].id # e.id
    /\ entries' = Append(entries, e)
    /\ stale' = TRUE
    /\ page' = NoPage /\ UNCHANGED <<named, form, cache, forms>>

Form(f) ==
    /\ f # form /\ forms < MaxForms
    /\ form' = f /\ forms' = forms + 1
    /\ stale' = TRUE
    /\ page' = NoPage /\ UNCHANGED <<named, entries, cache>>

\* precompute_hook: a view that cannot be resolved, or is not in shape, leaves no
\* positions and an error; without a name there is nothing to mirror.
Precompute ==
    /\ cache' = IF named = "none" THEN Empty(FALSE)
                ELSE IF named = "name" \/ form # "whole" THEN Empty(TRUE)
                ELSE [positions |-> entries, error |-> FALSE]
    /\ stale' = FALSE
    /\ page' = NoPage
    /\ UNCHANGED <<named, form, entries, forms>>

--------------------------------------------------------------------------------
\* sliding_window.py.  Indexes are those of the code: the first entry is 0.

\* parse_window_param and _validate_window_triple, for lists of numbers.
Parses(w) == Len(w) \in {0, 1, 3} /\ \A i \in DOMAIN w : w[i] >= 0
Window(w) == CASE Len(w) = 0 -> Defaults
               [] Len(w) = 1 -> <<w[1], Defaults[2], Defaults[3]>>
               [] OTHER -> w

Clamp(i, n) == IF i < 0 THEN 0 ELSE IF i >= n THEN n - 1 ELSE i
Least(a, b) == IF a < b THEN a ELSE b
Most(a, b)  == IF a > b THEN a ELSE b

AtEnd       == [by |-> "end"]
AtAnchor(i) == [by |-> "anchor", id |-> i]
AtScroll(y) == [by |-> "scroll", y |-> y]

Found(pos, at) == at.by = "anchor" => \E i \in DOMAIN pos : pos[i].id = at.id

\* The first entry of an id, and the last.
FirstOf(pos, id) == CHOOSE i \in DOMAIN pos :
    pos[i].id = id /\ \A j \in DOMAIN pos : pos[j].id = id => i <= j
LastOf(pos, id) == CHOOSE i \in DOMAIN pos :
    pos[i].id = id /\ \A j \in DOMAIN pos : pos[j].id = id => j <= i

\* _resolve_anchor_index, of positions that are not empty: the first of its id.
Center(pos, at) ==
    CASE at.by = "end" -> Len(pos) - 1
      [] at.by = "scroll" -> Clamp(at.y, Len(pos))
      [] at.by = "anchor" -> FirstOf(pos, at.id) - 1

\* Mutant: at the right edge the window is cut, and not shifted.
VisibleCut(pos, at, size) ==
    LET n == Len(pos)  c == Center(pos, at)
        start == Most(0, c - (size \div 2))
    IN IF at.by = "end" THEN <<Most(0, c + 1 - size), c + 1>>
       ELSE <<start, Least(n, start + size)>>

\* select_window, the visible band: from its first index to before the second.
Visible(pos, at, size) ==
    LET n     == Len(pos)
        c     == Center(pos, at)
        first == Most(0, c - (size \div 2))
        end   == Least(n, first + size)
        start == IF end - first < size THEN Most(0, end - size) ELSE first
        band  == IF at.by = "end" THEN <<Most(0, c + 1 - size), Least(n, c + 1)>>
                                  ELSE <<start, end>>
    IN IF band[2] <= band[1] THEN <<band[1], Least(n, band[1] + 1)>> ELSE band

\* The bands: where the buffer above begins, the visible one begins and ends, and
\* the buffer below ends.
Bands(pos, at, w) ==
    LET v == Visible(pos, at, w[1]) IN
    [above |-> Most(0, v[1] - w[2]), start |-> v[1],
     end |-> v[2], below |-> Least(Len(pos), v[2] + w[3])]

\* _filter_nones: the entries of a band that have an id.
Proper(pos, from, to) == {i \in from + 1 .. to : pos[i].id # Malformed}

--------------------------------------------------------------------------------
\* workflow_continuous_scroll_v1.render

\* _render_node_box, of a node that was fetched for the id or was not; of two entries
\* with one id the last counts (_build_positions_index).
Box(pos, id, fetched) ==
    [id |-> id, body |-> fetched[id],
     kind |-> IF pos[LastOf(pos, id)].ref THEN "supersession" ELSE "original"]

\* FreezeAtAppendTimeViolation
Refused(ids, fetched, freeze) ==
    freeze /\ \E id \in ids : fetched[id] \notin {NoBody, id}

Rendered(pos, at, w, fetched, freeze) ==
    IF ~Parses(w) \/ (pos # <<>> /\ ~Found(pos, at)) THEN [kind |-> "raised"]
    ELSE IF pos = <<>> THEN [kind |-> "hint"]
    ELSE LET b    == Bands(pos, at, Window(w))
             here == Proper(pos, b.above, b.below)
         IN IF Refused({pos[i].id : i \in here}, fetched, freeze) THEN [kind |-> "refused"]
            ELSE [kind |-> "shown", pos |-> pos, at |-> at, size |-> Window(w)[1],
                  freeze |-> freeze, bands |-> b,
                  boxes |-> [i \in here |-> Box(pos, pos[i].id, fetched)]]

\* The panel fetches nothing, and shows the end of the mirror.
Panel ==
    /\ page = NoPage
    /\ page' = IF cache.error THEN [kind |-> "error"]
               ELSE Rendered(cache.positions, AtEnd, <<>>, [i \in Ids |-> NoBody], TRUE)
    /\ UNCHANGED <<named, form, entries, cache, stale, forms>>

\* Another caller asks for a window of the view, and gives nodes.
Render(w, at, fetched, freeze) ==
    /\ form = "whole" /\ page = NoPage
    /\ page' = Rendered(entries, at, w, fetched, freeze)
    /\ UNCHANGED <<named, form, entries, cache, stale, forms>>

TimelineNext ==
    \/ \E e \in Entry : Append1(e)
    \/ \E f \in Forms : Form(f)
    \/ Precompute
    \/ Panel
    \/ \E w \in Windows, fetched \in Fetches, freeze \in BOOLEAN,
          at \in {AtEnd} \cup {AtAnchor(i) : i \in Ids} \cup {AtScroll(y) : y \in Scrolls} :
             Render(w, at, fetched, freeze)

TimelineSpec == TimelineInit /\ [][TimelineNext]_timelineVars

--------------------------------------------------------------------------------
(* Properties *)

Shown == page.kind = "shown"

\* Types of the state.
TimelineTypeOK ==
    /\ named \in {"none", "name", "both"} /\ form \in Forms /\ stale \in BOOLEAN
    /\ entries \in Seq(Entry) /\ Len(entries) <= MaxEntries
    /\ cache.positions \in Seq(Entry) /\ cache.error \in BOOLEAN
    /\ page.kind \in {"none", "hint", "error", "raised", "refused", "shown"}

\* The mirror is a beginning of the view, or it is empty and says why if it was to be
\* more; if nothing changed since it was made, it is the view.
MirrorIsPrefix ==
    /\ IsPrefix(cache.positions, entries)
    /\ cache.error => cache.positions = <<>>
    /\ (~stale /\ named = "both" /\ form = "whole") => cache.positions = entries
    /\ (~stale /\ (named = "name" \/ (named = "both" /\ form # "whole"))) => cache.error

\* The visible band has as many entries as were asked for, or all there are, and the
\* one that was scrolled to or anchored is among them.
BandHoldsItsCenter ==
    (Shown /\ page.size > 0) =>
        LET b == page.bands  n == Len(page.pos) IN
        /\ b.end - b.start = IF page.at.by = "end" \/ page.size < n THEN Least(page.size, n) ELSE n
        /\ b.start <= Center(page.pos, page.at) /\ Center(page.pos, page.at) < b.end
        /\ 0 <= b.above /\ b.above <= b.start /\ b.end <= b.below /\ b.below <= n

\* Whoever scrolls from node to node sees every entry, under any window.
EveryEntryIsReached ==
    \A w \in {v \in Windows : Parses(v)} : \A i \in DOMAIN entries :
        \E y \in 0 .. Len(entries) - 1 :
            LET v == Visible(entries, AtScroll(y), Window(w)[1])
            IN v[1] < i /\ i <= v[2]

\* Under the policy, no box shows another node than the one that was appended
\* (Decision B2), and every entry in reach of the window has a box.
BodiesAreFrozen ==
    Shown =>
        /\ page.freeze => \A i \in DOMAIN page.boxes : page.boxes[i].body \in {NoBody, page.boxes[i].id}
        /\ \A i \in page.bands.start + 1 .. page.bands.end :
              page.pos[i].id # Malformed => \E j \in DOMAIN page.boxes : page.boxes[j].id = page.pos[i].id

\* The timeline shows what was appended: the mirror is a prefix of the view, windows
\* hold what was scrolled to, and bodies are those that were appended.
TimelineIsTrue ==
    TimelineTypeOK /\ MirrorIsPrefix /\ BandHoldsItsCenter /\ EveryEntryIsReached /\ BodiesAreFrozen

\* "produce a single-entry visible band at the center" (sliding_window.py:317): with a
\* window of nothing at the end of the list there is none.  It does not hold.
SomethingIsVisible == Shown => page.bands.start < page.bands.end

\* An entry that was appended first and superseded under its own id shows the marker
\* of the later one ("original-append entries get data-append-kind=original",
\* workflow_continuous_scroll_v1.py:196).  It does not hold.
KindIsItsOwn ==
    Shown => \A i \in page.bands.start + 1 .. page.bands.end :
        page.pos[i].id # Malformed =>
            \E j \in DOMAIN page.boxes :
                /\ page.boxes[j].id = page.pos[i].id
                /\ page.boxes[j].kind = IF page.pos[i].ref THEN "supersession" ELSE "original"
================================================================================
