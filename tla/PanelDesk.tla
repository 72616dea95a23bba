------------------------------- MODULE PanelDesk -------------------------------
(***************************************************************************)
(* The views and panels of the desktop shell (tools/workflow_gui/          *)
(* gui_shell.py, view_registry.py, widget_lock.py): which view is active,  *)
(* where its panel lies, and the gestures and text commands that move,     *)
(* resize, lock, archive and restore panels.  Everything runs in the one   *)
(* Tk thread, but a gesture is three events and the text commands fall     *)
(* between them.  One axis is modelled; the other is handled alike.  A     *)
(* view's panel has its name; every view is a list.                        *)
(***************************************************************************)
EXTENDS Integers, FiniteSets, FiniteSetsExt

CONSTANTS
    Views,        \* 1 .. n in display order; the first is DEFAULT_TAB
    ExtraPanels,  \* panels that back no view
    Grid,         \* SNAP_GRID_PX
    MinSize,      \* the least width of a panel
    StartSize,    \* the width of a new one
    Cursor,       \* how far the mouse may be from where the gesture began
    Targets,      \* coordinates and widths the text commands give
    MaxPos        \* bound: coordinates and widths

ASSUME DeskAssumption ==
    /\ Views \subseteq Nat \ {0} /\ 1 \in Views /\ 0 \notin ExtraPanels
    /\ IsFiniteSet(Views) /\ IsFiniteSet(ExtraPanels)
    /\ Grid \in Nat \ {0}
    /\ {MinSize, StartSize} \subseteq Nat /\ MinSize <= StartSize
    /\ Cursor \subseteq Int /\ Targets \subseteq Int

VARIABLES
    registered, \* ViewRegistry: the views
    hidden,     \* those archived in it
    active,     \* active_tab
    handles,    \* _panel_handles
    locked,     \* WidgetLock: the locked widgets
    shown,      \* _panel_widgets: the panels last rendered
    host,       \* the frame the panels are placed in
    drag        \* _panel_drag: the gesture in progress

deskVars == <<registered, hidden, active, handles, locked, shown, host, drag>>

Panels   == Views \cup ExtraPanels
Default  == 1
NoView   == 0
NoHandle == [known |-> FALSE, pos |-> 0, size |-> 0, archived |-> FALSE]
NoDrag   == [kind |-> "none", panel |-> 0, origin |-> 0]

VisibleViews == registered \ hidden
WithHandle == {p \in Panels : handles[p].known}
Free(p) == p \notin locked

--------------------------------------------------------------------------------
\* Geometry

\* Python's round: to the nearest, a half to the even one.
Rounded(v, g) ==
    LET q == v \div g   r == v % g IN
    IF 2 * r < g \/ (2 * r = g /\ q % 2 = 0) THEN q ELSE q + 1

snap_to_grid(v) == Rounded(v, Grid) * Grid

Floored(v, least) == IF v < least THEN least ELSE v

Distance(a, b) == IF a < b THEN b - a ELSE a - b

\* The four alignments with the edges of each peer that is not archived.
Candidates(p) ==
    UNION {LET q == handles[peer] IN
           {q.pos, q.pos - handles[p].size, q.pos + q.size, q.pos + q.size - handles[p].size} :
             peer \in {k \in WithHandle \ {p} : ~handles[k].archived}}

\* The nearest alignments within a grid's distance.
Alignments(p, x) ==
    LET near == {c \in Candidates(p) : Distance(c, x) <= Grid}
    IN {c \in near : \A d \in near : Distance(c, x) <= Distance(d, x)}

\* _compute_snap; which of two equally near wins depends on the dict's order.
Snaps(p, x) ==
    IF Alignments(p, x) = {} THEN {Floored(x, 0)} ELSE {Floored(c, 0) : c \in Alignments(p, x)}

--------------------------------------------------------------------------------
\* Views

\* _ensure_panel_handle; new panels are staggered.
Ensured(hs, p) ==
    LET offset == 2 * Grid * Cardinality({k \in Panels : hs[k].known}) IN
    IF hs[p].known THEN hs
    ELSE [hs EXCEPT ![p] = [known |-> TRUE, pos |-> snap_to_grid(offset),
                            size |-> StartSize, archived |-> FALSE]]

DeskInit ==
    /\ registered \in SUBSET Views /\ Default \in registered
    /\ hidden = {}
    /\ active = Default
    /\ handles = Ensured([p \in Panels |-> NoHandle], Default)
    /\ locked = {}
    /\ shown = {Default}
    /\ host = "up"
    /\ drag = NoDrag

\* select_tab and _render_active_tab: the view becomes the active one, then the
\* panels in the host are destroyed and its own is made; without a host this raises.
Selected(v, hs) ==
    /\ active' = v
    /\ IF host = "up"
       THEN shown' = {v} /\ handles' = Ensured(hs, v)
       ELSE shown' = shown /\ handles' = hs

SelectTab(v) ==
    /\ v \in VisibleViews
    /\ Selected(v, handles)
    /\ UNCHANGED <<registered, hidden, locked, host, drag>>

\* Where _archive_tab goes when it archives the active view.
Fallback(v) == IF Default \in VisibleViews \ {v} THEN Default ELSE Min(VisibleViews \ {v})

\* _archive_tab; with no alternative it destroys all the central pane holds.
ArchivesView(v, hs) ==
    /\ IF v # active
       THEN /\ handles' = hs
            /\ hidden' = hidden \cup ({v} \cap registered)
            /\ UNCHANGED <<active, shown, host>>
       ELSE IF VisibleViews \ {v} = {}
       THEN /\ handles' = hs
            /\ hidden' = hidden \cup {v}
            /\ active' = NoView /\ host' = "gone"
            /\ UNCHANGED shown
       ELSE /\ Selected(Fallback(v), hs)
            /\ hidden' = IF host = "up" THEN hidden \cup {v} ELSE hidden
            /\ UNCHANGED host

ArchiveTab(v) ==
    /\ v \in VisibleViews
    /\ ArchivesView(v, handles)
    /\ UNCHANGED <<registered, locked, drag>>

RestoreView(v) ==
    /\ v \in hidden
    /\ hidden' = hidden \ {v}
    /\ UNCHANGED <<registered, active, handles, locked, shown, host, drag>>

SetView(v) ==
    /\ v \in registered
    /\ hidden' = hidden \ {v}
    /\ Selected(v, handles)
    /\ UNCHANGED <<registered, locked, host, drag>>

RegisterView(v) ==
    /\ v \in Views \ registered
    /\ registered' = registered \cup {v}
    /\ UNCHANGED <<hidden, active, handles, locked, shown, host, drag>>

--------------------------------------------------------------------------------
\* Panels: text commands and the context menu

MovePanel(p, x) ==
    /\ LET hs == Ensured(handles, p) IN
       handles' = IF Free(p) THEN [hs EXCEPT ![p].pos = snap_to_grid(x)] ELSE hs
    /\ UNCHANGED <<registered, hidden, active, locked, shown, host, drag>>

ResizePanel(p, w) ==
    /\ LET hs == Ensured(handles, p) IN
       handles' = IF Free(p) THEN [hs EXCEPT ![p].size = Floored(snap_to_grid(w), MinSize)] ELSE hs
    /\ UNCHANGED <<registered, hidden, active, locked, shown, host, drag>>

LockPanel(p) ==
    /\ p \in WithHandle
    /\ locked' = locked \cup {p}
    /\ UNCHANGED <<registered, hidden, active, handles, shown, host, drag>>

UnlockPanel(p) ==
    /\ p \in WithHandle
    /\ locked' = locked \ {p}
    /\ UNCHANGED <<registered, hidden, active, handles, shown, host, drag>>

\* archive_panel archives the view too, once its handle is marked.
ArchivePanel(p) ==
    LET hs == [handles EXCEPT ![p].archived = TRUE] IN
    /\ p \in WithHandle
    /\ IF p \in registered
       THEN ArchivesView(p, hs)
       ELSE handles' = hs /\ UNCHANGED <<hidden, active, shown, host>>
    /\ UNCHANGED <<registered, locked, drag>>

RestorePanel(p) ==
    /\ p \in WithHandle
    /\ handles' = [handles EXCEPT ![p].archived = FALSE]
    /\ hidden' = hidden \ {p}
    /\ UNCHANGED <<registered, active, locked, shown, host, drag>>

--------------------------------------------------------------------------------
\* Gestures on the panel that is shown

Under(p) == host = "up" /\ p \in shown

Press(p, kind) ==
    /\ Under(p)
    /\ drag' = IF ~Free(p) THEN NoDrag
               ELSE [kind |-> kind, panel |-> p,
                     origin |-> IF kind = "move" THEN handles[p].pos ELSE handles[p].size]
    /\ UNCHANGED <<registered, hidden, active, handles, locked, shown, host>>

DragStart(p)   == Press(p, "move")
ResizeStart(p) == Press(p, "resize")

Gesture(p, kind) == Under(p) /\ drag.panel = p /\ drag.kind = kind

\* Mutant: the lock is looked at when the gesture begins.
DragMotionUnasked(p, d) ==
    /\ Gesture(p, "move")
    /\ handles' = [handles EXCEPT ![p].pos = Floored(snap_to_grid(drag.origin + d), 0)]
    /\ UNCHANGED <<registered, hidden, active, locked, shown, host, drag>>

DragMotion(p, d) ==
    /\ Gesture(p, "move") /\ Free(p)
    /\ handles' = [handles EXCEPT ![p].pos = Floored(snap_to_grid(drag.origin + d), 0)]
    /\ UNCHANGED <<registered, hidden, active, locked, shown, host, drag>>

ResizeMotion(p, d) ==
    /\ Gesture(p, "resize") /\ Free(p)
    /\ handles' = [handles EXCEPT ![p].size = Floored(snap_to_grid(drag.origin + d), MinSize)]
    /\ UNCHANGED <<registered, hidden, active, locked, shown, host, drag>>

\* The release of either gesture snaps to the peers, unless there are none.
Release(p) ==
    /\ Under(p)
    /\ drag' = NoDrag
    /\ IF drag.panel = p /\ Free(p) /\ Candidates(p) # {}
       THEN \E x \in Snaps(p, handles[p].pos) : handles' = [handles EXCEPT ![p].pos = x]
       ELSE UNCHANGED handles
    /\ UNCHANGED <<registered, hidden, active, locked, shown, host>>

InBounds == \A p \in Panels : handles'[p].pos \in -MaxPos .. MaxPos /\ handles'[p].size <= MaxPos

DeskNext ==
    /\ \/ \E v \in Views :
            \/ SelectTab(v) \/ ArchiveTab(v) \/ RestoreView(v) \/ SetView(v) \/ RegisterView(v)
       \/ \E p \in Panels :
            \/ LockPanel(p) \/ UnlockPanel(p) \/ ArchivePanel(p) \/ RestorePanel(p)
            \/ DragStart(p) \/ ResizeStart(p) \/ Release(p)
            \/ \E x \in Targets : MovePanel(p, x) \/ ResizePanel(p, x)
            \/ \E d \in Cursor : DragMotion(p, d) \/ ResizeMotion(p, d)
    /\ InBounds

DeskSpec == DeskInit /\ [][DeskNext]_deskVars

--------------------------------------------------------------------------------
\* The state is what the code makes of it.
DeskTypeOK ==
    /\ hidden \subseteq registered /\ registered \subseteq Views
    /\ locked \subseteq WithHandle /\ shown \subseteq WithHandle
    /\ \A p \in WithHandle : handles[p].size >= MinSize
    /\ drag.kind \in {"none", "move", "resize"} /\ (drag.kind # "none" => drag.panel \in WithHandle)

\* Whatever is archived or restored, from a menu, the sidebar or the text
\* commands, the active view is a visible one or none (_archive_tab's comment).
ActiveIsVisible == active = NoView \/ active \in VisibleViews

\* Until the last visible view is archived, the panel in the host is the active
\* view's, with a handle.
ActiveIsShown == host = "up" => shown = {active} /\ active \in WithHandle

\* A locked panel keeps its place and size, also when it is locked in the middle
\* of a gesture (_on_panel_drag_motion, _apply_peer_snap).
LockedStays ==
    [][\A p \in locked \cap locked' :
          handles'[p].pos = handles[p].pos /\ handles'[p].size = handles[p].size]_deskVars

\* A release moves a panel by no more than the grid, onto an edge of a peer or
\* the edge of the pane, and a second release would leave it there.
SnapSettles ==
    [][\A p \in Panels :
          LET was == handles[p].pos   is == handles'[p].pos IN
          Gesture(p, drag.kind) /\ drag' = NoDrag /\ is # was =>
              /\ Distance(is, was) <= Grid \/ was < 0
              /\ is \in Candidates(p) \cup {0}
              /\ is \in Candidates(p) => Snaps(p, is) = {is}]_deskVars

\* restore_panel brings the view of an archived panel back with it.
RestoredIsVisible ==
    [][\A p \in registered : handles[p].archived /\ ~handles'[p].archived => p \notin hidden']_deskVars

\* set_view's docstring: the named view is restored first "so the switch always
\* succeeds when the view is registered" (gui_shell.py:1256).
SwitchSucceeds == active # NoView => host = "up" /\ shown = {active}

\* snap_to_grid's docstring: "Negative values round toward 0" (gui_shell.py:340).
NegativeRoundsToZero == \A v \in Targets : v \in -Grid .. -1 => snap_to_grid(v) = 0

\* Through tabs, archives and gestures in any order the desk shows the active view,
\* which is a visible one; locks hold, snapping settles, and what is restored is seen.
DeskIsSound ==
    /\ [](DeskTypeOK /\ ActiveIsVisible /\ ActiveIsShown)
    /\ LockedStays
    /\ SnapSettles
    /\ RestoredIsVisible
=============================================================================
