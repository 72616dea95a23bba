----------------------------- MODULE PanelPositions -----------------------------
(***************************************************************************)
(* The panel positioner: one node keeps where every panel is, and the tabs *)
(* of the page, threads over one engine, register, move, resize, lock,     *)
(* archive and snap panels without a lock of their own.  A call fetches    *)
(* the panel's record, or makes one, and then works on that record, even   *)
(* if another call that found none has put its own in the place since.     *)
(*                                                                         *)
(* One of the two axes is kept: they do not affect each other.             *)
(***************************************************************************)
EXTENDS Integers

CONSTANTS
    PanelIds,   \* panel ids
    Tabs,       \* the threads that call
    SnapGrid,   \* snap_grid_px, and peer_snap_distance
    LeastSize,  \* min_size_px
    FirstSize,  \* the size of a panel a call other than register makes
    Asked,      \* the positions and sizes asked for
    MaxCalls    \* bound: calls

ASSUME PlacesAssumption ==
    /\ PanelIds # {}
    /\ SnapGrid \in Nat \ {0} /\ Asked \subseteq Int
    /\ {LeastSize, FirstSize} \subseteq Nat /\ LeastSize <= FirstSize

VARIABLES
    panels,    \* the record of each panel, with the number of records made before it
    call,      \* the call each tab is in
    promised,  \* history: a lock was answered and no unlock has begun since
    replaced,  \* history: panels whose record another one has replaced
    calls

placeVars == <<panels, call, promised, replaced, calls>>

Verbs == {"register", "move", "resize", "lock", "unlock", "archive", "unarchive", "snap"}
NoPanel == [made |-> 0, x |-> 0, w |-> FirstSize, locked |-> FALSE, archived |-> FALSE]
NoCall == [at |-> "idle", verb |-> "move", panel |-> CHOOSE p \in PanelIds : TRUE,
           x |-> 0, w |-> 0, made |-> 0, crossed |-> FALSE]

PlacesInit ==
    /\ panels = [p \in PanelIds |-> NoPanel]
    /\ call = [t \in Tabs |-> NoCall]
    /\ promised = {} /\ replaced = {} /\ calls = 0

HasRecord(p) == panels[p].made > 0
Rec(t) == call[t].panel
Current(t) == call[t].made = panels[Rec(t)].made
At(t, where) == call[t].at = where

\* Python rounds half to even.
OnGrid(n) ==
    LET q == n \div SnapGrid
        r == 2 * (n % SnapGrid)
    IN  SnapGrid * (IF r > SnapGrid \/ (r = SnapGrid /\ q % 2 = 1) THEN q + 1 ELSE q)

Width(w) == IF OnGrid(w) < LeastSize THEN LeastSize ELSE OnGrid(w)

-----------------------------------------------------------------------------

Others(t, p) == {u \in Tabs \ {t} : ~At(u, "idle") /\ Rec(u) = p}

\* _ensure_panel finds the record or goes on to make one; snap does not make any.
Fetch(t, verb, p, x, w) ==
    /\ At(t, "idle") /\ calls < MaxCalls
    /\ calls' = calls + 1
    /\ call' = [u \in Tabs |->
         IF u = t
         THEN [at |-> IF HasRecord(p) THEN "check" ELSE IF verb = "snap" THEN "idle" ELSE "insert",
               verb |-> verb, panel |-> p, x |-> x, w |-> w, made |-> panels[p].made,
               crossed |-> verb = "lock" /\ \E v \in Others(t, p) : call[v].verb = "unlock"]
         ELSE IF verb = "unlock" /\ u \in Others(t, p) /\ call[u].verb = "lock"
         THEN [call[u] EXCEPT !.crossed = TRUE] ELSE call[u]]
    /\ promised' = IF verb = "unlock" THEN promised \ {p} ELSE promised
    /\ UNCHANGED <<panels, replaced>>

\* A registered panel has the size asked for, as it is, until it is written below.
Insert(t) ==
    /\ At(t, "insert")
    /\ LET p == Rec(t)
           made == panels[p].made + 1
       IN  /\ panels' = [panels EXCEPT ![p] = [NoPanel EXCEPT !.made = made,
                              !.w = IF call[t].verb = "register" THEN call[t].w ELSE FirstSize]]
           /\ call' = [call EXCEPT ![t].at = "check", ![t].made = made]
           /\ replaced' = IF HasRecord(p) THEN replaced \cup {p} ELSE replaced
    /\ UNCHANGED <<promised, calls>>

Apart(a, b) == IF a < b THEN b - a ELSE a - b

\* _compute_peer_snap: the alignments with the edges of the peers, the nearest
\* within the grid's distance.
Peers(p) == {q \in PanelIds \ {p} : HasRecord(q) /\ ~panels[q].archived}

Aligned(p) ==
    UNION {{panels[q].x, panels[q].x - panels[p].w, panels[q].x + panels[q].w,
            panels[q].x + panels[q].w - panels[p].w} : q \in Peers(p)}

PeerSnaps(p) ==
    LET near == {c \in Aligned(p) : Apart(c, panels[p].x) <= SnapGrid}
        best == {c \in near : \A d \in near : Apart(c, panels[p].x) <= Apart(d, panels[p].x)}
    IN  {IF c < 0 THEN 0 ELSE c : c \in IF best = {} THEN {panels[p].x} ELSE best}

Declined(t) ==
    \/ call[t].verb \in {"move", "resize", "snap"} /\ Current(t) /\ panels[Rec(t)].locked
    \/ call[t].verb = "snap" /\ Peers(Rec(t)) = {}

\* What is to be written is computed here.
Check(t) ==
    /\ At(t, "check")
    /\ \E x \in IF call[t].verb = "snap" /\ ~Declined(t) THEN PeerSnaps(Rec(t)) ELSE {OnGrid(call[t].x)} :
          call' = [call EXCEPT ![t].at = IF Declined(t) THEN "return" ELSE "write", ![t].x = x]
    /\ UNCHANGED <<panels, promised, replaced, calls>>

\* Mutant: lock and unlock turn the lock over.
ChangedOver(t, r) ==
    CASE call[t].verb \in {"register", "move", "snap"} -> [r EXCEPT !.x = call[t].x]
      [] call[t].verb = "resize" -> [r EXCEPT !.w = Width(call[t].w)]
      [] call[t].verb \in {"lock", "unlock"} -> [r EXCEPT !.locked = ~@]
      [] OTHER -> [r EXCEPT !.archived = call[t].verb = "archive"]

Changed(t, r) ==
    CASE call[t].verb \in {"register", "move", "snap"} -> [r EXCEPT !.x = call[t].x]
      [] call[t].verb = "resize" -> [r EXCEPT !.w = Width(call[t].w)]
      [] call[t].verb \in {"lock", "unlock"} -> [r EXCEPT !.locked = call[t].verb = "lock"]
      [] OTHER -> [r EXCEPT !.archived = call[t].verb = "archive"]

\* Into the record the call holds; register writes the size as well, after it.
WriteIn(t) ==
    /\ At(t, "write")
    /\ panels' = IF Current(t) THEN [panels EXCEPT ![Rec(t)] = Changed(t, @)] ELSE panels
    /\ call' = [call EXCEPT ![t].at = IF call[t].verb = "register" THEN "size" ELSE "return"]
    /\ UNCHANGED <<promised, replaced, calls>>

WriteSize(t) ==
    /\ At(t, "size")
    /\ panels' = IF Current(t) THEN [panels EXCEPT ![Rec(t)].w = Width(call[t].w)] ELSE panels
    /\ call' = [call EXCEPT ![t].at = "return"]
    /\ UNCHANGED <<promised, replaced, calls>>

InCall(t) == ~At(t, "idle")

Return(t) ==
    /\ At(t, "return")
    /\ LET holds == call[t].verb = "lock" /\ ~call[t].crossed
       IN  /\ promised' = IF holds THEN promised \cup {Rec(t)} ELSE promised
           /\ call' = [u \in Tabs |-> IF u = t THEN NoCall
                                      ELSE IF holds /\ u \in Others(t, Rec(t))
                                      THEN [call[u] EXCEPT !.crossed = TRUE] ELSE call[u]]
    /\ UNCHANGED <<panels, replaced, calls>>

PlacesNext ==
    \E t \in Tabs :
        \/ \E p \in PanelIds, n \in Asked :
             Fetch(t, "register", p, n, n) \/ Fetch(t, "move", p, n, 0) \/ Fetch(t, "resize", p, 0, n)
        \/ \E p \in PanelIds, v \in Verbs \ {"register", "move", "resize"} : Fetch(t, v, p, 0, 0)
        \/ Insert(t) \/ Check(t) \/ WriteIn(t) \/ WriteSize(t) \/ Return(t)

PlacesSpec == PlacesInit /\ [][PlacesNext]_placeVars

-----------------------------------------------------------------------------

PlacesTypeOK ==
    /\ \A p \in PanelIds : panels[p].made \in Nat /\ {panels[p].x, panels[p].w} \subseteq Int
    /\ \A t \in Tabs :
        /\ call[t].verb \in Verbs /\ Rec(t) \in PanelIds
        /\ call[t].at \in {"check", "write", "size", "return"} => call[t].made > 0
    /\ promised \subseteq PanelIds /\ replaced \subseteq PanelIds

(***************************************************************************)
(* A lock that was answered is there until somebody asks to unlock the     *)
(* panel, whatever other calls are in progress, unless two first calls     *)
(* made the panel's record twice and one of the records went with the lock.*)
(***************************************************************************)
LockIsKept == \A p \in promised \ replaced : panels[p].locked

(***************************************************************************)
(* Such a panel stays where it is and as large as it is ("lock a panel     *)
(* (refuse move/resize)"): only a call that had begun before the lock was  *)
(* answered still moves it, and register, which does not ask.              *)
(***************************************************************************)
PromiseHolds ==
    [][\A p \in promised \ replaced :
        <<panels'[p].x, panels'[p].w>> # <<panels[p].x, panels[p].w>> =>
            \E t \in Tabs : /\ InCall(t) /\ Rec(t) = p
                            /\ call[t].crossed \/ call[t].verb = "register"]_placeVars

(***************************************************************************)
(* When nobody is at work every panel is of a size the positioner gives:   *)
(* no size that was asked for is left as it was, however the two halves of *)
(* a registration and other calls interleave.                              *)
(***************************************************************************)
SizesAreSound ==
    (\A t \in Tabs : ~InCall(t)) =>
        \A p \in PanelIds : HasRecord(p) =>
            /\ panels[p].w >= LeastSize
            /\ panels[p].w % SnapGrid = 0 \/ panels[p].w \in {LeastSize, FirstSize}

(***************************************************************************)
(* A lock that was answered is there until somebody asks to unlock the     *)
(* panel, also when two calls found no record at once.                     *)
(***************************************************************************)
AnsweredLockHolds == \A p \in promised : panels[p].locked

\* Between calls every panel has a size the positioner gives, and a lock that was
\* answered is kept, and keeps its panel where it is.
PositionsAreSound ==
    /\ [](PlacesTypeOK /\ LockIsKept /\ SizesAreSound)
    /\ PromiseHolds
=============================================================================
