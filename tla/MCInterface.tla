----------------------------- MODULE MCInterface -----------------------------
(***************************************************************************)
(* The interface: desk, positions, controls, lists and the timeline. They  *)
(* share no state, so a behaviour of all of them together is one of each;  *)
(* the run takes one at a time: `part` says which, and the others stay as  *)
(* they begin.                                                             *)
(***************************************************************************)
EXTENDS PanelDesk, PanelPositions, Timeline, ItemList, Controls

CONSTANTS t1, t2

VARIABLE part

allVars == <<part, deskVars, placeVars, controlVars, listVars, timelineVars>>

\* Ranges that their step does not divide, that are empty or the wrong way round.
MCRanges == {[min |-> 0, max |-> 5, value |-> 0, step |-> 2],
             [min |-> 3, max |-> -4, value |-> 9, step |-> 4],
             [min |-> 1, max |-> 1, value |-> 0, step |-> -1]}

MCValues == {-3, 2, 4, 5, 9}

MCDefaults == <<2, 1, 1>>
MCWindows == {<<>>, <<0>>, <<1, 1, 0>>, <<4, 0, 1>>, <<1, -1, 1>>}
MCScrolls == {-1, 1, 9}
MCAsked == {-1, 3}
MCCursor == {-2, 3}

\* What a caller of the timeline has for the ids: the nodes, none, one for both.
MCFetches == {[i \in {"a", "b"} |-> i], [i \in {"a", "b"} |-> "none"], [i \in {"a", "b"} |-> "b"]}

MCSender == [x \in {"m", "n", "o"} |-> IF x = "o" THEN "bo" ELSE "al"]

-----------------------------------------------------------------------------

AllInit ==
    /\ part \in {"desk", "place", "control", "list", "timeline"}
    /\ DeskInit
    /\ part # "desk" => registered = {1}
    /\ PlacesInit
    /\ ControlInit
    /\ part # "control" => type = "Terminal"
    /\ ListInit
    /\ TimelineInit
    /\ part # "timeline" => named = "both"

AllNext ==
    /\ UNCHANGED part
    /\ \/ /\ part = "desk" /\ DeskNext
          /\ UNCHANGED <<placeVars, controlVars, listVars, timelineVars>>
       \/ /\ part = "place" /\ PlacesNext
          /\ UNCHANGED <<deskVars, controlVars, listVars, timelineVars>>
       \/ /\ part = "control" /\ ControlNext
          /\ UNCHANGED <<deskVars, placeVars, listVars, timelineVars>>
       \/ /\ part = "list" /\ ListNext
          /\ UNCHANGED <<deskVars, placeVars, controlVars, timelineVars>>
       \/ /\ part = "timeline" /\ TimelineNext
          /\ UNCHANGED <<deskVars, placeVars, controlVars, listVars>>

AllSpec == AllInit /\ [][AllNext]_allVars
=============================================================================
