------------------------------ MODULE FileContent ------------------------------
(***************************************************************************)
(* What a file that holds an arrangement can contain, as its readers tell  *)
(* it apart: graph_store.load reads anything but a whole arrangement as    *)
(* the empty one, without a revision; LiveHost and the editor parse the    *)
(* text and give up on it.                                                 *)
(***************************************************************************)
EXTENDS Arrangement

Unreadable(s) == [state |-> s, arr |-> EmptyArr, rev |-> 0]
Absent  == Unreadable("absent")
Created == Unreadable("created")    \* just truncated, nothing written yet
Torn    == Unreadable("torn")       \* part of a text, or one over another
Whole(arr, rev) == [state |-> "whole", arr |-> arr, rev |-> rev]

IsFile(f) ==
    /\ f.rev \in Nat
    /\ f \in {Absent, Created, Torn} \/ f = Whole(f.arr, f.rev)
=============================================================================
