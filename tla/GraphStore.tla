------------------------------- MODULE GraphStore -------------------------------
(***************************************************************************)
(* The shared store of the connection fabric (bridge/graph_store.py):      *)
(* processes that edit one file, live/arrangement.json, each through       *)
(* commit_actions: load, validate, apply, check, stamp the revision, write *)
(* the temporary file, replace.  Every read and write of the disk is an    *)
(* action; what runs between two of them is computed in the action before. *)
(*                                                                         *)
(* All writers name the same temporary file.  A writer's open descriptor   *)
(* follows the file it opened, so after another writer's replace it writes *)
(* into the live file, and after one more into a file that has no name.    *)
(***************************************************************************)
EXTENDS FileContent

CONSTANTS
    Writers,      \* callers of the seam: the tools of the servers on this live dir
    Batches,      \* the action batches they commit
    InitArr,      \* the arrangement on disk at the start
    Serialized,   \* TRUE: one server process, whose tool calls run one at a time
    MaxCommits,   \* bound: commit_actions calls in a behaviour
    MaxCrashes    \* bound: processes killed in a behaviour

ASSUME GraphStoreAssumption ==
    /\ ValidateArrangement(InitArr)
    /\ \A b \in Batches : IsBatch(b)
    /\ Serialized \in BOOLEAN
    /\ MaxCommits \in Nat
    /\ MaxCrashes \in Nat

VARIABLES
    live,      \* arrangement.json
    tmp,       \* arrangement.json.tmp
    pc,        \* where each writer is in commit_actions
    out,       \* the version each writer is saving
    fd,        \* what each writer's open descriptor points to
    solo,      \* history: no other call has overlapped this one
    base,      \* history: the live file each writer loaded
    acked,     \* history: the nodes a commit has answered ok for
    commits, crashes

vars == <<live, tmp, pc, out, fd, solo, base, acked, commits, crashes>>

\* A write at offset 0 over what another writer has put there since this one
\* truncated the file leaves the longer text's tail behind, or none.
Overlay(old, new) == IF old.state = "created" THEN {new} ELSE {new, Torn}

\* Mutant: the batch's own references are checked, its result is not.
AcceptedUnchecked(arr, b) ==
    \A k \in 1 .. Len(b) : Admissible(Known(arr, b, k), b[k])

\* What commit_actions decides from the arrangement it loaded.
Accepted(arr, b) == ValidateActions(arr, b) /\ ValidateArrangement(Apply(arr, b))

Later(r, s) == IF r > s THEN r ELSE s

Idle(w) == pc[w] = "idle"

Init ==
    /\ live \in {Absent, Whole(InitArr, 1)}
    /\ tmp  = Absent
    /\ pc   = [w \in Writers |-> "idle"]
    /\ out  = [w \in Writers |-> Absent]
    /\ fd   = [w \in Writers |-> "none"]
    /\ solo = [w \in Writers |-> FALSE]
    /\ base = [w \in Writers |-> Absent]
    /\ acked = {}
    /\ commits = 0
    /\ crashes = 0

\* A refused batch returns here and leaves no trace: only accepted ones go on.
Load(w, b) ==
    /\ Idle(w)
    /\ Serialized => \A v \in Writers : Idle(v)
    /\ commits < MaxCommits
    /\ Accepted(live.arr, b)
    /\ pc'   = [pc EXCEPT ![w] = "stamp"]
    /\ out'  = [out EXCEPT ![w] = Whole(Apply(live.arr, b), live.rev)]
    /\ solo' = IF \A v \in Writers : Idle(v) THEN [solo EXCEPT ![w] = TRUE]
               ELSE [v \in Writers |-> FALSE]
    /\ base' = [base EXCEPT ![w] = live]
    /\ commits' = commits + 1
    /\ UNCHANGED <<live, tmp, fd, acked, crashes>>

\* Mutant: the revision is copied, not advanced.
StampCopied(w) ==
    /\ pc[w] = "stamp"
    /\ pc'  = [pc EXCEPT ![w] = "open"]
    /\ out' = [out EXCEPT ![w] = Whole(@.arr, Later(live.rev, @.rev))]
    /\ UNCHANGED <<live, tmp, fd, solo, base, acked, commits, crashes>>

\* save() reads the revision on disk again.
Stamp(w) ==
    /\ pc[w] = "stamp"
    /\ pc'  = [pc EXCEPT ![w] = "open"]
    /\ out' = [out EXCEPT ![w] = Whole(@.arr, Later(live.rev, @.rev) + 1)]
    /\ UNCHANGED <<live, tmp, fd, solo, base, acked, commits, crashes>>

\* Mutant: the temporary file is opened without truncating it.
OpenKept(w) ==
    /\ pc[w] = "open"
    /\ pc'  = [pc EXCEPT ![w] = "write"]
    /\ fd'  = [fd EXCEPT ![w] = "tmp"]
    /\ tmp' = IF tmp = Absent THEN Created ELSE tmp
    /\ UNCHANGED <<live, out, solo, base, acked, commits, crashes>>

\* Mutant: the live file is written in place.
OpenLive(w) ==
    /\ pc[w] = "open"
    /\ pc'  = [pc EXCEPT ![w] = "write"]
    /\ fd'  = [fd EXCEPT ![w] = "live"]
    /\ live' = Created
    /\ UNCHANGED <<tmp, out, solo, base, acked, commits, crashes>>

OpenTmp(w) ==
    /\ pc[w] = "open"
    /\ pc'  = [pc EXCEPT ![w] = "write"]
    /\ fd'  = [fd EXCEPT ![w] = "tmp"]
    /\ tmp' = Created
    /\ UNCHANGED <<live, out, solo, base, acked, commits, crashes>>

WriteTmp(w) ==
    /\ pc[w] = "write"
    /\ pc'   = [pc EXCEPT ![w] = "replace"]
    /\ fd'   = [fd EXCEPT ![w] = "none"]
    /\ tmp'  \in IF fd[w] = "tmp"  THEN Overlay(tmp, out[w])  ELSE {tmp}
    /\ live' \in IF fd[w] = "live" THEN Overlay(live, out[w]) ELSE {live}
    /\ UNCHANGED <<out, solo, base, acked, commits, crashes>>

\* What a replace does to the descriptors that are open on either file.
Moved(f) == IF f = "tmp" THEN "live" ELSE IF f = "live" THEN "gone" ELSE f

Return(w) ==
    /\ pc'   = [pc EXCEPT ![w] = "idle"]
    /\ out'  = [out EXCEPT ![w] = Absent]
    /\ solo' = [solo EXCEPT ![w] = FALSE]
    /\ base' = [base EXCEPT ![w] = Absent]

Replace(w) ==
    /\ pc[w] = "replace"
    /\ tmp # Absent
    /\ live' = tmp
    /\ tmp'  = Absent
    /\ fd'   = [v \in Writers |-> Moved(fd[v])]
    /\ acked' = acked \cup out[w].arr.nodes
    /\ Return(w)
    /\ UNCHANGED <<commits, crashes>>

\* Another writer has renamed the file away: FileNotFoundError to the caller.
ReplaceFails(w) ==
    /\ pc[w] = "replace"
    /\ tmp = Absent
    /\ Return(w)
    /\ UNCHANGED <<live, tmp, fd, acked, commits, crashes>>

\* Mutant: the descriptor outlives its process.
CrashLeaks(w) ==
    /\ ~Idle(w)
    /\ crashes < MaxCrashes
    /\ crashes' = crashes + 1
    /\ Return(w)
    /\ UNCHANGED <<live, tmp, fd, acked, commits>>

\* The process dies.  What it had put on disk stays there.
Crash(w) ==
    /\ ~Idle(w)
    /\ crashes < MaxCrashes
    /\ fd' = [fd EXCEPT ![w] = "none"]
    /\ crashes' = crashes + 1
    /\ Return(w)
    /\ UNCHANGED <<live, tmp, acked, commits>>

Step(w) == Stamp(w) \/ OpenTmp(w) \/ WriteTmp(w) \/ Replace(w) \/ ReplaceFails(w)

Next ==
    \E w \in Writers : \/ \E b \in Batches : Load(w, b)
                       \/ Step(w)
                       \/ Crash(w)

Spec == Init /\ [][Next]_vars

-----------------------------------------------------------------------------

(***************************************************************************)
(* The variables have their types, an open descriptor belongs to a writer  *)
(* that is about to write, and an idle writer holds nothing.               *)
(***************************************************************************)
TypeOK ==
    /\ IsFile(live) /\ IsFile(tmp)
    /\ pc \in [Writers -> {"idle", "stamp", "open", "write", "replace"}]
    /\ fd \in [Writers -> {"none", "tmp", "live", "gone"}]
    /\ solo \in [Writers -> BOOLEAN]
    /\ commits \in 0 .. MaxCommits /\ crashes \in 0 .. MaxCrashes
    /\ DOMAIN out = Writers /\ DOMAIN base = Writers
    /\ \A w \in Writers :
          /\ IsFile(base[w])
          /\ IF Idle(w) THEN out[w] = Absent
             ELSE out[w].rev \in Nat /\ out[w] = Whole(out[w].arr, out[w].rev)
          /\ fd[w] # "none" <=> pc[w] = "write"

(***************************************************************************)
(* Whatever the interleaving and wherever a process dies, an arrangement   *)
(* that can be read from either file is sound: no wire or tip without its  *)
(* node, no cycle of parents (validate_arrangement before every save).     *)
(***************************************************************************)
PublishedSound ==
    ValidateArrangement(live.arr) /\ ValidateArrangement(tmp.arr)

(***************************************************************************)
(* commit_actions is conflict-safe when nothing overlaps it, whatever      *)
(* earlier calls, overlaps and crashes left behind: the file is still the  *)
(* one it loaded when it replaces it, what it publishes is the batch       *)
(* applied to that, under the next revision, and the replace cannot fail.  *)
(***************************************************************************)
UncontendedIsExact ==
    [][\A w \in Writers : solo[w] =>
          /\ Replace(w) => /\ live = base[w]
                           /\ live' = out[w]
                           /\ live'.rev = live.rev + 1
                           /\ Extends(live'.arr, live.arr)
          /\ ~ReplaceFails(w)]_vars

(***************************************************************************)
(* What the connection contract promises of every commit.                  *)
(***************************************************************************)

\* A node a commit answered ok for stays in the file ("a concurrent edit by
\* another system is never clobbered", commit_actions).
AckedKept == acked \subseteq live.arr.nodes

\* A reader finds a whole arrangement or, before the first commit, no file
\* ("the result is written atomically (tmp+os.replace)", the contract's step 2).
LiveReadable == live.state \in {"absent", "whole"}

\* From one readable version to the next the revision grows ("it never goes
\* backwards even across concurrent writers", save).
RevMonotone ==
    [][live.state = "whole" /\ live'.state = "whole" /\ live' # live
          => live'.rev > live.rev]_vars

\* When calls do not overlap, the file is the abstract append-only graph.
Graph == INSTANCE AppendOnlyGraph WITH graph <- live.arr, rev <- live.rev
AppendOnly == Graph!Spec
=============================================================================
