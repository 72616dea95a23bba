-------------------------------- MODULE GraphMCP --------------------------------
(***************************************************************************)
(* The approval gate over the shared store (bridge/graph_mcp.py).  A tool  *)
(* call stages a proposal as a file of its own; another call commits it,   *)
(* re-deriving its effect from the live arrangement, and only then removes *)
(* the file; a third discards it.  A batch of actions is committed through *)
(* commit_actions; a fold or an unfold needs the base it was proposed on.  *)
(*                                                                         *)
(* A writer is one MCP server: its tools are synchronous and run one at a  *)
(* time, so calls overlap only when several servers share a live dir.      *)
(* A proposal's file is named by the hash of its content: a proposal is    *)
(* its content here, and staging it twice leaves one file.                 *)
(***************************************************************************)
EXTENDS GraphStore, ChipOps

CONSTANTS
    Folds,          \* the selections proposed for abstraction
    MaxProposals    \* bound: proposals staged in a behaviour

ASSUME GraphMCPAssumption == MaxProposals \in Nat

VARIABLES
    staged,     \* the proposal files
    job,        \* the proposal each server is committing, or NoJob
    opened,     \* the servers that have read their proposal and not yet the graph
    proposals,
    landed,     \* history: proposals whose commit has replaced the live file
    dropped     \* history: proposals discarded and not staged again

gateVars == <<staged, job, opened, proposals, landed, dropped>>
allVars  == <<vars, gateVars>>

NoJob == [kind |-> "none"]

MCPInit ==
    /\ Init
    /\ staged = {}
    /\ job = [w \in Writers |-> NoJob]
    /\ opened = {}
    /\ proposals = 0
    /\ landed = {}
    /\ dropped = {}

\* No call is running on this server, or on any if one process serves them all.
Free(w) ==
    /\ Idle(w) /\ job[w] = NoJob
    /\ Serialized => \A v \in Writers : Idle(v) /\ job[v] = NoJob

Stage(kind, delta) ==
    /\ proposals < MaxProposals
    /\ LET p == [kind |-> kind, delta |-> delta, base |-> live]
       IN  staged' = staged \cup {p} /\ dropped' = dropped \ {p}
    /\ proposals' = proposals + 1
    /\ UNCHANGED <<vars, job, opened, landed>>

\* graph_propose validates first; the structural proposals are not validated.
Propose(w, b) ==
    Free(w) /\ ValidateActions(live.arr, b) /\ Stage("actions", b)

ProposeAbstract(w, ids) == Free(w) /\ Stage("abstract", ids)

ProposeDecompose(w, id) == Free(w) /\ Stage("decompose", id)

Discard(w, p) ==
    /\ Free(w)
    /\ p \in staged
    /\ staged'  = staged \ {p}
    /\ dropped' = dropped \cup {p}
    /\ UNCHANGED <<vars, job, opened, proposals, landed>>

\* graph_commit reads the proposal first; another server may remove its file
\* after that.
OpenProposal(w, p) ==
    /\ Free(w)
    /\ p \in staged
    /\ commits < MaxCommits
    /\ job' = [job EXCEPT ![w] = p]
    /\ opened' = opened \cup {w}
    /\ UNCHANGED <<vars, staged, proposals, landed, dropped>>

\* The call returns an error and leaves the proposal where it is.
Answer(w) ==
    /\ job' = [job EXCEPT ![w] = NoJob]
    /\ opened' = opened \ {w}
    /\ UNCHANGED <<staged, proposals, landed, dropped>>

\* Mutant: the proposal's file is removed before its actions are applied.
CommitConsuming(w) ==
    /\ w \in opened /\ job[w].kind = "actions"
    /\ opened' = opened \ {w}
    /\ Load(w, job[w].delta)
    /\ staged' = staged \ {job[w]}
    /\ UNCHANGED <<job, proposals, landed, dropped>>

CommitActions(w) ==
    /\ w \in opened /\ job[w].kind = "actions"
    /\ \/ /\ Load(w, job[w].delta)
          /\ opened' = opened \ {w}
          /\ UNCHANGED <<staged, job, proposals, landed, dropped>>
       \/ /\ ~Accepted(live.arr, job[w].delta)
          /\ Answer(w)
          /\ UNCHANGED vars

\* From here to Stamp the call has computed nothing it will save.
Deriving(w) ==
    /\ pc' = [pc EXCEPT ![w] = "derive"]
    /\ commits' = commits + 1
    /\ opened' = opened \ {w}
    /\ UNCHANGED <<live, tmp, out, fd, solo, base, acked, crashes>>
    /\ UNCHANGED <<staged, job, proposals, landed, dropped>>

\* The base of a structural proposal is compared by a read of the live file ...
CheckBase(w) ==
    /\ w \in opened /\ job[w].kind # "actions"
    /\ \/ /\ job[w].base = live
          /\ commits < MaxCommits
          /\ Deriving(w)
       \/ /\ job[w].base # live
          /\ Answer(w)
          /\ UNCHANGED vars

Restructured(arr, p) ==
    IF p.kind = "abstract" THEN Group(arr, p.delta) ELSE Ungroup(arr, p.delta)

Derived(w, result) ==
    /\ pc'   = [pc EXCEPT ![w] = "stamp"]
    /\ out'  = [out EXCEPT ![w] = Whole(result, live.rev)]
    /\ base' = [base EXCEPT ![w] = live]
    /\ UNCHANGED <<live, tmp, fd, solo, acked, commits, crashes>>
    /\ UNCHANGED gateVars

Refused(w) ==
    /\ pc' = [pc EXCEPT ![w] = "idle"]
    /\ Answer(w)
    /\ UNCHANGED <<live, tmp, out, fd, solo, base, acked, commits, crashes>>

\* Mutant: the result is saved whether it is sound or not.
DeriveUnchecked(w) ==
    pc[w] = "derive" /\ Derived(w, Restructured(live.arr, job[w]))

\* ... and its effect derived from another.  An unsound result ends the call.
Derive(w) ==
    /\ pc[w] = "derive"
    /\ LET result == Restructured(live.arr, job[w])
       IN  IF ValidateArrangement(result) THEN Derived(w, result) ELSE Refused(w)

Save(w) ==
    /\ Stamp(w) \/ OpenTmp(w) \/ WriteTmp(w)
    /\ UNCHANGED gateVars

\* The call still has the proposal file to remove.
Landed(w) ==
    /\ Replace(w)
    /\ landed' = landed \cup {job[w]}
    /\ UNCHANGED <<staged, job, opened, proposals, dropped>>

\* Mutant: the exception is handled like a success.
SaveFailsConsuming(w) ==
    /\ ReplaceFails(w)
    /\ job' = [job EXCEPT ![w] = NoJob]
    /\ staged' = staged \ {job[w]}
    /\ UNCHANGED <<opened, proposals, landed, dropped>>

\* The exception leaves the call; the proposal stays staged.
SaveFails(w) == ReplaceFails(w) /\ Answer(w)

\* os.remove, which raises if the file is gone already.
Remove(w) ==
    /\ Idle(w) /\ job[w] # NoJob /\ w \notin opened
    /\ staged' = staged \ {job[w]}
    /\ job' = [job EXCEPT ![w] = NoJob]
    /\ UNCHANGED <<vars, opened, proposals, landed, dropped>>

ServerCrash(w) ==
    /\ job[w] # NoJob
    /\ crashes < MaxCrashes
    /\ crashes' = crashes + 1
    /\ fd'  = [fd EXCEPT ![w] = "none"]
    /\ Return(w)
    /\ Answer(w)
    /\ UNCHANGED <<live, tmp, acked, commits>>

MCPNext ==
    \E w \in Writers :
        \/ \E b \in Batches : Propose(w, b)
        \/ \E ids \in Folds : ProposeAbstract(w, ids)
        \/ \E n \in live.arr.nodes : IsChip(n) /\ ProposeDecompose(w, n.id)
        \/ \E p \in staged : Discard(w, p) \/ OpenProposal(w, p)
        \/ CommitActions(w) \/ CheckBase(w) \/ Derive(w)
        \/ Save(w) \/ Landed(w) \/ SaveFails(w) \/ Remove(w)
        \/ ServerCrash(w)

MCPSpec == MCPInit /\ [][MCPNext]_allVars

-----------------------------------------------------------------------------

(***************************************************************************)
(* Types: a server past its check holds a proposal, and only a proposal    *)
(* that was staged is ever landed or dropped.                              *)
(***************************************************************************)
GateTypeOK ==
    /\ proposals \in 0 .. MaxProposals
    /\ DOMAIN job = Writers
    /\ \A w \in Writers : pc[w] # "idle" => job[w] # NoJob /\ w \notin opened
    /\ opened \subseteq {w \in Writers : job[w] # NoJob}
    /\ \A p \in staged \cup landed \cup dropped :
          p.kind \in {"actions", "abstract", "decompose"}

(***************************************************************************)
(* A proposal leaves the directory only because it landed or because it    *)
(* was discarded: not when its commit is refused, fails in the save or     *)
(* dies half way ("rejected proposal stays staged (not consumed)").        *)
(***************************************************************************)
NothingLost ==
    [][\A p \in staged \ staged' : p \in landed' \cup dropped']_allVars

(***************************************************************************)
(* A fold or an unfold that lands replaces exactly the graph it was        *)
(* proposed on ("structural ops require an unchanged base", the contract's *)
(* section 4), with exactly the effect that was approved.                  *)
(***************************************************************************)
StructuralOnItsBase ==
    [][\A w \in Writers : Landed(w) /\ job[w].kind # "actions" =>
          /\ live = job[w].base
          /\ live'.arr = Restructured(job[w].base.arr, job[w])]_allVars

(***************************************************************************)
(* Nothing lands without approval: the live file changes only when the     *)
(* commit of a proposal replaces it, and that proposal is still staged,    *)
(* not discarded, at that moment.                                          *)
(***************************************************************************)
OnlyApprovedLands ==
    [][live' # live => \E w \in Writers : Landed(w) /\ job[w] \in staged]_allVars

\* The proposals that landed and are still listed, with no call about to remove
\* them.
Relisted == {p \in staged \cap landed : \A w \in Writers : job[w] # p}

(***************************************************************************)
(* Once its call has returned, a committed proposal is no longer listed    *)
(* ("staged (uncommitted) proposals", graph_list_proposals): committing    *)
(* it again would add its nodes a second time under new ids.  A process    *)
(* that dies between the replace and the removal leaves one such proposal, *)
(* and nothing else does.                                                  *)
(***************************************************************************)
RelistedByCrashOnly == Cardinality(Relisted) <= crashes

\* What the tool promises: one crash refutes it.
StagedUncommitted == Relisted = {}

\* What lands is what was approved: a proposal that is staged as it lands, and a fold
\* only on the graph it was proposed on; and it is listed again after it landed only if
\* a process died in between.
LandsAsApproved == OnlyApprovedLands /\ StructuralOnItsBase /\ []RelistedByCrashOnly
=============================================================================
