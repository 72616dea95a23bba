------------------------------- MODULE Processes -------------------------------
(***************************************************************************)
(* Processes and callbacks on shared state: the registry of active         *)
(* sessions, the command queue, the logs, and the frame callbacks of the   *)
(* 3D tab. They share no state, so a behaviour of all of them together is  *)
(* one of each; the run takes one at a time: `part` says which, and the    *)
(* others stay as they begin.                                              *)
(***************************************************************************)
EXTENDS SessionRegistry

CONSTANTS
    Commands, Tabs, MaxPerTick,        \* of CommandQueue
    Writers, Limit, MaxRows,           \* of RowLog
    Keys, Window, MaxOpens, MaxQueue, MaxClock   \* of FramePump

ASSUME ProcessesAssumption ==
    /\ MaxPerTick \in Nat
    /\ IsFiniteSet(Writers) /\ Limit \in Nat /\ MaxRows \in Nat
    /\ Window \in Nat /\ MaxOpens \in Nat /\ MaxQueue \in Nat /\ MaxClock \in Nat

VARIABLES
    part,
    queue, tmp, sender, drain, ran, sent, crossed, muddled, queueKills,
    file, live, rotated, zipped, pen, rows, done, moved, failed, logKills,
    tab, driver, backend, bound, pumping, timers, named, framesQueue, held, lastPress,
    gravity, down, clock, opens, reopened, framesFailed, taps

queueVars == <<queue, tmp, sender, drain, ran, sent, crossed, muddled, queueKills>>
logVars == <<file, live, rotated, zipped, pen, rows, done, moved, failed, logKills>>
framesVars == <<tab, driver, backend, bound, pumping, timers, named, framesQueue,
                held, lastPress, gravity, down, clock, opens, reopened, framesFailed,
                taps>>
allVars == <<part, registryVars, queueVars, logVars, framesVars>>

Queue == INSTANCE CommandQueue WITH kills <- queueKills
Log == INSTANCE RowLog WITH kills <- logKills
Frames == INSTANCE FramePump WITH queue <- framesQueue, failed <- framesFailed

-----------------------------------------------------------------------------

AllInit ==
    /\ part \in {"registry", "queue", "log", "frames"}
    /\ RegistryInit
    /\ Queue!Init
    /\ Log!Init
    /\ Frames!Init

AllNext ==
    /\ UNCHANGED part
    /\ \/ /\ part = "registry" /\ RegistryNext
          /\ UNCHANGED <<queueVars, logVars, framesVars>>
       \/ /\ part = "queue" /\ Queue!Next
          /\ UNCHANGED <<registryVars, logVars, framesVars>>
       \/ /\ part = "log" /\ Log!Next
          /\ UNCHANGED <<registryVars, queueVars, framesVars>>
       \/ /\ part = "frames" /\ Frames!Next
          /\ UNCHANGED <<registryVars, queueVars, logVars>>

\* The fairness of each component, while it is the one that runs.
FairnessOfAll ==
    /\ \A p \in Procs : WF_registryVars(part = "registry" /\ Run(p))
    /\ WF_registryVars(part = "registry" /\ Tick)
    /\ \A t \in Tabs : WF_queueVars(part = "queue" /\ Queue!Drain(t))
    /\ WF_framesVars(part = "frames" /\ (\E id \in Frames!Timers : Frames!Fire(id)))

AllSpec == AllInit /\ [][AllNext]_allVars /\ FairnessOfAll

-----------------------------------------------------------------------------

\* With one page draining at a time, a command that did not cross a drain runs once,
\* in its turn, or still waits.
CommandsAreKept == Queue!CommandsAreKept

\* The log keeps its rows, in order, in files of bounded length: a row is lost only to
\* a killed process, one for each, or to a rotation under its writer.
RowsAreKept == Log!RowsAreKept

\* However the tabs are switched, openings fail and frames raise: keys go to the 3D
\* backend in use, its frames go on, and no more pumps run than were asked for.
FramesAreKept == Frames!FramesAreKept

\* A call of the registry returns, a command that did not cross a drain runs, and an
\* escape leaves the 3D tab, in the end.
EventuallyDone ==
    /\ EveryCallReturns
    /\ Queue!EventuallyRun
    /\ Frames!EscapeLeaves
=============================================================================
