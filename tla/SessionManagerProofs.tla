-------------------------- MODULE SessionManagerProofs --------------------------
(***************************************************************************)
(* What the threads of a session's managers keep, for every number of      *)
(* managers, callers, processes and crashes: no launch is left unwatched,  *)
(* and, as long as no two calls overlap, one process at most runs for each *)
(* manager and none for a session it has archived.  And what the shell     *)
(* over such a manager keeps, for every number of sessions, names, notes   *)
(* and lines.                                                              *)
(***************************************************************************)
EXTENDS SessionManager, Shell, ArrangementProofs

CallOps == {"none", "spawn", "send", "reactivate", "archive"}
Ever    == Status \cup {"absent", "torn"}

Entry == [known : BOOLEAN, status : Status, child : 0 .. MaxProcs]
Call  == [at : CallPcs, op : CallOps, mgr : Managers, new : 0 .. MaxProcs,
          out : Status, alone : BOOLEAN]
Watch == [at : {"none", "wait", "set", "write", "done"}, on : 0 .. MaxProcs, out : Status]

(* The values of the variables. *)
Typed ==
    /\ entry \in [Managers -> Entry]
    /\ file \in Ever /\ boxed \in Ever
    /\ proc \in [Procs -> {"unborn", "running", "over"}]
    /\ host \in [Procs -> Managers]
    /\ watch \in [Procs -> Watch]
    /\ call \in [Callers -> Call]
    /\ overlapped \in BOOLEAN

(* A manager that knows nothing of the session has its empty entry, one in *)
(* a call, or watching, knows of it, and a watcher is that of a launched   *)
(* process.                                                                *)
Related ==
    /\ \A m \in Managers : ~entry[m].known => entry[m] = NoEntry
    /\ \A p \in Procs : watch[p].at # "none" => proc[p] # "unborn"
    /\ \A p \in Procs : Watching(p) => entry[host[p]].known
    /\ \A c \in Callers : InCall(c) => entry[call[c].mgr].known

(* A child was launched, and so was the process a launch is about, by the  *)
(* manager of the call.                                                    *)
Launched ==
    /\ \A m \in Managers : entry[m].child # NoProc => proc[entry[m].child] # "unborn"
    /\ \A c \in Callers : call[c].at \in {"own", "launched", "threads"} =>
          /\ call[c].new \in Procs /\ proc[call[c].new] # "unborn"
          /\ host[call[c].new] = call[c].mgr

TypeInv == Typed /\ Related /\ Launched

LEMMA Constants == MaxProcs \in Nat /\ Managers # {}
BY SessionManagerAssumption

LEMMA InitTyped == Init => TypeInv
<1> SUFFICES ASSUME Init PROVE TypeInv
  OBVIOUS
<1> USE Constants DEF Init, Status, NoProc
<1>1. (CHOOSE m \in Managers : TRUE) \in Managers
  OBVIOUS
<1>2. NoEntry \in Entry /\ NoCall \in Call /\ NoWatch \in Watch
  BY <1>1 DEF NoEntry, NoCall, NoWatch, Entry, Call, Watch, CallOps, CallPcs
<1>3. Typed
  BY <1>1, <1>2 DEF Typed, Ever
<1>4. Related
  BY DEF Related, InCall, Watching, NoCall, NoWatch
<1>5. Launched
  BY DEF Launched, NoEntry, NoCall
<1> QED
  BY <1>3, <1>4, <1>5 DEF TypeInv

(* What the beginning of a call leaves, whatever the call. *)
LEMMA HydratedTyped ==
    ASSUME TypeInv, NEW m \in Managers
    PROVE  /\ Hydrated(m) \in Entry /\ Hydrated(m).known
           /\ Hydrated(m).child = entry[m].child
           /\ Hydrated(m).status \in {entry[m].status, "archived", "idle"}
           /\ Hydrated(m).status = "archived" => entry[m].known \/ Hydrated(m).child = NoProc
<1> USE Constants DEF TypeInv, Typed, Related, Hydrated, Entry, NoProc, Status, NoEntry
<1>1. CASE entry[m].known
  BY <1>1
<1>2. CASE ~entry[m].known
  BY <1>2
<1> QED
  BY <1>1, <1>2

-----------------------------------------------------------------------------
(* What the three calls that begin with a lookup have in common. *)
LEMMA Beginning ==
    ASSUME NEW c \in Callers, NEW m \in Managers,
           Send(c, m) \/ Reactivate(c, m) \/ Archive(c, m)
    PROVE  \E op \in {"send", "reactivate", "archive"}, at \in {"stdin", "popen", "kill", "mark"} :
              /\ Enter(c, m, op, at) /\ ~InCall(c)
              /\ entry' = [entry EXCEPT ![m] = Hydrated(m)]
              /\ UNCHANGED <<file, boxed, proc, host, watch, crashes>>
              /\ at \in {"popen", "mark"} => ~Running(Hydrated(m).child)
BY DEF Send, Reactivate, Archive

LEMMA BeginTyped ==
    ASSUME TypeInv, NEW c \in Callers, NEW m \in Managers,
           Send(c, m) \/ Reactivate(c, m) \/ Archive(c, m)
    PROVE  TypeInv'
<1>1. PICK op \in {"send", "reactivate", "archive"}, at \in {"stdin", "popen", "kill", "mark"} :
              /\ Enter(c, m, op, at) /\ ~InCall(c)
              /\ entry' = [entry EXCEPT ![m] = Hydrated(m)]
              /\ UNCHANGED <<file, boxed, proc, host, watch, crashes>>
  BY Beginning
<1> USE Constants DEF TypeInv
<1>2. entry' \in [Managers -> Entry]
  BY <1>1, HydratedTyped DEF Typed
<1>3. call' \in [Callers -> Call]
  <2>1. (CHOOSE n \in Managers : TRUE) \in Managers
    OBVIOUS
  <2>2. NoCall \in Call
    BY <2>1 DEF NoCall, Call, CallOps, CallPcs, Status, NoProc
  <2> DEFINE al == OthersOut(c) /\ \A p \in Procs : ~Watching(p) /\ ~Running(p)
             x  == [NoCall EXCEPT !.at = at, !.op = op, !.mgr = m, !.alone = al]
  <2>3. al \in BOOLEAN
    BY DEF OthersOut
  <2>4. call' = [d \in Callers |-> IF d = c THEN x ELSE [call[d] EXCEPT !.alone = FALSE]]
    BY <1>1 DEF Enter
  <2>5. x \in Call
    <3> HIDE DEF al
    <3> QED
      BY <2>2, <2>3 DEF Call, CallOps, CallPcs
  <2>6. \A d \in Callers : [call[d] EXCEPT !.alone = FALSE] \in Call
    BY DEF Typed, Call
  <2> HIDE DEF x
  <2> QED
    BY <2>4, <2>5, <2>6
<1>4. overlapped' \in BOOLEAN
  BY <1>1 DEF Typed, Enter, OthersOut
<1>5. Typed'
  BY <1>1, <1>2, <1>3, <1>4 DEF Typed
<1>6. \A d \in Callers : d # c => /\ call'[d].at = call[d].at /\ call'[d].mgr = call[d].mgr
                                  /\ call'[d].new = call[d].new
  BY <1>1 DEF Enter, Typed, Call
<1>7. call'[c].at = at /\ call'[c].mgr = m
  BY <1>1 DEF Enter, Typed, Call, NoCall
<1>8. Related'
  BY <1>1, <1>6, <1>7, HydratedTyped DEF Related, InCall, Watching, Typed, Entry
<1>9. Launched'
  BY <1>1, <1>6, <1>7, HydratedTyped DEF Launched, Typed, Entry
<1> QED
  BY <1>5, <1>8, <1>9

(* A step of a call moves that call only, and is one of these. *)
LEMMA CallMoves ==
    ASSUME TypeInv, NEW c \in Callers, CallStep(c)
    PROVE  /\ call' \in [Callers -> Call]
           /\ \A d \in Callers : d # c => call'[d] = call[d]
           /\ InCall(c)
           /\ call'[c].at # "idle" => call'[c].mgr = call[c].mgr
           /\ call'[c].at \in {"launched", "threads"} =>
                 call[c].at \in {"own", "launched"} /\ call'[c].new = call[c].new
           /\ call'[c].at = "own" => Popen(c)
           /\ UNCHANGED overlapped
<1> USE Constants DEF TypeInv, Typed, NoProc, Goto, Snapshot, Done, InCall
<1>0. /\ call[c] \in Call /\ call \in [Callers -> Call] /\ call[c].mgr \in Managers
      /\ entry[call[c].mgr] \in Entry
  BY DEF Call
<1>n. NoCall \in Call /\ NoCall.at = "idle"
  <2>1. (CHOOSE n \in Managers : TRUE) \in Managers
    OBVIOUS
  <2> QED
    BY <2>1 DEF NoCall, Call, CallOps, CallPcs, Status
<1>g. ASSUME NEW at \in CallPcs, NEW out \in Status, call[c].at # "idle",
             \/ call' = [call EXCEPT ![c].at = at]
             \/ call' = [call EXCEPT ![c].at = at, ![c].out = out]
      PROVE  /\ call' \in [Callers -> Call]
             /\ \A d \in Callers : d # c => call'[d] = call[d]
             /\ call'[c].at = at /\ call'[c].mgr = call[c].mgr /\ call'[c].new = call[c].new
  BY <1>0, <1>g DEF Call
<1>d. ASSUME Done(c)
      PROVE  /\ call' \in [Callers -> Call]
             /\ \A d \in Callers : d # c => call'[d] = call[d]
             /\ call'[c].at = "idle"
  BY <1>0, <1>n, <1>d
<1>1. CASE Popen(c)
  <2>1. PICK p \in Unborn : call' = [call EXCEPT ![c].at = "own", ![c].new = p]
    BY <1>1 DEF Popen
  <2>2. p \in 0 .. MaxProcs
    BY DEF Unborn, Procs
  <2> QED
    BY <1>0, <1>1, <2>1, <2>2 DEF Popen, Call, CallPcs
<1>2. CASE PopenFails(c)
  BY <1>2, <1>d, <1>g DEF PopenFails, CallPcs, Status
<1>3. CASE Own(c)
  BY <1>3, <1>g DEF Own, CallPcs, Status
<1>4. CASE StartWatcher(c)
  BY <1>4, <1>d, <1>g DEF StartWatcher, CallPcs, Status
<1>5. CASE Seed(c)
  BY <1>0, <1>5 DEF Seed, Call, CallPcs, CallOps
<1>6. CASE WriteStdin(c)
  <2>1. entry[call[c].mgr].status \in Status
    BY <1>0 DEF Entry
  <2> QED
    BY <1>6, <1>d, <1>g, <2>1 DEF WriteStdin, CallPcs
<1>7. CASE Persist(c)
  BY <1>7, <1>d, <1>g DEF Persist, CallPcs, Status
<1>8. CASE KillChild(c)
  BY <1>8, <1>g DEF KillChild, CallPcs, Status
<1>9. CASE MarkArchived(c)
  BY <1>9, <1>g DEF MarkArchived, CallPcs, Status
<1>10. CASE Move(c)
  BY <1>10, <1>d DEF Move, Retire
<1> QED
  BY <1>1, <1>2, <1>3, <1>4, <1>5, <1>6, <1>7, <1>8, <1>9, <1>10 DEF CallStep

(* The call that was made does not look at what another moved. *)
LEMMA CallTyped ==
    ASSUME TypeInv, NEW c \in Callers, CallStep(c)
    PROVE  TypeInv'
<1> USE Constants DEF TypeInv, NoProc
<1>0. /\ call[c] \in Call /\ call[c].mgr \in Managers
      /\ entry[call[c].mgr] \in Entry
  BY DEF Typed, Call
<1>m. /\ call' \in [Callers -> Call] /\ UNCHANGED overlapped /\ InCall(c)
      /\ \A d \in Callers : d # c => call'[d] = call[d]
      /\ call'[c].at # "idle" => call'[c].mgr = call[c].mgr
      /\ call'[c].at \in {"launched", "threads"} =>
            call[c].at \in {"own", "launched"} /\ call'[c].new = call[c].new
      /\ call'[c].at = "own" => Popen(c)
  BY CallMoves
<1>p. call'[c].at # "own" \/ (call[c].at = "popen" /\ \E p \in Procs : proc' = [proc EXCEPT ![p] = "running"] /\ proc[p] = "unborn")
  BY <1>m DEF Popen, Unborn
<1>k. entry[call[c].mgr].known
  BY <1>m DEF Related
<1>w. ASSUME UNCHANGED <<watch, host>>,
             \A m \in Managers : entry[m].known => entry'[m].known
      PROVE  \A p \in Procs : Watching(p)' => entry'[host'[p]].known
  BY <1>w DEF Related, Watching, Typed
<1>e. ASSUME entry' \in [Managers -> Entry],
             \A m \in Managers : entry'[m].known = entry[m].known /\ (entry[m].known \/ entry'[m] = entry[m])
      PROVE  \A d \in Callers : InCall(d)' => entry'[call'[d].mgr].known
  BY <1>m, <1>e DEF Related, InCall, Typed, Call
<1>l. ASSUME call'[c].at # "own", UNCHANGED host, \A p \in Procs : proc[p] # "unborn" => proc'[p] # "unborn"
      PROVE  \A d \in Callers : call'[d].at \in {"own", "launched", "threads"} =>
                /\ call'[d].new \in Procs /\ proc'[call'[d].new] # "unborn"
                /\ host'[call'[d].new] = call'[d].mgr
  BY <1>m, <1>l DEF Launched
<1>1. CASE Popen(c)
  <2>1. PICK p \in Unborn :
          /\ proc' = [proc EXCEPT ![p] = "running"]
          /\ host' = [host EXCEPT ![p] = call[c].mgr]
          /\ call' = [call EXCEPT ![c].at = "own", ![c].new = p]
    BY <1>1 DEF Popen
  <2>2. p \in Procs /\ proc[p] = "unborn" /\ p \in 0 .. MaxProcs
    BY DEF Unborn, Procs
  <2>3. Typed'
    BY <1>0, <1>1, <1>m, <2>1, <2>2 DEF Typed, Popen
  <2>4. Related'
    BY <1>0, <1>1, <1>m, <1>e, <2>1, <2>2 DEF Typed, Popen, Related, Watching
  <2>5. call'[c].at = "own" /\ call'[c].new = p /\ call'[c].mgr = call[c].mgr
    BY <1>0, <2>1 DEF Call, Typed
  <2>6. \A m \in Managers : entry'[m].child # NoProc => proc'[entry'[m].child] # "unborn"
    BY <1>1, <2>1, <2>2 DEF Typed, Popen, Launched, Entry, Procs
  <2>7. \A d \in Callers : d # c /\ call'[d].at \in {"own", "launched", "threads"} =>
           /\ call'[d].new \in Procs /\ proc'[call'[d].new] # "unborn"
           /\ host'[call'[d].new] = call'[d].mgr
    BY <1>m, <2>1, <2>2 DEF Typed, Launched
  <2>8. Launched'
    BY <2>1, <2>2, <2>5, <2>6, <2>7 DEF Typed, Launched
  <2> QED
    BY <2>3, <2>4, <2>8
<1>2. CASE PopenFails(c)
  <2>1. entry' \in [Managers -> Entry]
    BY <1>0, <1>2 DEF Typed, PopenFails, Entry, Status
  <2>2. /\ \A m \in Managers : entry'[m].known = entry[m].known /\ (entry[m].known \/ entry'[m] = entry[m])
    BY <1>0, <1>k, <1>2 DEF Typed, PopenFails, Entry
  <2>3. call'[c].at # "own" /\ \A m \in Managers : entry'[m].child = entry[m].child
    BY <1>0, <1>2, <1>p DEF Typed, PopenFails, Entry
  <2> QED
    BY <2>1, <2>2, <2>3, <1>2, <1>m, <1>e, <1>w, <1>l DEF Typed, PopenFails, Related, Launched
<1>3. CASE Own(c)
  <2>1. entry' \in [Managers -> Entry]
    BY <1>0, <1>3 DEF Typed, Own, Entry, Status, Call
  <2>2. /\ \A m \in Managers : entry'[m].known = entry[m].known /\ (entry[m].known \/ entry'[m] = entry[m])
    BY <1>0, <1>k, <1>3 DEF Typed, Own, Entry
  <2>3. /\ call'[c].at # "own"
        /\ \A m \in Managers : \/ entry'[m].child = entry[m].child
                               \/ (entry'[m].child = call[c].new /\ call[c].at = "own")
    BY <1>0, <1>3, <1>p DEF Typed, Own, Entry, Snapshot
  <2> QED
    <3>1. Typed'
      BY <2>1, <1>3, <1>m DEF Typed, Own
    <3>2. Related'
      <4>1. UNCHANGED <<proc, watch, host>>
        BY <1>3 DEF Own
      <4>2. \A m \in Managers : ~entry'[m].known => entry'[m] = NoEntry
        BY <2>2 DEF Related
      <4>3. \A p \in Procs : Watching(p)' => entry'[host'[p]].known
        BY <4>1, <2>2, <1>w
      <4>4. \A d \in Callers : InCall(d)' => entry'[call'[d].mgr].known
        BY <2>1, <2>2, <1>e
      <4> QED
        BY <4>1, <4>2, <4>3, <4>4 DEF Related
    <3>3. \A m \in Managers : entry'[m].child # NoProc => proc'[entry'[m].child] # "unborn"
      BY <2>3, <1>3 DEF Own, Launched
    <3> QED
      BY <3>1, <3>2, <3>3, <2>3, <1>3, <1>l DEF Own, Launched
<1>4. CASE StartWatcher(c)
  <2>1. watch' \in [Procs -> Watch]
    BY <1>0, <1>4 DEF Typed, StartWatcher, Watch, Entry, Status
  <2> QED
    <3>1. Typed'
      BY <2>1, <1>4, <1>m DEF Typed, StartWatcher
    <3>2. /\ call[c].new \in Procs /\ proc[call[c].new] # "unborn" /\ host[call[c].new] = call[c].mgr
          /\ \A p \in Procs : p # call[c].new => watch'[p] = watch[p]
          /\ UNCHANGED <<entry, proc, host>>
      BY <1>4 DEF Typed, StartWatcher, Launched
    <3>3. Related'
      BY <2>1, <1>m, <1>e, <1>k, <3>2 DEF Typed, Related, Watching
    <3>4. Launched'
      <4>1. call'[c].at # "own"
        BY <1>p, <1>4 DEF StartWatcher
      <4> QED
        BY <4>1, <1>l, <3>2 DEF Launched
    <3> QED
      BY <3>1, <3>3, <3>4
<1>5. CASE Seed(c)
  BY <1>5, <1>m, <1>e, <1>w, <1>l, <1>0 DEF Typed, Seed, Related, Launched, Popen
<1>6. CASE WriteStdin(c)
  BY <1>6, <1>m, <1>e, <1>w, <1>l, <1>0 DEF Typed, WriteStdin, Related, Launched, Popen
<1>7. CASE Persist(c)
  BY <1>7, <1>m, <1>e, <1>w, <1>l, <1>0 DEF Typed, Persist, Related, Launched, Popen, Call, Ever
<1>8. CASE KillChild(c)
  <2>1. /\ proc' \in [Procs -> {"unborn", "running", "over"}] /\ call'[c].at # "own"
        /\ \A p \in Procs : proc[p] # "unborn" => proc'[p] # "unborn"
    BY <1>0, <1>8, <1>p DEF Typed, KillChild, Running, Entry, Procs
  <2>2. \A m \in Managers : entry[m].child \in Procs \cup {NoProc}
    BY DEF Typed, Entry, Procs
  <2> QED
    BY <1>8, <1>m, <1>e, <1>w, <1>l, <2>1, <2>2 DEF Typed, KillChild, Related, Launched
<1>9. CASE MarkArchived(c)
  <2>1. entry' \in [Managers -> Entry]
    BY <1>0, <1>9 DEF Typed, MarkArchived, Entry, Status
  <2> QED
    BY <2>1, <1>9, <1>m, <1>e, <1>w, <1>l, <1>0 DEF Typed, MarkArchived, Related, Launched, Entry, InCall, Popen
<1>10. CASE Move(c)
  BY <1>10, <1>m, <1>e, <1>w, <1>l, <1>0 DEF Typed, Move, Retire, Related, Launched, Popen, Ever
<1> QED
  BY <1>1, <1>2, <1>3, <1>4, <1>5, <1>6, <1>7, <1>8, <1>9, <1>10 DEF CallStep

(* A watcher's steps, the end of a process and the death of a manager. *)
LEMMA WatchTyped ==
    ASSUME TypeInv, NEW p \in Procs, Exit(p) \/ WatchStep(p)
    PROVE  TypeInv'
<1> USE Constants DEF TypeInv, NoProc
<1>0. /\ watch[p] \in Watch /\ host[p] \in Managers /\ entry[host[p]] \in Entry
      /\ NoWatch \in Watch
  BY DEF Typed, NoWatch, Watch, Status
<1>1. CASE Exit(p)
  BY <1>1 DEF Exit, Typed, Related, Launched, InCall, Watching
<1>2. CASE WatcherWakes(p)
  BY <1>0, <1>2 DEF WatcherWakes, Typed, Related, Launched, InCall, Watching, Watch, Status
<1>3. CASE WatcherSets(p)
  <2>1. entry' \in [Managers -> Entry]
    BY <1>0, <1>3 DEF WatcherSets, Typed, Entry, Watch
  <2>k. entry[host[p]].known
    BY <1>3 DEF WatcherSets, Related, Watching
  <2>2. /\ \A m \in Managers : entry'[m].known = entry[m].known /\ entry'[m].child = entry[m].child
        /\ \A m \in Managers : entry[m].known \/ entry'[m] = entry[m]
    BY <1>0, <1>3, <2>k DEF WatcherSets, Typed, Entry, Watch
  <2>3. watch' \in [Procs -> Watch] /\ \A q \in Procs : watch'[q].at # "none" => watch[q].at # "none"
    BY <1>0, <1>3, <2>1 DEF WatcherSets, Typed, Entry, Watch
  <2> QED
    BY <1>3, <2>1, <2>2, <2>3 DEF WatcherSets, Typed, Related, Launched, InCall, Watching, Call
<1>4. CASE WatcherPersists(p)
  BY <1>0, <1>4 DEF WatcherPersists, Typed, Related, Launched, InCall, Watching, Watch, Ever
<1> QED
  BY <1>1, <1>2, <1>3, <1>4 DEF WatchStep

LEMMA ManagerTyped ==
    ASSUME TypeInv, NEW m \in Managers, List(m) \/ Crash(m)
    PROVE  TypeInv'
<1> USE Constants DEF TypeInv, NoProc
<1>0. NoWatch \in Watch /\ NoEntry \in Entry /\ NoCall \in Call
  <2>1. (CHOOSE n \in Managers : TRUE) \in Managers
    OBVIOUS
  <2> QED
    BY <2>1 DEF NoWatch, NoEntry, NoCall, Watch, Entry, Call, Status, CallOps, CallPcs
<1>1. CASE List(m)
  BY <1>1, HydratedTyped DEF List, Typed, Related, Launched, InCall, Watching, Entry
<1>2. CASE Crash(m)
  <2>1. /\ entry' \in [Managers -> Entry] /\ file' \in Ever /\ boxed' \in Ever
        /\ host' \in [Procs -> Managers] /\ UNCHANGED overlapped
    BY <1>0, <1>2 DEF Crash, Typed, Ever
  <2>2. proc' \in [Procs -> {"unborn", "running", "over"}]
    BY <1>2 DEF Crash, Typed
  <2>3. watch' \in [Procs -> Watch]
    <3>1. \A x \in {"none", "done"} : [NoWatch EXCEPT !.at = x] \in Watch
      BY <1>0 DEF Watch
    <3> QED
      BY <1>2, <3>1 DEF Crash, Typed
  <2>4. call' \in [Callers -> Call]
    BY <1>0, <1>2 DEF Crash, Typed
  <2>5. \A p \in Procs : /\ proc[p] # "unborn" => proc'[p] # "unborn"
                        /\ \/ watch'[p] = watch[p] /\ host[p] # m
                           \/ watch'[p].at = "none"
                           \/ watch'[p].at = "done" /\ proc[p] # "unborn"
    BY <1>0, <1>2 DEF Crash, Typed, Watch
  <2>6. \A c \in Callers : \/ call'[c] = call[c] /\ (InCall(c) => call[c].mgr # m)
                           \/ call'[c].at = "idle"
    BY <1>2 DEF Crash, NoCall
  <2>7. entry'[m] = NoEntry /\ (\A n \in Managers : n # m => entry'[n] = entry[n]) /\ UNCHANGED host
    BY <1>2 DEF Crash, Typed
  <2>8. Related'
    <3>1. \A n \in Managers : ~entry'[n].known => entry'[n] = NoEntry
      BY <2>7 DEF Related
    <3>2. \A p \in Procs : watch'[p].at # "none" => proc'[p] # "unborn"
      BY <2>5 DEF Related
    <3>3. \A p \in Procs : Watching(p)' => entry'[host'[p]].known
      BY <2>5, <2>7 DEF Related, Watching, Typed
    <3>4. \A c \in Callers : InCall(c)' => entry'[call'[c].mgr].known
      BY <2>6, <2>7 DEF Related, InCall, Typed, Call
    <3> QED
      BY <3>1, <3>2, <3>3, <3>4 DEF Related
  <2>9. Launched'
    <3>1. \A n \in Managers : entry'[n].child \in Procs \/ entry'[n].child = NoProc
      BY <2>1 DEF Entry, Procs
    <3>2. \A n \in Managers : entry'[n].child # NoProc => n # m
      BY <2>7 DEF NoEntry
    <3>3. \A n \in Managers : entry'[n].child # NoProc => proc'[entry'[n].child] # "unborn"
      BY <2>5, <2>7, <3>1, <3>2 DEF Launched
    <3> QED
      BY <3>3, <2>5, <2>6, <2>7 DEF Launched
  <2> QED
    BY <2>1, <2>2, <2>3, <2>4, <2>8, <2>9 DEF Typed
<1> QED
  BY <1>1, <1>2

LEMMA SpawnTyped ==
    ASSUME TypeInv, NEW c \in Callers, NEW m \in Managers, Spawn(c, m)
    PROVE  TypeInv'
<1> USE Constants DEF TypeInv, NoProc
<1> DEFINE x == [NoCall EXCEPT !.at = "record", !.op = "spawn", !.mgr = m, !.out = "spawning"]
           e == [known |-> TRUE, status |-> "spawning", child |-> NoProc]
<1>1. x \in Call /\ e \in Entry /\ e.known /\ x.at = "record" /\ x.mgr = m /\ e.child = NoProc
  <2>1. (CHOOSE n \in Managers : TRUE) \in Managers
    OBVIOUS
  <2> QED
    <3>1. NoCall \in Call
      BY <2>1 DEF NoCall, Call, Status, CallOps, CallPcs
    <3>2. x \in Call /\ x.at = "record" /\ x.mgr = m
      BY <3>1 DEF Call, Status, CallOps, CallPcs
    <3>3. e \in Entry /\ e.known /\ e.child = NoProc
      BY DEF Entry, Status
    <3> QED
      BY <3>2, <3>3
<1>2. /\ call' = [call EXCEPT ![c] = x] /\ entry' = [entry EXCEPT ![m] = e]
      /\ UNCHANGED <<file, boxed, proc, host, watch, overlapped>>
  BY DEF Spawn
<1> HIDE DEF x, e
<1>3. Typed'
  BY <1>1, <1>2 DEF Typed
<1>4. Related'
  BY <1>1, <1>2 DEF Typed, Related, InCall, Watching, Call, Entry
<1>5. Launched'
  BY <1>1, <1>2 DEF Typed, Launched
<1> QED
  BY <1>3, <1>4, <1>5

LEMMA StepTyped == TypeInv /\ [Next]_vars => TypeInv'
<1> SUFFICES ASSUME TypeInv, [Next]_vars PROVE TypeInv'
  OBVIOUS
<1>1. CASE UNCHANGED vars
  BY <1>1 DEF vars, TypeInv, Typed, Related, Launched, InCall, Watching
<1> QED
  BY <1>1, SpawnTyped, BeginTyped, ManagerTyped, CallTyped, WatchTyped DEF Next

LEMMA TypeInvariant == Spec => []TypeInv
<1> QED
  BY InitTyped, StepTyped, PTL DEF Spec

(* The values of every variable, and the relations of the actors to what  *)
(* they work on, are those of TypeOK.                                      *)
THEOREM TypeCorrect == Spec => []TypeOK
<1>1. TypeInv => TypeOK
  BY Constants DEF TypeInv, Typed, Related, TypeOK, Entry, Call, Ever, Procs, NoProc
<1> QED
  BY <1>1, TypeInvariant, PTL

-----------------------------------------------------------------------------
(* A launch of a manager that has not come to its watcher yet, and a       *)
(* watcher that will still correct the record.                             *)
Launching(c, m) == /\ call[c].at \in {"record", "popen", "own", "launched", "threads"}
                   /\ call[c].mgr = m
Correcting(p, m) == /\ host[p] = m
                    /\ watch[p].at = "wait" \/ (watch[p].at = "set" /\ watch[p].out # "archived")

(* ActiveIsWatched is not inductive: a call that is not a launch may end,  *)
(* and a watcher that found the session archived corrects nothing.         *)
Watched ==
    \A m \in Managers : entry[m].known /\ entry[m].status \in {"active", "spawning"} =>
        (\E c \in Callers : Launching(c, m)) \/ (\E p \in Procs : Correcting(p, m))
WatchOut == \A p \in Procs : watch[p].at = "set" => watch[p].out \in {"archived", "idle"}

(* What holds until two calls overlap.  OneProcess says the second part;   *)
(* the third is why a launch adds no second process, the fourth gives      *)
(* ArchivedIsDead.                                                         *)
Lone == \A c, d \in Callers : InCall(c) /\ InCall(d) => c = d
Owned == \A p \in Procs : Running(p) =>
            \/ entry[host[p]].child = p
            \/ \E c \in Callers : call[c].at = "own" /\ call[c].new = p
Vacant == \A c \in Callers : call[c].at \in {"record", "popen", "own", "mark"} =>
            ~Running(entry[call[c].mgr].child)
Buried == \A m \in Managers : entry[m].status = "archived" => ~Running(entry[m].child)

Orderly == overlapped \/ (Lone /\ Owned /\ Vacant /\ Buried)

(* An archive that began with the session to itself still has it.          *)
Quiet == \A p \in Procs : ~Watching(p) /\ ~Running(p)
Undisturbed ==
    \A c \in Callers : call[c].alone =>
        /\ InCall(c) /\ OthersOut(c)
        /\ call[c].at \in {"kill", "mark", "marked", "move"} =>
              /\ Quiet
              /\ call[c].at = "marked" => call[c].out = "archived"
              /\ call[c].at = "move" => file = "archived"
Retired ==
    retired = "alone" => /\ \A c \in Callers : ~InCall(c)
                         /\ Quiet
                         /\ file = "absent" /\ boxed = "archived"

-----------------------------------------------------------------------------
LEMMA WatchOutStep == TypeInv /\ WatchOut /\ [Next]_vars => WatchOut'
<1> SUFFICES ASSUME TypeInv, WatchOut, [Next]_vars PROVE WatchOut'
  OBVIOUS
<1> USE DEF TypeInv, Typed, WatchOut
<1>1. \A p, q \in Procs : WatchStep(p) /\ watch'[q].at = "set" => watch'[q].out \in {"archived", "idle"}
  BY DEF WatchStep, WatcherWakes, WatcherSets, WatcherPersists, NoWatch, Watch
<1>2. ASSUME NEW c \in Callers, StartWatcher(c) PROVE WatchOut'
  BY <1>2 DEF StartWatcher
<1>3. ASSUME NEW m \in Managers, Crash(m) PROVE WatchOut'
  BY <1>3 DEF Crash, NoWatch
<1>4. \/ UNCHANGED watch
      \/ \E p \in Procs : WatchStep(p)
      \/ \E c \in Callers : StartWatcher(c)
      \/ \E m \in Managers : Crash(m)
  BY DEF Next, vars, Spawn, Send, Reactivate, Archive, List, Exit, CallStep, Popen, PopenFails, Own,
         Seed, WriteStdin, Persist, KillChild, MarkArchived, Move
<1> QED
  BY <1>1, <1>2, <1>3, <1>4

(* What a step of a call does to the record of its manager, and to the     *)
(* watchers.                                                               *)
LEMMA CallRecords ==
    ASSUME TypeInv, NEW c \in Callers, CallStep(c)
    PROVE  /\ \A n \in Managers : entry'[n].known = entry[n].known
           /\ \A n \in Managers : n # call[c].mgr => entry'[n] = entry[n]
           /\ ~Own(c) => entry'[call[c].mgr].child = entry[call[c].mgr].child
           /\ \/ UNCHANGED entry
              \/ PopenFails(c) \/ Own(c) \/ MarkArchived(c)
           /\ PopenFails(c) => entry'[call[c].mgr].status = "idle"
           /\ Own(c) => entry'[call[c].mgr].status = "active"
           /\ MarkArchived(c) => entry'[call[c].mgr].status = "archived"
           /\ \A p \in Procs : watch'[p] = watch[p] \/ (StartWatcher(c) /\ watch'[p].at = "wait")
           /\ \A p \in Procs : host'[p] = host[p] \/ (Popen(c) /\ proc[p] = "unborn")
<1> USE DEF TypeInv, Typed
<1>0. call[c].mgr \in Managers /\ \A n \in Managers : entry[n] \in Entry
  BY DEF Call
<1> DEFINE Kept ==
             /\ \A n \in Managers : entry'[n].known = entry[n].known
             /\ \A n \in Managers : n # call[c].mgr => entry'[n] = entry[n]
             /\ ~Own(c) => entry'[call[c].mgr].child = entry[call[c].mgr].child
             /\ UNCHANGED entry \/ PopenFails(c) \/ Own(c) \/ MarkArchived(c)
             /\ \A p \in Procs : watch'[p] = watch[p] \/ (StartWatcher(c) /\ watch'[p].at = "wait")
             /\ \A p \in Procs : host'[p] = host[p] \/ (Popen(c) /\ proc[p] = "unborn")
<1>s. /\ PopenFails(c) => entry'[call[c].mgr].status = "idle"
      /\ Own(c) => entry'[call[c].mgr].status = "active"
      /\ MarkArchived(c) => entry'[call[c].mgr].status = "archived"
  BY <1>0 DEF PopenFails, Own, MarkArchived, Entry
<1> SUFFICES Kept
  BY <1>s
<1>1. CASE Popen(c)
  <2>1. PICK p \in Unborn : host' = [host EXCEPT ![p] = call[c].mgr]
    BY <1>1 DEF Popen
  <2> QED
    BY <1>1, <2>1 DEF Popen, Unborn
<1>2. CASE PopenFails(c)
  BY <1>0, <1>2 DEF PopenFails, Entry
<1>3. CASE Own(c)
  BY <1>0, <1>3 DEF Own, Entry
<1>4. CASE StartWatcher(c)
  BY <1>4 DEF StartWatcher
<1>9. CASE MarkArchived(c)
  BY <1>0, <1>9 DEF MarkArchived, Entry
<1>10. CASE Seed(c) \/ WriteStdin(c) \/ Persist(c) \/ KillChild(c) \/ Move(c)
  BY <1>10 DEF Seed, WriteStdin, Persist, KillChild, Move
<1> QED
  BY <1>1, <1>2, <1>3, <1>4, <1>9, <1>10 DEF CallStep

(* A launch goes on to its watcher, or fails and is recorded. *)
LEMMA LaunchGoesOn ==
    ASSUME TypeInv, NEW c \in Callers, NEW m \in Managers, CallStep(c), Launching(c, m)
    PROVE  \/ Launching(c, m)'
           \/ \E p \in Procs : Correcting(p, m)'
           \/ PopenFails(c)
<1> USE DEF TypeInv, Typed, Launching
<1>0. call[c] \in Call
  OBVIOUS
<1>m. call'[c].at # "idle" => call'[c].mgr = call[c].mgr
  BY CallMoves
<1>1. CASE Popen(c)
  BY <1>0, <1>1, <1>m DEF Popen, Call
<1>3. CASE Own(c)
  BY <1>0, <1>3, <1>m DEF Own, Snapshot, Call
<1>4. CASE StartWatcher(c)
  <2>1. call[c].new \in Procs /\ host[call[c].new] = m /\ UNCHANGED host
    BY <1>4 DEF StartWatcher, Launched
  <2>2. watch'[call[c].new].at = "wait"
    BY <1>4, <2>1 DEF StartWatcher
  <2> QED
    BY <2>1, <2>2 DEF Correcting
<1>7. CASE Persist(c)
  BY <1>0, <1>7, <1>m DEF Persist, Goto, Call
<1> QED
  BY <1>1, <1>3, <1>4, <1>7 DEF CallStep, Seed, WriteStdin, KillChild, MarkArchived, Move

LEMMA CallWatched ==
    ASSUME TypeInv, Watched, NEW c \in Callers, CallStep(c)
    PROVE  Watched'
<1> SUFFICES ASSUME NEW m \in Managers, entry'[m].known, entry'[m].status \in {"active", "spawning"}
             PROVE  (\E d \in Callers : Launching(d, m)') \/ (\E p \in Procs : Correcting(p, m)')
  BY DEF Watched
<1> USE DEF TypeInv, Typed
<1>1. CASE Own(c) /\ m = call[c].mgr
  BY <1>1 DEF Own, Snapshot, Launching, Call
<1>2. CASE ~(Own(c) /\ m = call[c].mgr)
  <2>1. /\ entry[m].known /\ entry[m].status \in {"active", "spawning"}
        /\ ~(PopenFails(c) /\ m = call[c].mgr)
    BY <1>2, CallRecords DEF PopenFails, Own
  <2>2. CASE \E d \in Callers : Launching(d, m)
    <3>1. PICK d \in Callers : Launching(d, m)
      BY <2>2
    <3>2. d # c => Launching(d, m)'
      BY <3>1, CallMoves DEF Launching
    <3>3. d = c => ~PopenFails(c)
      BY <2>1, <3>1 DEF Launching
    <3> QED
      BY <3>1, <3>2, <3>3, LaunchGoesOn
  <2>3. CASE \E p \in Procs : Correcting(p, m)
    <3>1. PICK p \in Procs : Correcting(p, m)
      BY <2>3
    <3>2. host'[p] = host[p]
      BY <3>1, CallRecords DEF Correcting, Related
    <3>3. watch'[p] = watch[p] \/ watch'[p].at = "wait"
      BY CallRecords DEF StartWatcher
    <3> QED
      BY <3>1, <3>2, <3>3 DEF Correcting
  <2> QED
    BY <2>1, <2>2, <2>3 DEF Watched
<1> QED
  BY <1>1, <1>2

LEMMA WatcherWatched ==
    ASSUME TypeInv, WatchOut, Watched, NEW p \in Procs, Exit(p) \/ WatchStep(p)
    PROVE  Watched'
<1> SUFFICES ASSUME NEW m \in Managers, entry'[m].known, entry'[m].status \in {"active", "spawning"}
             PROVE  (\E d \in Callers : Launching(d, m)') \/ (\E q \in Procs : Correcting(q, m)')
  BY DEF Watched
<1> USE DEF TypeInv, Typed
<1>0. host[p] \in Managers /\ watch[p] \in Watch /\ \A n \in Managers : entry[n] \in Entry
  OBVIOUS
<1>1. /\ \A d \in Callers : Launching(d, m)' = Launching(d, m)
      /\ \A q \in Procs : q # p => (Correcting(q, m)' = Correcting(q, m))
  BY DEF Exit, WatchStep, WatcherWakes, WatcherSets, WatcherPersists, Launching, Correcting
<1>2. CASE Exit(p)
  BY <1>1, <1>2 DEF Exit, Watched, Correcting
<1>3. CASE WatcherWakes(p)
  BY <1>0, <1>1, <1>3 DEF WatcherWakes, Watched, Correcting, Watch
<1>4. CASE WatcherSets(p)
  <2>1. watch[p].out = "archived" \/ m # host[p]
    BY <1>0, <1>4 DEF WatcherSets, WatchOut, Entry
  <2>2. entry'[m] = entry[m] /\ ~Correcting(p, m)
    BY <1>0, <1>4, <2>1 DEF WatcherSets, Correcting
  <2> QED
    BY <1>1, <2>2 DEF Watched
<1>5. CASE WatcherPersists(p)
  BY <1>1, <1>5 DEF WatcherPersists, Watched, Correcting
<1> QED
  BY <1>2, <1>3, <1>4, <1>5 DEF WatchStep

LEMMA BeginWatched ==
    ASSUME TypeInv, Watched, NEW c \in Callers, NEW m \in Managers,
           Send(c, m) \/ Reactivate(c, m) \/ Archive(c, m)
    PROVE  Watched'
<1>1. PICK op \in {"send", "reactivate", "archive"}, at \in {"stdin", "popen", "kill", "mark"} :
              /\ Enter(c, m, op, at) /\ ~InCall(c)
              /\ entry' = [entry EXCEPT ![m] = Hydrated(m)]
              /\ UNCHANGED <<file, boxed, proc, host, watch, crashes>>
  BY Beginning
<1>2. \A d \in Callers : d # c => call'[d].at = call[d].at /\ call'[d].mgr = call[d].mgr
  BY <1>1 DEF Enter, Call, TypeInv, Typed
<1>3. \A n \in Managers : entry'[n].known /\ entry'[n].status \in {"active", "spawning"} => entry'[n] = entry[n]
  BY <1>1 DEF Hydrated, TypeInv, Typed
<1>4. \A d \in Callers, n \in Managers : Launching(d, n) => Launching(d, n)'
  BY <1>1, <1>2 DEF Launching, InCall
<1>5. \A p \in Procs, n \in Managers : Correcting(p, n) => Correcting(p, n)'
  BY <1>1 DEF Correcting
<1> QED
  BY <1>3, <1>4, <1>5 DEF Watched

LEMMA ManagerWatched ==
    ASSUME TypeInv, Watched, NEW m \in Managers, List(m) \/ Crash(m)
    PROVE  Watched'
<1> USE DEF TypeInv, Typed
<1>1. CASE List(m)
  BY <1>1 DEF List, Hydrated, Watched, Launching, Correcting
<1>2. CASE Crash(m)
  <2>1. \A n \in Managers : entry'[n].known => n # m /\ entry'[n] = entry[n]
    BY <1>2 DEF Crash, NoEntry
  <2>2. \A c \in Callers, n \in Managers : n # m /\ Launching(c, n) => Launching(c, n)'
    BY <1>2 DEF Crash, Launching
  <2>3. \A p \in Procs, n \in Managers : n # m /\ Correcting(p, n) => Correcting(p, n)'
    BY <1>2 DEF Crash, Correcting
  <2> QED
    BY <2>1, <2>2, <2>3 DEF Watched
<1> QED
  BY <1>1, <1>2

LEMMA SpawnWatched ==
    ASSUME TypeInv, Watched, NEW c \in Callers, NEW m \in Managers, Spawn(c, m)
    PROVE  Watched'
<1> USE DEF TypeInv, Typed
<1>1. Launching(c, m)'
  BY DEF Spawn, Launching
<1>2. \A n \in Managers : n # m => ~entry'[n].known
  BY DEF Spawn
<1> QED
  BY <1>1, <1>2 DEF Watched

LEMMA WatchedInvariant == Spec => [](TypeInv /\ WatchOut /\ Watched)
<1>1. Init => TypeInv /\ WatchOut /\ Watched
  BY InitTyped DEF Init, WatchOut, Watched, NoWatch, NoEntry
<1>2. TypeInv /\ WatchOut /\ Watched /\ [Next]_vars => (TypeInv /\ WatchOut /\ Watched)'
  <2> SUFFICES ASSUME TypeInv, WatchOut, Watched, [Next]_vars PROVE Watched'
    BY StepTyped, WatchOutStep
  <2>1. CASE UNCHANGED vars
    BY <2>1 DEF vars, Watched, Launching, Correcting
  <2> QED
    BY <2>1, SpawnWatched, BeginWatched, ManagerWatched, CallWatched, WatcherWatched DEF Next
<1> QED
  BY <1>1, <1>2, PTL DEF Spec

(* ActiveIsWatched: a record that says active or spawning has a call in    *)
(* flight or a watcher that will correct it, for every number of managers, *)
(* callers and processes, however their steps interleave.                  *)
THEOREM EveryLaunchIsWatched == Spec => []ActiveIsWatched
<1>1. TypeInv /\ Watched => ActiveIsWatched
  BY DEF Watched, ActiveIsWatched, Launching, Correcting, InCall, Watching
<1> QED
  BY <1>1, WatchedInvariant, PTL

-----------------------------------------------------------------------------
(* The processes a step of a call leaves running: the ones that ran, and   *)
(* the one it launches, which is nobody's child yet.                       *)
LEMMA CallRuns ==
    ASSUME TypeInv, NEW c \in Callers, CallStep(c)
    PROVE  /\ \A q \in Procs : Running(q)' =>
                 \/ Running(q)
                 \/ /\ Popen(c) /\ proc[q] = "unborn"
                    /\ call'[c].at = "own" /\ call'[c].new = q
           /\ \A n \in Managers : entry'[n].child = entry[n].child /\ Running(entry[n].child)'
                 => Running(entry[n].child)
           /\ call'[c].at = "mark" => ~Running(entry[call[c].mgr].child)'
<1> USE Constants DEF TypeInv, Typed, NoProc, Running
<1>0. call[c] \in Call /\ \A n \in Managers : entry[n] \in Entry
  OBVIOUS
<1>1. CASE Popen(c)
  <2>1. PICK p \in Unborn :
          /\ proc' = [proc EXCEPT ![p] = "running"]
          /\ call' = [call EXCEPT ![c].at = "own", ![c].new = p]
    BY <1>1 DEF Popen
  <2>2. p \in Procs /\ proc[p] = "unborn" /\ UNCHANGED entry
    BY <1>1 DEF Unborn, Popen
  <2>3. call'[c].at = "own" /\ call'[c].new = p
    BY <2>1, <1>0 DEF Call
  <2>4. \A n \in Managers : entry[n].child # p
    BY <2>2 DEF Launched, Procs
  <2> QED
    BY <1>1, <2>1, <2>2, <2>3, <2>4
<1>2. CASE KillChild(c)
  <2>1. PICK k \in 0 .. MaxProcs : k = entry[call[c].mgr].child
    BY <1>0 DEF Entry, Call
  <2>2. UNCHANGED entry /\ call'[c].mgr = call[c].mgr
    BY <1>2, <1>0 DEF KillChild, Goto, Call
  <2>3. proc' = IF Running(k) THEN [proc EXCEPT ![k] = "over"] ELSE proc
    BY <1>2, <2>1 DEF KillChild
  <2>4. /\ \A q \in Procs : Running(q)' => Running(q)
        /\ ~Running(k)'
    BY <2>3 DEF Procs
  <2>5. \A q \in 0 .. MaxProcs : Running(q)' => Running(q)
    BY <2>4 DEF Procs
  <2>6. \A n \in Managers : entry[n].child \in 0 .. MaxProcs
    BY <1>0 DEF Entry
  <2>7. ~Running(entry[call[c].mgr].child)'
    BY <2>1, <2>2, <2>4
  <2> QED
    BY <2>2, <2>4, <2>5, <2>6, <2>7
<1>3. CASE Own(c) \/ PopenFails(c) \/ MarkArchived(c) \/ Persist(c) \/ Seed(c) \/ WriteStdin(c)
           \/ Move(c) \/ StartWatcher(c)
  <2>1. UNCHANGED proc
    BY <1>3 DEF Own, PopenFails, MarkArchived, Persist, Seed, WriteStdin, Move, StartWatcher
  <2>2. call'[c].at # "mark"
    BY <1>3, <1>0 DEF Own, PopenFails, MarkArchived, Persist, Seed, WriteStdin, Move, StartWatcher, Retire,
                     Snapshot, Goto, Done, NoCall, Call
  <2> QED
    BY <2>1, <2>2
<1> QED
  BY <1>1, <1>2, <1>3 DEF CallStep

(* Where a call can be next, as far as the launches go. *)
LEMMA CallBecomes ==
    ASSUME TypeInv, NEW c \in Callers, CallStep(c)
    PROVE  /\ call'[c].at # "record"
           /\ call'[c].at = "own" => call[c].at = "popen"
           /\ call'[c].at = "popen" => \/ call[c].at = "record"
                                     \/ ~Running(entry[call[c].mgr].child)
<1> USE DEF TypeInv, Typed, Goto, Snapshot, Done
<1>0. call[c] \in Call /\ NoCall.at = "idle"
  BY DEF NoCall
<1>1. CASE Popen(c)
  BY <1>0, <1>1 DEF Popen, Call
<1>2. CASE PopenFails(c) \/ Own(c) \/ StartWatcher(c) \/ KillChild(c) \/ MarkArchived(c) \/ Move(c)
  BY <1>0, <1>2 DEF PopenFails, Own, StartWatcher, KillChild, MarkArchived, Move, Retire, Call
<1>3. CASE Seed(c)
  BY <1>0, <1>3 DEF Seed, Call
<1>4. CASE WriteStdin(c)
  BY <1>0, <1>4 DEF WriteStdin, Call
<1>5. CASE Persist(c)
  BY <1>0, <1>5 DEF Persist, Call
<1> QED
  BY <1>1, <1>2, <1>3, <1>4, <1>5 DEF CallStep

(* No two calls have overlapped: the caller of the step is the only one. *)
LEMMA CallOrderly ==
    ASSUME TypeInv, Orderly, NEW c \in Callers, CallStep(c)
    PROVE  Orderly'
<1> SUFFICES ASSUME ~overlapped PROVE Lone' /\ Owned' /\ Vacant' /\ Buried'
  BY CallMoves DEF Orderly
<1> USE Constants DEF TypeInv, Typed
<1>0. /\ Lone /\ Owned /\ Vacant /\ Buried
      /\ call[c].mgr \in Managers /\ \A n \in Managers : entry[n] \in Entry
  BY DEF Orderly, Call
<1>1. \A d \in Callers : d # c => call'[d] = call[d] /\ call'[d].at = "idle"
  BY <1>0, CallMoves DEF Lone, InCall
<1>2. call'[c].at # "idle" => call'[c].mgr = call[c].mgr
  BY CallMoves
<1>3. Lone'
  BY <1>1 DEF Lone, InCall
<1>4. CASE Own(c)
  <2>1. /\ call[c].new \in Procs /\ host[call[c].new] = call[c].mgr
        /\ entry'[call[c].mgr].child = call[c].new /\ entry'[call[c].mgr].status = "active"
        /\ \A n \in Managers : n # call[c].mgr => entry'[n] = entry[n]
        /\ UNCHANGED <<proc, host>> /\ call'[c].at = "launched"
    BY <1>0, <1>4 DEF Own, Launched, Snapshot, Entry, Call
  <2>2. ~Running(entry[call[c].mgr].child)
    BY <1>0, <1>4 DEF Vacant, Own
  <2>3. ASSUME NEW q \in Procs, Running(q)' PROVE entry'[host'[q]].child = q
    <3>1. Running(q)
      BY <2>1, <2>3 DEF Running
    <3>2. CASE entry[host[q]].child = q
      BY <2>1, <2>2, <3>1, <3>2
    <3>3. CASE \E d \in Callers : call[d].at = "own" /\ call[d].new = q
      BY <2>1, <3>3, <1>0, <1>4 DEF Lone, InCall, Own
    <3> QED
      BY <1>0, <3>1, <3>2, <3>3 DEF Owned
  <2>4. Owned'
    BY <2>3 DEF Owned
  <2>5. Vacant'
    BY <1>1, <2>1 DEF Vacant
  <2>6. Buried'
    BY <1>0, <2>1 DEF Buried, Running
  <2> QED
    BY <1>3, <2>4, <2>5, <2>6
<1>5. CASE ~Own(c)
  <2>1. /\ \A n \in Managers : entry'[n].child = entry[n].child
        /\ \A n \in Managers : entry'[n].status = "archived" =>
              entry[n].status = "archived" \/ (n = call[c].mgr /\ MarkArchived(c))
    BY <1>0, <1>5, CallRecords
  <2>2. \A n \in Managers : Running(entry[n].child)' => Running(entry[n].child)
    BY <2>1, CallRuns
  <2>3. ASSUME NEW q \in Procs, Running(q)'
        PROVE  entry'[host'[q]].child = q \/ (call'[c].at = "own" /\ call'[c].new = q)
    <3>1. CASE Popen(c) /\ proc[q] = "unborn" /\ call'[c].at = "own" /\ call'[c].new = q
      BY <3>1
    <3>2. CASE Running(q)
      <4>1. host'[q] = host[q]
        BY <3>2, CallRecords DEF Running
      <4>2. ~(\E d \in Callers : call[d].at = "own" /\ call[d].new = q)
        BY <1>0, <1>5 DEF Lone, InCall, CallStep, PopenFails, Popen, StartWatcher, Seed, WriteStdin,
              Persist, KillChild, MarkArchived, Move
      <4> QED
        BY <1>0, <2>1, <3>2, <4>1, <4>2 DEF Owned
    <3> QED
      BY <2>3, <3>1, <3>2, CallRuns
  <2>4. Owned'
    BY <2>3 DEF Owned
  <2>5. Vacant'
    <3>1. ASSUME call'[c].at \in {"record", "popen", "own"} PROVE ~Running(entry[call[c].mgr].child)
      BY <1>0, <3>1, CallBecomes DEF Vacant
    <3>2. call'[c].at \in {"record", "popen", "own", "mark"} => ~Running(entry[call[c].mgr].child)'
      BY <1>0, <1>2, <2>2, <3>1, CallRuns
    <3> QED
      BY <1>1, <1>2, <3>2 DEF Vacant
  <2>6. Buried'
    BY <1>0, <2>1, <2>2 DEF Buried, Vacant, MarkArchived
  <2> QED
    BY <1>3, <2>4, <2>5, <2>6
<1> QED
  BY <1>4, <1>5

LEMMA WatcherOrderly ==
    ASSUME TypeInv, WatchOut, Orderly, NEW p \in Procs, Exit(p) \/ WatchStep(p)
    PROVE  Orderly'
<1> SUFFICES ASSUME ~overlapped PROVE Lone' /\ Owned' /\ Vacant' /\ Buried'
  BY DEF Orderly, Exit, WatchStep, WatcherWakes, WatcherSets, WatcherPersists
<1> USE DEF TypeInv, Typed
<1>0. /\ Lone /\ Owned /\ Vacant /\ Buried
      /\ host[p] \in Managers /\ \A n \in Managers : entry[n] \in Entry
  BY DEF Orderly
<1>1. UNCHANGED <<call, host>>
  BY DEF Exit, WatchStep, WatcherWakes, WatcherSets, WatcherPersists
<1>2. /\ \A n \in Managers : entry'[n].child = entry[n].child
      /\ \A n \in Managers : entry'[n].status = "archived" => entry[n].status = "archived"
  BY <1>0 DEF Exit, WatchStep, WatcherWakes, WatcherSets, WatcherPersists, WatchOut, Entry
<1>3. \A q \in 0 .. MaxProcs : Running(q)' => Running(q)
  BY Constants DEF Exit, WatchStep, WatcherWakes, WatcherSets, WatcherPersists, Running, NoProc, Procs
<1>4. \A n \in Managers : entry[n].child \in 0 .. MaxProcs
  BY <1>0 DEF Entry
<1>5. \A n \in Managers : Running(entry[n].child)' => Running(entry[n].child)
  BY <1>2, <1>3, <1>4
<1>6. Lone'
  BY <1>0, <1>1 DEF Lone, InCall
<1>7. Owned'
  BY <1>0, <1>1, <1>2, <1>3, Constants DEF Owned, Procs
<1>8. Vacant'
  BY <1>0, <1>1, <1>5 DEF Vacant, Call
<1>9. Buried'
  BY <1>0, <1>2, <1>5 DEF Buried
<1> QED
  BY <1>6, <1>7, <1>8, <1>9

(* A call that does not overlap another finds nobody in one. *)
LEMMA BeginOrderly ==
    ASSUME TypeInv, Orderly, NEW c \in Callers, NEW m \in Managers,
           Send(c, m) \/ Reactivate(c, m) \/ Archive(c, m)
    PROVE  Orderly'
<1>1. PICK op \in {"send", "reactivate", "archive"}, at \in {"stdin", "popen", "kill", "mark"} :
              /\ Enter(c, m, op, at) /\ ~InCall(c)
              /\ entry' = [entry EXCEPT ![m] = Hydrated(m)]
              /\ UNCHANGED <<file, boxed, proc, host, watch, crashes>>
              /\ at \in {"popen", "mark"} => ~Running(Hydrated(m).child)
  BY Beginning
<1> SUFFICES ASSUME ~overlapped' PROVE Lone' /\ Owned' /\ Vacant' /\ Buried'
  BY DEF Orderly
<1> USE DEF TypeInv, Typed
<1>2. ~overlapped /\ \A d \in Callers : ~InCall(d)
  BY <1>1 DEF Enter, OthersOut
<1>3. Owned /\ Buried
  BY <1>2 DEF Orderly
<1>4. \A d \in Callers : d # c => call'[d].at = "idle"
  BY <1>1, <1>2 DEF Enter, Call, InCall
<1>5. call'[c].mgr = m /\ call'[c].at = at
  BY <1>1 DEF Enter, NoCall
<1>6. \A n \in Managers : entry'[n].child = entry[n].child
  BY <1>1, HydratedTyped
<1>7. \A n \in Managers : entry'[n].status = "archived" =>
         entry[n].status = "archived" \/ entry[n].child = NoProc
  BY <1>1 DEF Hydrated, Related, NoEntry
<1>8. Lone' /\ Owned'
  <2>1. Lone'
    BY <1>4 DEF Lone, InCall
  <2>2. \A q \in Procs : Running(q) => entry[host[q]].child = q
    BY <1>2, <1>3 DEF Owned, InCall
  <2> QED
    BY <2>1, <2>2, <1>1, <1>6 DEF Owned, Running
<1>9. Vacant'
  BY <1>1, <1>4, <1>5 DEF Vacant, Running
<1>10. Buried'
  BY <1>1, <1>3, <1>6, <1>7 DEF Buried, Running
<1> QED
  BY <1>8, <1>9, <1>10

LEMMA ManagerOrderly ==
    ASSUME TypeInv, Orderly, NEW m \in Managers, List(m) \/ Crash(m)
    PROVE  Orderly'
<1> SUFFICES ASSUME ~overlapped PROVE Lone' /\ Owned' /\ Vacant' /\ Buried'
  BY DEF Orderly, List, Crash
<1> USE Constants DEF TypeInv, Typed
<1>0. /\ Lone /\ Owned /\ Vacant /\ Buried
      /\ \A n \in Managers : entry[n] \in Entry
  BY DEF Orderly
<1>1. CASE List(m)
  <2>1. /\ \A n \in Managers : entry'[n].child = entry[n].child
        /\ \A n \in Managers : entry'[n].status = "archived" =>
              entry[n].status = "archived" \/ entry[n].child = NoProc
        /\ UNCHANGED <<proc, host, call>>
    BY <1>1 DEF List, Hydrated, Related, NoEntry
  <2>2. Lone' /\ Owned'
    BY <1>0, <2>1 DEF Lone, Owned, InCall, Running
  <2>3. Vacant'
    BY <1>0, <2>1 DEF Vacant, Running, Call
  <2>4. Buried'
    BY <1>0, <2>1 DEF Buried, Running
  <2> QED
    BY <2>2, <2>3, <2>4
<1>2. CASE Crash(m)
  <2>1. \A c \in Callers : \/ call'[c] = call[c] /\ (InCall(c) => call[c].mgr # m)
                           \/ call'[c].at = "idle"
    BY <1>2 DEF Crash, NoCall
  <2>2. entry'[m].child = NoProc /\ entry'[m].status # "archived"
        /\ (\A n \in Managers : n # m => entry'[n] = entry[n]) /\ UNCHANGED host
    BY <1>2 DEF Crash, NoEntry
  <2>3. \A q \in Procs : Running(q)' => Running(q) /\ host[q] # m
    BY <1>2 DEF Crash, Running
  <2>4. \A n \in Managers : n # m /\ Running(entry[n].child)' => Running(entry[n].child)
    BY <1>0, <2>2, <2>3 DEF Entry, Procs, Running, NoProc
  <2>5. Lone'
    BY <1>0, <2>1 DEF Lone, InCall
  <2>6. Owned'
    <3>1. ASSUME NEW q \in Procs, Running(q)', NEW c \in Callers, call[c].at = "own", call[c].new = q
          PROVE  call'[c] = call[c]
      BY <1>2, <2>3, <3>1 DEF Crash, Launched
    <3> QED
      BY <1>0, <2>2, <2>3, <3>1 DEF Owned
  <2>7. Vacant'
    BY <1>0, <2>1, <2>2, <2>4 DEF Vacant, InCall, Call
  <2>8. Buried'
    BY <1>0, <2>2, <2>4 DEF Buried
  <2> QED
    BY <2>5, <2>6, <2>7, <2>8
<1> QED
  BY <1>1, <1>2

(* A session that is spawned has nothing of an earlier one. *)
LEMMA SpawnOrderly ==
    ASSUME TypeInv, Orderly, NEW c \in Callers, NEW m \in Managers, Spawn(c, m)
    PROVE  Orderly'
<1> SUFFICES ASSUME ~overlapped PROVE Lone' /\ Owned' /\ Vacant' /\ Buried'
  BY DEF Orderly, Spawn
<1> USE Constants DEF TypeInv, Typed
<1>1. /\ \A n \in Managers : entry[n].child = NoProc
      /\ \A d \in Callers : ~InCall(d)
  BY DEF Spawn, Related, NoEntry, Call
<1>2. \A q \in Procs : ~Running(q)
  BY <1>1 DEF Orderly, Owned, InCall, Procs, NoProc
<1>3. /\ \A n \in Managers : entry'[n].child = NoProc
      /\ UNCHANGED proc /\ \A d \in Callers : d # c => call'[d].at = "idle"
      /\ call'[c].mgr = m
  BY <1>1 DEF Spawn, InCall
<1>4. Lone'
  BY <1>3 DEF Lone, InCall
<1>5. Owned' /\ Buried' /\ Vacant'
  BY <1>2, <1>3 DEF Owned, Buried, Vacant, Running
<1> QED
  BY <1>4, <1>5

LEMMA OrderlyInvariant == Spec => [](TypeInv /\ WatchOut /\ Orderly)
<1>1. Init => TypeInv /\ WatchOut /\ Orderly
  BY InitTyped DEF Init, WatchOut, Orderly, Lone, Owned, Vacant, Buried, InCall, Running,
                   NoWatch, NoEntry, NoCall
<1>2. TypeInv /\ WatchOut /\ Orderly /\ [Next]_vars => (TypeInv /\ WatchOut /\ Orderly)'
  <2> SUFFICES ASSUME TypeInv, WatchOut, Orderly, [Next]_vars PROVE Orderly'
    BY StepTyped, WatchOutStep
  <2>1. CASE UNCHANGED vars
    BY <2>1 DEF vars, Orderly, Lone, Owned, Vacant, Buried, InCall, Running
  <2> QED
    BY <2>1, SpawnOrderly, BeginOrderly, ManagerOrderly, CallOrderly, WatcherOrderly DEF Next
<1> QED
  BY <1>1, <1>2, PTL DEF Spec

(* OneProcess: unless two calls overlapped, whatever a manager runs is the *)
(* child of its record, or is becoming it, for every number of managers,   *)
(* callers, launches and crashes.                                          *)
THEOREM OneProcessEach == Spec => []OneProcess
<1>1. Orderly => OneProcess
  BY DEF Orderly, Owned, OneProcess
<1> QED
  BY <1>1, OrderlyInvariant, PTL

(* ArchivedIsDead: unless two calls overlapped, nothing runs of a session  *)
(* its manager has archived.                                               *)
THEOREM ArchivedStaysDead == Spec => []ArchivedIsDead
<1>1. TypeInv /\ Orderly => ArchivedIsDead
  BY DEF Orderly, Owned, Buried, ArchivedIsDead, InCall, TypeInv, Typed
<1> QED
  BY <1>1, OrderlyInvariant, PTL

-----------------------------------------------------------------------------
(* A step of a call that has the session to itself. *)
LEMMA CallAlone ==
    ASSUME TypeInv, Undisturbed, Retired, NEW c \in Callers, CallStep(c)
    PROVE  Undisturbed' /\ Retired'
<1> USE Constants DEF TypeInv, Typed
<1>0. /\ call[c] \in Call /\ NoCall.at = "idle" /\ NoCall.alone = FALSE
  BY DEF NoCall
<1>1. /\ \A d \in Callers : d # c => call'[d] = call[d]
      /\ InCall(c)
  BY CallMoves
<1>2. \A d \in Callers : d # c => ~call[d].alone
  BY <1>1 DEF Undisturbed, OthersOut
<1>3. retired # "alone"
  BY <1>1 DEF Retired
<1>4. CASE Move(c)
  <2>1. /\ call'[c] = NoCall /\ file' = "absent" /\ UNCHANGED <<proc, watch>>
        /\ boxed' = IF file = "absent" THEN boxed ELSE file
        /\ retired' = IF call[c].alone THEN "alone" ELSE "yes"
    BY <1>4 DEF Move, Retire, Done
  <2>2. Undisturbed'
    BY <1>0, <1>1, <1>2, <2>1 DEF Undisturbed
  <2>3. retired' = "alone" => OthersOut(c) /\ Quiet /\ file = "archived"
    BY <1>4, <2>1 DEF Undisturbed, Move
  <2>4. Retired'
    BY <1>0, <1>1, <2>1, <2>3 DEF Retired, Quiet, OthersOut, InCall, Watching, Running
  <2> QED
    BY <2>2, <2>4
<1>5. CASE ~Move(c)
  <2>1. UNCHANGED retired
    BY <1>5 DEF CallStep, Popen, PopenFails, Own, StartWatcher, Seed, WriteStdin, Persist, KillChild, MarkArchived
  <2>2. call'[c].alone => call[c].alone /\ InCall(c)'
    BY <1>0, <1>5 DEF CallStep, Popen, PopenFails, Own, StartWatcher, Seed, WriteStdin, Persist,
       KillChild, MarkArchived, Goto, Snapshot, Done, InCall, Call
  <2>3. ASSUME call'[c].alone, call'[c].at \in {"kill", "mark", "marked", "move"}
        PROVE  /\ Quiet'
               /\ call'[c].at = "marked" => call'[c].out = "archived"
               /\ call'[c].at = "move" => file' = "archived"
    <3>1. \/ KillChild(c) /\ call'[c].at = "mark"
          \/ MarkArchived(c) /\ call'[c].at = "marked" /\ call'[c].out = "archived"
          \/ Persist(c) /\ call[c].at = "marked" /\ call'[c].at = "move"
      BY <1>0, <1>5, <2>3 DEF CallStep, Popen, PopenFails, Own, StartWatcher, Seed, WriteStdin, Persist,
         KillChild, MarkArchived, Goto, Snapshot, Done, Call
    <3>2. call[c].at \in {"kill", "mark", "marked"} /\ Quiet /\ (call[c].at = "marked" => call[c].out = "archived")
      BY <2>2, <2>3, <3>1 DEF Undisturbed, KillChild, MarkArchived
    <3>3. Quiet'
      BY <3>1, <3>2 DEF KillChild, MarkArchived, Persist, Quiet, Watching, Running
    <3> QED
      BY <3>1, <3>2, <3>3 DEF Persist
  <2>4. Undisturbed'
    BY <1>1, <1>2, <2>2, <2>3 DEF Undisturbed, OthersOut, InCall
  <2>5. Retired'
    BY <1>3, <2>1 DEF Retired
  <2> QED
    BY <2>4, <2>5
<1> QED
  BY <1>4, <1>5

LEMMA OthersAlone ==
    ASSUME TypeInv, Undisturbed, Retired, NEW p \in Procs, Exit(p) \/ WatchStep(p)
    PROVE  Undisturbed' /\ Retired'
<1>1. ~Quiet /\ UNCHANGED <<call, retired>>
  BY DEF Exit, WatchStep, WatcherWakes, WatcherSets, WatcherPersists, Quiet, Watching
<1> QED
  BY <1>1 DEF Undisturbed, Retired, InCall, OthersOut

LEMMA BeginAlone ==
    ASSUME TypeInv, NEW c \in Callers, NEW m \in Managers,
           Send(c, m) \/ Reactivate(c, m) \/ Archive(c, m)
    PROVE  Undisturbed' /\ Retired'
<1>1. PICK op \in {"send", "reactivate", "archive"}, at \in {"stdin", "popen", "kill", "mark"} :
              /\ Enter(c, m, op, at) /\ ~InCall(c)
              /\ UNCHANGED <<file, boxed, proc, host, watch, crashes>>
  BY Beginning
<1>2. /\ \A d \in Callers : d # c => ~call'[d].alone /\ call'[d].at = call[d].at
      /\ call'[c].at = at
      /\ call'[c].alone => OthersOut(c) /\ Quiet
  BY <1>1 DEF Enter, TypeInv, Typed, Call, Quiet, NoCall
<1>3. Undisturbed'
  BY <1>1, <1>2 DEF Undisturbed, OthersOut, InCall, Quiet, Watching, Running
<1>4. Retired'
  BY <1>1 DEF Enter, Retired
<1> QED
  BY <1>3, <1>4

LEMMA ManagerAlone ==
    ASSUME TypeInv, Undisturbed, Retired, NEW m \in Managers, List(m) \/ Crash(m)
    PROVE  Undisturbed' /\ Retired'
<1> USE DEF TypeInv, Typed
<1>1. CASE List(m)
  BY <1>1 DEF List, Undisturbed, Retired, InCall, OthersOut, Quiet, Watching, Running
<1>2. CASE Crash(m)
  <2>1. \A c \in Callers : \/ call'[c] = call[c] /\ (InCall(c) => call[c].mgr # m)
                           \/ call'[c].at = "idle" /\ ~call'[c].alone
    BY <1>2 DEF Crash, NoCall
  <2>2. Quiet => Quiet'
    <3>1. ASSUME NEW p \in Procs, ~Watching(p), ~Running(p) PROVE ~Watching(p)' /\ ~Running(p)'
      BY <1>2, <3>1 DEF Crash, Watching, Running, NoWatch
    <3> QED
      BY <3>1 DEF Quiet
  <2>3. ASSUME NEW c \in Callers, call'[c].alone, call'[c].at \in {"kill", "mark", "marked", "move"}, Quiet
        PROVE  call[c].at = "move" => file' = file
    <3>1. call[c].mgr # m /\ OthersOut(c) /\ call[c] = call'[c]
      BY <2>1, <2>3 DEF Undisturbed, InCall
    <3>2. call[c].at = "move" => ~Writing(m)
      BY <2>3, <3>1 DEF Writing, Quiet, Watching, OthersOut, InCall
    <3> QED
      BY <1>2, <3>2 DEF Crash
  <2>4. Undisturbed'
    BY <2>1, <2>2, <2>3 DEF Undisturbed, InCall, OthersOut
  <2>5. Retired'
    <3>1. (\A c \in Callers : ~InCall(c)) /\ Quiet => ~Writing(m)
      BY DEF Writing, InCall, Quiet, Watching
    <3>2. UNCHANGED <<retired, boxed>> /\ (~Writing(m) => file' = file)
      BY <1>2 DEF Crash
    <3> QED
      BY <2>1, <2>2, <3>1, <3>2 DEF Retired, InCall
  <2> QED
    BY <2>4, <2>5
<1> QED
  BY <1>1, <1>2

LEMMA SpawnAlone ==
    ASSUME TypeInv, Undisturbed, Retired, NEW c \in Callers, NEW m \in Managers, Spawn(c, m)
    PROVE  Undisturbed' /\ Retired'
<1> USE DEF TypeInv, Typed
<1>1. \A d \in Callers : ~InCall(d) /\ ~call[d].alone
  BY DEF Spawn, Related, Undisturbed, Call
<1>2. retired # "alone" /\ UNCHANGED retired
  BY DEF Spawn, Retired
<1>3. \A d \in Callers : ~call'[d].alone
  BY <1>1 DEF Spawn, NoCall
<1> QED
  BY <1>2, <1>3 DEF Undisturbed, Retired

LEMMA AloneInvariant == Spec => [](TypeInv /\ Undisturbed /\ Retired)
<1>1. Init => TypeInv /\ Undisturbed /\ Retired
  BY InitTyped DEF Init, Undisturbed, Retired, NoCall
<1>2. TypeInv /\ Undisturbed /\ Retired /\ [Next]_vars => (TypeInv /\ Undisturbed /\ Retired)'
  <2> SUFFICES ASSUME TypeInv, Undisturbed, Retired, [Next]_vars PROVE Undisturbed' /\ Retired'
    BY StepTyped
  <2>1. CASE UNCHANGED vars
    BY <2>1 DEF vars, Undisturbed, Retired, InCall, OthersOut, Quiet, Watching, Running
  <2> QED
    BY <2>1, SpawnAlone, BeginAlone, ManagerAlone, CallAlone, OthersAlone DEF Next
<1> QED
  BY <1>1, <1>2, PTL DEF Spec

(* RetiredStays: an archive that had the session to itself leaves its      *)
(* record in the archive, archived, until the next call.                   *)
THEOREM AloneArchiveLasts == Spec => []RetiredStays
<1>1. Retired => RetiredStays
  BY DEF Retired, RetiredStays
<1> QED
  BY <1>1, AloneInvariant, PTL

(* RecordKept: no step leaves a record that could be read unreadable in    *)
(* both directories, but for a write that a death tore.                    *)
THEOREM RecordStaysReadable == Spec => RecordKept
<1>1. TypeInv /\ [Next]_vars => (Readable => Readable' \/ "torn" \in {file', boxed'}) \/ UNCHANGED vars
  <2> SUFFICES ASSUME TypeInv, [Next]_vars, Readable, ~(UNCHANGED vars), "torn" \notin {file', boxed'}
               PROVE  file' \in Status \/ boxed' \in Status
    BY DEF Readable
  <2>0. file \in Ever /\ boxed \in Ever
    BY DEF TypeInv, Typed
  <2>1. ASSUME UNCHANGED boxed, file' = file \/ file' \in Status
        PROVE  file' \in Status \/ boxed' \in Status
    BY <2>1 DEF Readable
  <2>2. ASSUME NEW c \in Callers, CallStep(c) PROVE file' \in Status \/ boxed' \in Status
    <3>1. CASE Move(c)
      BY <2>0, <3>1 DEF Move, Readable, Ever
    <3>2. CASE Persist(c)
      BY <2>1, <3>2 DEF Persist, TypeInv, Typed, Call
    <3> QED
      BY <2>1, <2>2, <3>1, <3>2 DEF CallStep, Popen, PopenFails, Own, StartWatcher, Seed, WriteStdin,
         KillChild, MarkArchived
  <2>3. ASSUME NEW p \in Procs, Exit(p) \/ WatchStep(p) PROVE file' \in Status \/ boxed' \in Status
    BY <2>1, <2>3 DEF Exit, WatchStep, WatcherWakes, WatcherSets, WatcherPersists, TypeInv, Typed, Watch
  <2>4. ASSUME NEW m \in Managers, List(m) \/ Crash(m) PROVE file' \in Status \/ boxed' \in Status
    BY <2>1, <2>4 DEF List, Crash
  <2>5. ASSUME NEW c \in Callers, NEW m \in Managers,
               Spawn(c, m) \/ Send(c, m) \/ Reactivate(c, m) \/ Archive(c, m)
        PROVE  file' \in Status \/ boxed' \in Status
    BY <2>1, <2>5 DEF Spawn, Send, Reactivate, Archive
  <2> QED
    BY <2>2, <2>3, <2>4, <2>5 DEF Next
<1>2. TypeInv /\ [Next]_vars => [Readable => Readable' \/ "torn" \in {file', boxed'}]_vars
  BY <1>1
<1> QED
  BY <1>2, TypeInvariant, PTL DEF Spec, RecordKept

--------------------------------------------------------------------------------
(* The shell *)

Shown == {"no", "once", "again"}

\* A message that was announced counts as seen.
MailInv ==
    /\ seen \subseteq Notes
    /\ announced \in [Notes -> Shown] /\ \A m \in Notes : announced[m] # "no" => m \in seen
    /\ AnnouncedOnce
    /\ phase = "boot" => \A m \in Notes : announced[m] = "no"

\* Each session there is is known once, or is still to be read in.
SessionsInv ==
    /\ known \in Seq(Sessions) /\ IsInjective(known)
    /\ status \in [Sessions -> {"unborn", "archived", "open"}]
    /\ ToSet(known) \cap abroad = {}
    /\ ToSet(known) \cup abroad = {s \in Sessions : status[s] # "unborn"}

ShellInv ==
    /\ SessionsInv /\ MailInv
    /\ shellActive \in Sessions \cup {None} /\ ActiveIsMeant
    /\ lines \in Seq(Lines \cup {EOF})
    /\ phase \in {"boot", "loop", "read", "window", "over"}

\* The first of a list of places.
LEMMA FirstIsThere ==
    ASSUME NEW at \in SUBSET Nat, at # {} PROVE (CHOOSE k \in at : \A j \in at : k <= j) \in at
BY LeastElement

\* What a name is resolved to is a session of the list that answers, if there is one.
LEMMA ResolvedAnswers ==
    ASSUME NEW ks \in Seq(Sessions), NEW i
    PROVE  /\ ResolvedSession(ks, i) # None =>
                 ResolvedSession(ks, i) \in ToSet(ks) /\ AnswersTo(ResolvedSession(ks, i), i)
           /\ \A s \in ToSet(ks) : AnswersTo(s, i) => ResolvedSession(ks, i) # None
<1> DEFINE at == {k \in 1 .. Len(ks) : AnswersTo(ks[k], i)}
           first == CHOOSE k \in at : \A j \in at : k <= j
<1>1. CASE at = {}
  <2>1. ResolvedSession(ks, i) = None
    BY <1>1 DEF ResolvedSession
  <2>2. \A s \in ToSet(ks) : ~AnswersTo(s, i)
    BY <1>1 DEF ToSet
  <2> QED
    BY <2>1, <2>2
<1>2. CASE at # {}
  <2>1. first \in at
    <3>1. at \subseteq Nat
      OBVIOUS
    <3> HIDE DEF at
    <3> QED
      BY <1>2, <3>1, FirstIsThere
  <2>2. ResolvedSession(ks, i) = ks[first]
    BY <1>2 DEF ResolvedSession
  <2> HIDE DEF first
  <2>3. ks[first] \in ToSet(ks) /\ AnswersTo(ks[first], i) /\ ks[first] \in Sessions
    BY <2>1 DEF ToSet
  <2>4. None \notin Sessions
    BY DEF None, Sessions
  <2> QED
    BY <2>2, <2>3, <2>4
<1> QED
  BY <1>1, <1>2

\* Two lists after another that share nothing, and a list with one more.
LEMMA Joined ==
    ASSUME NEW S, NEW a \in Seq(S), NEW b \in Seq(S), IsInjective(a), IsInjective(b), ToSet(a) \cap ToSet(b) = {}
    PROVE  a \o b \in Seq(S) /\ IsInjective(a \o b) /\ ToSet(a \o b) = ToSet(a) \cup ToSet(b)
<1> DEFINE c == a \o b
<1>1. /\ c \in Seq(S) /\ Len(a) \in Nat /\ Len(b) \in Nat /\ Len(c) = Len(a) + Len(b)
      /\ DOMAIN a = 1 .. Len(a) /\ DOMAIN b = 1 .. Len(b) /\ DOMAIN c = 1 .. Len(c)
  OBVIOUS
<1>2. /\ \A k \in 1 .. Len(a) : c[k] = a[k]
      /\ \A k \in 1 .. Len(b) : c[Len(a) + k] = b[k]
  OBVIOUS
<1> HIDE DEF c
<1>3. \A k \in DOMAIN c : \/ k \in DOMAIN a /\ c[k] = a[k]
                          \/ k - Len(a) \in DOMAIN b /\ c[k] = b[k - Len(a)]
  <2> SUFFICES ASSUME NEW k \in DOMAIN c, k \notin DOMAIN a
               PROVE  k - Len(a) \in DOMAIN b /\ c[k] = b[k - Len(a)]
    BY <1>1, <1>2
  <2>1. k - Len(a) \in 1 .. Len(b) /\ Len(a) + (k - Len(a)) = k
    BY <1>1
  <2> QED
    BY <1>1, <1>2, <2>1
<1>4. ToSet(c) = ToSet(a) \cup ToSet(b)
  <2>1. ToSet(a) \subseteq ToSet(c) /\ ToSet(b) \subseteq ToSet(c)
    <3>1. \A k \in 1 .. Len(a) : k \in 1 .. Len(c)
      BY <1>1
    <3>2. \A k \in 1 .. Len(b) : Len(a) + k \in 1 .. Len(c)
      BY <1>1
    <3> QED
      BY <1>1, <1>2, <3>1, <3>2 DEF ToSet
  <2>2. ASSUME NEW k \in DOMAIN c PROVE c[k] \in ToSet(a) \cup ToSet(b)
    <3>1. CASE k \in DOMAIN a /\ c[k] = a[k]
      BY <3>1 DEF ToSet
    <3>2. CASE k - Len(a) \in DOMAIN b /\ c[k] = b[k - Len(a)]
      BY <3>2 DEF ToSet
    <3> QED
      BY <1>3, <3>1, <3>2
  <2>3. ToSet(c) \subseteq ToSet(a) \cup ToSet(b)
    BY <2>2 DEF ToSet
  <2> QED
    BY <2>1, <2>3
<1>5. IsInjective(c)
  <2> SUFFICES ASSUME NEW j \in DOMAIN c, NEW k \in DOMAIN c, c[j] = c[k] PROVE j = k
    BY DEF IsInjective
  <2>1. j \in Nat /\ k \in Nat
    BY <1>1
  <2>2. \A x \in DOMAIN a, y \in DOMAIN b : a[x] # b[y]
    BY DEF ToSet
  <2>3. CASE j \in DOMAIN a /\ c[j] = a[j] /\ k \in DOMAIN a /\ c[k] = a[k]
    BY <2>3 DEF IsInjective
  <2>4. CASE j - Len(a) \in DOMAIN b /\ c[j] = b[j - Len(a)] /\ k - Len(a) \in DOMAIN b /\ c[k] = b[k - Len(a)]
    <3>1. j - Len(a) = k - Len(a)
      BY <2>4 DEF IsInjective
    <3> QED
      BY <1>1, <2>1, <3>1
  <2> QED
    BY <1>3, <2>2, <2>3, <2>4
<1> QED
  BY <1>1, <1>4, <1>5 DEF c

LEMMA OneMore ==
    ASSUME NEW S, NEW a \in Seq(S), NEW s \in S, IsInjective(a), s \notin ToSet(a)
    PROVE  Append(a, s) \in Seq(S) /\ IsInjective(Append(a, s)) /\ ToSet(Append(a, s)) = ToSet(a) \cup {s}
<1> DEFINE c == Append(a, s)
<1>1. /\ c \in Seq(S) /\ Len(a) \in Nat /\ DOMAIN a = 1 .. Len(a) /\ DOMAIN c = 1 .. Len(a) + 1
      /\ c[Len(a) + 1] = s /\ \A k \in 1 .. Len(a) : c[k] = a[k]
  OBVIOUS
<1> HIDE DEF c
<1>2. \A k \in DOMAIN c : (k \in DOMAIN a /\ c[k] = a[k]) \/ (k = Len(a) + 1 /\ c[k] = s)
  BY <1>1
<1>3. \A k \in DOMAIN a : a[k] # s
  BY DEF ToSet
<1>4. IsInjective(c)
  BY <1>2, <1>3 DEF IsInjective
<1>5. ToSet(c) = ToSet(a) \cup {s}
  <2>1. ToSet(a) \subseteq ToSet(c) /\ s \in ToSet(c)
    BY <1>1 DEF ToSet
  <2> QED
    BY <1>2, <2>1 DEF ToSet
<1> QED
  BY <1>1, <1>4, <1>5 DEF c

\* What is read in comes after what is known, each of it once.
LEMMA ReadIn ==
    ASSUME NEW ks \in Seq(Sessions), IsInjective(ks), abroad \subseteq Sessions, ToSet(ks) \cap abroad = {},
           HydrateAfter(ks)
    PROVE  /\ known' \in Seq(Sessions) /\ IsInjective(known') /\ abroad' = {}
           /\ ToSet(known') = ToSet(ks) \cup abroad
<1>1. PICK order \in Bijection(1 .. Cardinality(abroad), abroad) : known' = ks \o order
  BY DEF HydrateAfter
<1>2. Cardinality(abroad) \in Nat
  <2>1. IsFiniteSet(Sessions)
    BY ShellAssumption, FS_Interval DEF Sessions
  <2> QED
    BY <2>1, FS_Subset, FS_CardinalityType
<1>3. /\ order \in [1 .. Cardinality(abroad) -> abroad] /\ IsInjective(order)
      /\ \A s \in abroad : \E k \in 1 .. Cardinality(abroad) : order[k] = s
  BY DEF Bijection, Injection, Surjection
<1>4. order \in Seq(Sessions) /\ ToSet(order) = abroad
  <2>1. order \in Seq(abroad)
    BY <1>2, <1>3
  <2>2. ToSet(order) = abroad
    BY <1>3 DEF ToSet
  <2> QED
    BY <2>1, <2>2
<1>5. ks \o order \in Seq(Sessions) /\ IsInjective(ks \o order) /\ ToSet(ks \o order) = ToSet(ks) \cup abroad
  BY <1>3, <1>4, Joined
<1> QED
  BY <1>1, <1>5 DEF HydrateAfter

--------------------------------------------------------------------------------
(* The lines *)

\* What the lines may change.
SessionPart == SessionsInv /\ shellActive \in Sessions \cup {None} /\ ActiveIsMeant

\* A send, a rename or nothing: sessions are read in, and one of them may change.
LEMMA HydrateKeeps ==
    ASSUME SessionsInv, Hydrate
    PROVE  /\ known' \in Seq(Sessions) /\ IsInjective(known') /\ abroad' = {}
           /\ ToSet(known') = There /\ ToSet(known) \subseteq ToSet(known')
           /\ There = {s \in Sessions : status[s] # "unborn"}
<1>1. /\ known \in Seq(Sessions) /\ IsInjective(known) /\ abroad \subseteq Sessions
      /\ ToSet(known) \cap abroad = {} /\ HydrateAfter(known)
  BY DEF SessionsInv, Hydrate
<1> QED
  BY <1>1, ReadIn DEF There, SessionsInv

LEMMA AfterHydrate ==
    ASSUME SessionPart, Hydrate, NEW s \in ToSet(known'), NEW x \in {"open", "archived"},
           status' \in {status, [status EXCEPT ![s] = x]}
    PROVE  /\ SessionsInv' /\ s \in Sessions /\ (shellActive # None => shellActive \in ToSet(known'))
           /\ \A t \in Sessions \ {s} : status'[t] = status[t]
<1>1. SessionsInv /\ status \in [Sessions -> {"unborn", "archived", "open"}]
  BY DEF SessionPart, SessionsInv
<1>2. /\ known' \in Seq(Sessions) /\ IsInjective(known') /\ abroad' = {}
      /\ ToSet(known') = {t \in Sessions : status[t] # "unborn"} /\ ToSet(known) \subseteq ToSet(known')
  BY <1>1, HydrateKeeps
<1>3. s \in Sessions /\ status[s] # "unborn"
  BY <1>2
<1>4. /\ status' \in [Sessions -> {"unborn", "archived", "open"}]
      /\ \A t \in Sessions \ {s} : status'[t] = status[t]
      /\ status'[s] # "unborn"
  BY <1>1, <1>3
<1>5. {t \in Sessions : status'[t] # "unborn"} = {t \in Sessions : status[t] # "unborn"}
  BY <1>3, <1>4
<1>6. SessionsInv'
  BY <1>2, <1>4, <1>5 DEF SessionsInv
<1> QED
  BY <1>2, <1>3, <1>4, <1>6 DEF SessionPart, ActiveIsMeant

LEMMA SendToKeeps ==
    ASSUME SessionPart, Hydrate, NEW s \in ToSet(known'), SendTo(s), UNCHANGED <<shellActive, targeted>>
    PROVE  SessionPart'
<1>1. status' \in {status, [status EXCEPT ![s] = "open"]}
  BY DEF SendTo, Sends, Raises
<1>2. /\ SessionsInv' /\ s \in Sessions /\ (shellActive # None => shellActive \in ToSet(known'))
      /\ \A t \in Sessions \ {s} : status'[t] = status[t]
  BY <1>1, AfterHydrate
<1>3. status'[s] = "archived" => status[s] = "archived"
  BY <1>1, <1>2 DEF SessionPart, SessionsInv
<1>4. /\ shellActive' = shellActive /\ targeted' = targeted /\ shellActive \in Sessions \cup {None}
      /\ shellActive # None => (status[shellActive] = "archived" => shellActive \in targeted)
  BY DEF SessionPart, ActiveIsMeant
<1>5. ActiveIsMeant'
  <2> SUFFICES ASSUME shellActive # None, status'[shellActive] = "archived" PROVE shellActive \in targeted
    BY <1>2, <1>4 DEF ActiveIsMeant
  <2> QED
    BY <1>2, <1>3, <1>4
<1> QED
  BY <1>2, <1>4, <1>5 DEF SessionPart

\* Sessions are read in, or not, and none changes.
LEMMA OnlyRead ==
    ASSUME SessionPart, Hydrate \/ UNCHANGED <<known, abroad>>, UNCHANGED status
    PROVE  SessionsInv' /\ ToSet(known) \subseteq ToSet(known')
<1>1. CASE Hydrate
  <2>1. SessionsInv
    BY DEF SessionPart
  <2> QED
    BY <1>1, <2>1, HydrateKeeps DEF SessionsInv, There
<1>2. CASE UNCHANGED <<known, abroad>>
  BY <1>2 DEF SessionPart, SessionsInv
<1> QED
  BY <1>1, <1>2

\* One is spawned, with or without a reading of the others.
LEMMA SpawnKeeps ==
    ASSUME SessionPart, NEW s \in Sessions, Unspawned(s), status' = [status EXCEPT ![s] = "open"],
           \/ known' = Append(known, s) /\ UNCHANGED abroad
           \/ HydrateAfter(Append(known, s)),
           \/ shellActive' = s
           \/ UNCHANGED shellActive,
           UNCHANGED targeted
    PROVE  SessionPart'
<1>1. /\ known \in Seq(Sessions) /\ IsInjective(known) /\ ToSet(known) \cap abroad = {}
      /\ ToSet(known) \cup abroad = {t \in Sessions : status[t] # "unborn"}
      /\ status \in [Sessions -> {"unborn", "archived", "open"}] /\ status[s] = "unborn"
  BY DEF SessionPart, SessionsInv, Unspawned
<1>2. s \notin ToSet(known) /\ s \notin abroad
  BY <1>1
<1>3. /\ Append(known, s) \in Seq(Sessions) /\ IsInjective(Append(known, s))
      /\ ToSet(Append(known, s)) = ToSet(known) \cup {s}
  BY <1>1, <1>2, OneMore
<1>4. /\ known' \in Seq(Sessions) /\ IsInjective(known') /\ ToSet(known') \cap abroad' = {}
      /\ ToSet(known') \cup abroad' = ToSet(known) \cup abroad \cup {s}
      /\ ToSet(known) \cup {s} \subseteq ToSet(known')
  <2>1. CASE known' = Append(known, s) /\ UNCHANGED abroad
    BY <1>1, <1>2, <1>3, <2>1
  <2>2. CASE HydrateAfter(Append(known, s))
    <3>1. abroad \subseteq Sessions /\ ToSet(Append(known, s)) \cap abroad = {}
      BY <1>1, <1>2, <1>3
    <3>2. /\ known' \in Seq(Sessions) /\ IsInjective(known') /\ abroad' = {}
          /\ ToSet(known') = ToSet(Append(known, s)) \cup abroad
      BY <1>3, <2>2, <3>1, ReadIn
    <3> QED
      BY <1>3, <3>2
  <2> QED
    BY <2>1, <2>2
<1>5. /\ status' \in [Sessions -> {"unborn", "archived", "open"}] /\ status'[s] = "open"
      /\ \A t \in Sessions \ {s} : status'[t] = status[t]
  BY <1>1
<1>6. {t \in Sessions : status'[t] # "unborn"} = {t \in Sessions : status[t] # "unborn"} \cup {s}
  BY <1>5
<1>7. SessionsInv'
  BY <1>1, <1>4, <1>5, <1>6 DEF SessionsInv
<1>8. ActiveIsMeant' /\ shellActive' \in Sessions \cup {None}
  <2>1. CASE shellActive' = s
    BY <1>4, <1>5, <2>1 DEF ActiveIsMeant
  <2>2. CASE UNCHANGED shellActive
    BY <1>2, <1>4, <1>5, <2>2 DEF SessionPart, ActiveIsMeant
  <2> QED
    BY <2>1, <2>2
<1> QED
  BY <1>7, <1>8 DEF SessionPart

LEMMA ResolvedIsKnown ==
    ASSUME SessionPart, Hydrate, NEW i
    PROVE  /\ ResolvedSession(known', i) # None =>
                 /\ ResolvedSession(known', i) \in ToSet(known') /\ ResolvedSession(known', i) \in There
                 /\ AnswersTo(ResolvedSession(known', i), i)
           /\ \A s \in There : AnswersTo(s, i) => ResolvedSession(known', i) # None
<1>1. known' \in Seq(Sessions) /\ ToSet(known') = There
  BY HydrateKeeps DEF SessionPart
<1> DEFINE ks == known'
<1>2. ks \in Seq(Sessions) /\ ToSet(ks) = There
  BY <1>1
<1> HIDE DEF ks
<1>3. /\ ResolvedSession(ks, i) # None =>
            ResolvedSession(ks, i) \in ToSet(ks) /\ AnswersTo(ResolvedSession(ks, i), i)
      /\ \A s \in ToSet(ks) : AnswersTo(s, i) => ResolvedSession(ks, i) # None
  BY <1>2, ResolvedAnswers
<1> QED
  BY <1>2, <1>3 DEF ks

LEMMA TextKeeps == ASSUME SessionPart, NEW l, Text(l) PROVE SessionPart'
<1>1. CASE shellActive = None
  BY <1>1 DEF Text, sessions, SessionPart, SessionsInv, ActiveIsMeant
<1>2. CASE shellActive # None
  <2>1. Hydrate /\ SendTo(shellActive) /\ UNCHANGED <<shellActive, targeted>>
    BY <1>2 DEF Text
  <2>2. shellActive \in ToSet(known')
    BY <1>2, <2>1, HydrateKeeps DEF SessionPart, ActiveIsMeant
  <2> QED
    BY <2>1, <2>2, SendToKeeps
<1> QED
  BY <1>1, <1>2

LEMMA SendLineKeeps ==
    ASSUME SessionPart, NEW l, SendLine(l)
    PROVE  /\ SessionPart'
           /\ IF shellLast'.told THEN shellLast'.to = None
              ELSE shellLast'.to \in There /\ AnswersTo(shellLast'.to, l.whom)
<1> DEFINE s == ResolvedSession(known', l.whom)
<1>1. Hydrate /\ UNCHANGED <<shellActive, targeted>>
  BY DEF SendLine
<1>2. s # None => s \in ToSet(known') /\ s \in There /\ AnswersTo(s, l.whom)
  BY <1>1, ResolvedIsKnown
<1>3. CASE s = None
  <2>1. Happened(None, TRUE) /\ UNCHANGED status
    BY <1>3 DEF SendLine
  <2>2. SessionsInv' /\ ToSet(known) \subseteq ToSet(known')
    BY <1>1, <2>1, OnlyRead
  <2>3. ActiveIsMeant'
    BY <1>1, <2>1, <2>2 DEF SessionPart, ActiveIsMeant
  <2> QED
    BY <1>1, <2>1, <2>2, <2>3 DEF SessionPart, Happened
<1>4. CASE s # None
  <2>1. SendTo(s)
    BY <1>4 DEF SendLine
  <2> HIDE DEF s
  <2>2. SessionPart'
    BY <1>1, <1>2, <1>4, <2>1, SendToKeeps
  <2>3. IF shellLast'.told THEN shellLast'.to = None ELSE shellLast'.to = s
    BY <2>1 DEF SendTo, Happened
  <2> QED
    BY <1>2, <1>4, <2>2, <2>3
<1> QED
  BY <1>3, <1>4

LEMMA SpawnLineKeeps == ASSUME SessionPart, NEW l, SpawnLine(l) PROVE SessionPart'
<1>1. PICK s \in Sessions :
        /\ Unspawned(s) /\ status' = [status EXCEPT ![s] = "open"]
        /\ \/ known' = Append(known, s) /\ UNCHANGED abroad
           \/ HydrateAfter(Append(known, s))
        /\ shellActive' = s \/ UNCHANGED shellActive
        /\ UNCHANGED targeted
  <2>1. CASE Spawned(l.named, l.named # Unnamed /\ l.seed)
    BY <2>1 DEF Spawned
  <2>2. CASE SpawnFails(l.named)
    BY <2>2 DEF SpawnFails
  <2> QED
    BY <2>1, <2>2 DEF SpawnLine
<1> QED
  BY <1>1, SpawnKeeps

LEMMA WishLineKeeps == ASSUME SessionPart, NEW l, WishLine(l) PROVE SessionPart'
<1>1. CASE shellActive = None
  <2>1. PICK s \in Sessions :
          /\ Unspawned(s) /\ status' = [status EXCEPT ![s] = "open"]
          /\ \/ known' = Append(known, s) /\ UNCHANGED abroad
             \/ HydrateAfter(Append(known, s))
          /\ shellActive' = s \/ UNCHANGED shellActive
          /\ UNCHANGED targeted
    BY <1>1 DEF WishLine, SpawnFails
  <2> QED
    BY <2>1, SpawnKeeps
<1>2. CASE shellActive # None
  <2>1. Hydrate /\ SendTo(shellActive) /\ UNCHANGED <<shellActive, targeted>>
    BY <1>2 DEF WishLine
  <2>2. shellActive \in ToSet(known')
    BY <1>2, <2>1, HydrateKeeps DEF SessionPart, ActiveIsMeant
  <2> QED
    BY <2>1, <2>2, SendToKeeps
<1> QED
  BY <1>1, <1>2

LEMMA TargetLineKeeps ==
    ASSUME SessionPart, NEW l, TargetLine(l)
    PROVE  /\ SessionPart'
           /\ \A s \in There : AnswersTo(s, l.whom) => AnswersTo(shellActive', l.whom)
<1> DEFINE s == ResolvedSession(known', l.whom)
<1>1. Hydrate /\ UNCHANGED <<status, name>>
  BY DEF TargetLine
<1>2. /\ s # None => s \in ToSet(known') /\ s \in There /\ AnswersTo(s, l.whom)
      /\ \A t \in There : AnswersTo(t, l.whom) => s # None
  BY <1>1, ResolvedIsKnown
<1>3. SessionsInv' /\ ToSet(known) \subseteq ToSet(known')
  BY <1>1, OnlyRead
<1>4. CASE s = None
  <2>1. UNCHANGED <<shellActive, targeted>>
    BY <1>4 DEF TargetLine
  <2>2. ActiveIsMeant'
    BY <1>1, <1>3, <2>1 DEF SessionPart, ActiveIsMeant
  <2> QED
    BY <1>2, <1>3, <1>4, <2>1, <2>2 DEF SessionPart
<1>5. CASE s # None
  <2>1. shellActive' = s /\ targeted' = targeted \cup {s}
    BY <1>5 DEF TargetLine
  <2> HIDE DEF s
  <2>2. s \in Sessions
    BY <1>2, <1>5 DEF There, SessionPart, SessionsInv
  <2>3. ActiveIsMeant'
    BY <1>2, <1>5, <2>1 DEF ActiveIsMeant
  <2> QED
    BY <1>2, <1>3, <1>5, <2>1, <2>2, <2>3 DEF SessionPart
<1> QED
  BY <1>4, <1>5

LEMMA ArchiveLineKeepsAll == ASSUME SessionPart, NEW l, ArchiveLine(l) PROVE SessionPart'
<1> DEFINE s == ResolvedSession(known', l.whom)
<1>1. Hydrate
  BY DEF ArchiveLine
<1>2. s # None => s \in ToSet(known')
  BY <1>1, ResolvedIsKnown
<1>3. CASE s = None
  <2>1. UNCHANGED <<status, shellActive, targeted>>
    BY <1>3 DEF ArchiveLine
  <2>2. SessionsInv' /\ ToSet(known) \subseteq ToSet(known')
    BY <1>1, <2>1, OnlyRead
  <2>3. ActiveIsMeant'
    BY <2>1, <2>2 DEF SessionPart, ActiveIsMeant
  <2> QED
    BY <2>1, <2>2, <2>3 DEF SessionPart
<1>4. CASE s # None
  <2>1. /\ status' = [status EXCEPT ![s] = "archived"]
        /\ shellActive' = IF shellActive = s THEN None ELSE shellActive
        /\ targeted' = targeted \ {s}
    BY <1>4 DEF ArchiveLine
  <2> HIDE DEF s
  <2>2. /\ SessionsInv' /\ s \in Sessions /\ (shellActive # None => shellActive \in ToSet(known'))
        /\ \A t \in Sessions \ {s} : status'[t] = status[t]
    BY <1>1, <1>2, <1>4, <2>1, AfterHydrate
  <2>3. shellActive' \in Sessions \cup {None}
    BY <2>1 DEF SessionPart
  <2>4. ActiveIsMeant'
    <3> SUFFICES ASSUME shellActive' # None
                 PROVE  shellActive' \in ToSet(known') /\ (status'[shellActive'] = "archived" => shellActive' \in targeted')
      BY DEF ActiveIsMeant
    <3>1. shellActive' = shellActive /\ shellActive # s /\ shellActive # None /\ shellActive \in Sessions
      BY <2>1 DEF SessionPart
    <3>2. status'[shellActive] = status[shellActive]
      BY <2>2, <3>1
    <3>3. status[shellActive] = "archived" => shellActive \in targeted
      BY <3>1 DEF SessionPart, ActiveIsMeant
    <3> QED
      BY <2>1, <2>2, <3>1, <3>2, <3>3
  <2> QED
    BY <2>2, <2>3, <2>4 DEF SessionPart
<1> QED
  BY <1>3, <1>4

LEMMA ClearKeeps == ASSUME SessionPart, NEW l, Clear(l) PROVE SessionPart'
BY DEF Clear, sessions, SessionPart, SessionsInv, ActiveIsMeant

LEMMA OtherKeeps == ASSUME SessionPart, NEW l, Other(l) PROVE SessionPart'
<1>1. (Hydrate \/ UNCHANGED <<known, abroad>>) /\ UNCHANGED <<status, shellActive, targeted>>
  BY DEF Other
<1>2. SessionsInv' /\ ToSet(known) \subseteq ToSet(known')
  BY <1>1, OnlyRead
<1> QED
  BY <1>1, <1>2 DEF SessionPart, ActiveIsMeant

\* What a line that was taken has done.
MeantStep ==
    Handled("send") =>
         IF shellLast'.told THEN shellLast'.to = None
         ELSE LET answering == {s \in There : AnswersTo(s, Head(lines).whom)}
              IN  shellLast'.to \in answering

FoundStep ==
    Handled("target") =>
         \A s \in There : AnswersTo(s, Head(lines).whom) => AnswersTo(shellActive', Head(lines).whom)

LEMMA HandleKeeps == ASSUME ShellInv, Handle PROVE ShellInv' /\ MeantStep /\ FoundStep
<1> DEFINE l == Head(lines)
<1>1. SessionPart /\ MailInv
  BY DEF ShellInv, SessionPart
<1>2. /\ Text(l) \/ SendLine(l) \/ SpawnLine(l) \/ WishLine(l) \/ Clear(l) \/ TargetLine(l)
            \/ ArchiveLine(l) \/ Other(l)
      /\ phase' \in {"over", "window", "loop"} /\ lines # <<>> /\ lines' = Tail(lines) /\ UNCHANGED mail
  BY DEF Handle
<1>3. lines' \in Seq(Lines \cup {EOF})
  BY <1>2 DEF ShellInv
<1> HIDE DEF l
<1>4. SessionPart'
  BY <1>1, <1>2, TextKeeps, SendLineKeeps, SpawnLineKeeps, WishLineKeeps, ClearKeeps, TargetLineKeeps,
     ArchiveLineKeepsAll, OtherKeeps
<1>5. MailInv'
  <2>1. phase' # "boot" /\ UNCHANGED <<seen, announced>>
    BY <1>2 DEF mail
  <2> QED
    BY <1>1, <2>1 DEF MailInv, AnnouncedOnce
<1>6. l.op = "send" => SendLine(l)
  BY <1>2 DEF Text, SpawnLine, WishLine, Clear, TargetLine, ArchiveLine, Other
<1>7. l.op = "target" => TargetLine(l)
  BY <1>2 DEF Text, SpawnLine, WishLine, Clear, SendLine, ArchiveLine, Other
<1>8. MeantStep
  BY <1>1, <1>6, SendLineKeeps DEF MeantStep, Handled, l
<1>9. FoundStep
  BY <1>1, <1>7, TargetLineKeeps DEF FoundStep, Handled, l
<1> QED
  BY <1>2, <1>3, <1>4, <1>5, <1>8, <1>9 DEF ShellInv, SessionPart

--------------------------------------------------------------------------------
(* The other steps *)

LEMMA NoLineTaken ==
    ASSUME lines \in Seq(Lines \cup {EOF}), \/ lines' = lines
                                            \/ \E l \in Lines \cup {EOF} : lines' = Append(lines, l)
    PROVE  MeantStep /\ FoundStep
<1>1. lines # <<>> => lines' # Tail(lines)
  <2> SUFFICES ASSUME lines # <<>> PROVE lines' # Tail(lines)
    OBVIOUS
  <2>1. Len(Tail(lines)) = Len(lines) - 1 /\ Len(lines) \in Nat
    OBVIOUS
  <2>2. Len(lines') \in {Len(lines), Len(lines) + 1}
    OBVIOUS
  <2> QED
    BY <2>1, <2>2
<1> QED
  BY <1>1 DEF MeantStep, FoundStep, Handled

LEMMA BootKeeps == ASSUME ShellInv, Boot PROVE SessionPart' /\ MailInv'
<1>1. SessionPart /\ MailInv /\ UNCHANGED <<abroad, announced, targeted>>
  BY DEF ShellInv, SessionPart, Boot
<1>2. SessionPart'
  <2>1. CASE UNCHANGED <<known, status, name, shellActive>>
    BY <1>1, <2>1 DEF SessionPart, SessionsInv, ActiveIsMeant
  <2>2. CASE \E s \in Sessions : /\ Unspawned(s) /\ known' = Append(known, s)
                                 /\ status' = [status EXCEPT ![s] = "open"] /\ shellActive' = s
    BY <1>1, <2>2, SpawnKeeps
  <2> QED
    BY <2>1, <2>2 DEF Boot
<1>3. MailInv'
  <2>1. announced' = announced /\ (\A m \in Notes : announced[m] = "no") /\ seen' \subseteq Notes /\ phase' = "loop"
    BY <1>1 DEF MailInv, Boot
  <2> QED
    BY <1>1, <2>1 DEF MailInv, AnnouncedOnce
<1> QED
  BY <1>2, <1>3

LEMMA PollKeeps == ASSUME ShellInv, RoundPolls PROVE MailInv'
<1> DEFINE new == {m \in Notes \ seen : note[m] # "none"}
<1>1. /\ announced' = [m \in Notes |-> IF m \notin new THEN announced[m]
                                       ELSE IF announced[m] = "no" THEN "once" ELSE "again"]
      /\ seen' = seen \cup new /\ phase' = "read"
  BY DEF RoundPolls, Announced
<1>2. seen \subseteq Notes /\ new \subseteq Notes \ seen /\ announced \in [Notes -> Shown]
  BY DEF ShellInv, MailInv
<1> HIDE DEF new
<1>3. \A m \in Notes : IF m \in new THEN announced'[m] = "once" ELSE announced'[m] = announced[m]
  <2>1. \A m \in new : announced[m] = "no"
    BY <1>2 DEF ShellInv, MailInv
  <2> QED
    BY <1>1, <2>1
<1>4. announced' \in [Notes -> Shown]
  BY <1>1, <1>2 DEF Shown
<1>5. \A m \in Notes : (announced'[m] # "no" => m \in seen') /\ announced'[m] # "again"
  BY <1>1, <1>3 DEF ShellInv, MailInv, AnnouncedOnce
<1> QED
  BY <1>1, <1>2, <1>4, <1>5 DEF MailInv, AnnouncedOnce

LEMMA SpawnAbroadKeeps ==
    ASSUME ShellInv, NEW s \in Sessions, NEW n \in DisplayNames, SpawnAbroad(s, n) PROVE SessionPart'
<1>1. /\ known \in Seq(Sessions) /\ IsInjective(known) /\ ToSet(known) \cap abroad = {}
      /\ ToSet(known) \cup abroad = {t \in Sessions : status[t] # "unborn"}
      /\ status \in [Sessions -> {"unborn", "archived", "open"}] /\ status[s] = "unborn"
  BY DEF ShellInv, SessionsInv, SpawnAbroad, Unspawned
<1>2. s \notin ToSet(known) /\ s \notin abroad
  BY <1>1
<1>3. /\ abroad' = abroad \cup {s} /\ status' = [status EXCEPT ![s] = "open"]
      /\ UNCHANGED <<known, shellActive, targeted>>
  BY DEF SpawnAbroad
<1>4. /\ status' \in [Sessions -> {"unborn", "archived", "open"}] /\ status'[s] = "open"
      /\ \A t \in Sessions \ {s} : status'[t] = status[t]
  BY <1>1, <1>3
<1>5. {t \in Sessions : status'[t] # "unborn"} = {t \in Sessions : status[t] # "unborn"} \cup {s}
  BY <1>4
<1>6. SessionsInv'
  BY <1>1, <1>2, <1>3, <1>4, <1>5 DEF SessionsInv
<1>7. ActiveIsMeant'
  BY <1>2, <1>3, <1>4 DEF ShellInv, ActiveIsMeant
<1> QED
  BY <1>3, <1>6, <1>7 DEF ShellInv, SessionPart

LEMMA ShellKeeps == ShellInv /\ [ShellNext]_shellVars => ShellInv' /\ MeantStep /\ FoundStep
<1> SUFFICES ASSUME ShellInv, [ShellNext]_shellVars PROVE ShellInv' /\ MeantStep /\ FoundStep
  OBVIOUS
<1>1. SessionPart /\ MailInv /\ lines \in Seq(Lines \cup {EOF})
  BY DEF ShellInv, SessionPart
<1>2. ASSUME SessionPart', MailInv', lines' = lines, phase' \in {"boot", "loop", "read", "window", "over"}
      PROVE  ShellInv' /\ MeantStep /\ FoundStep
  BY <1>1, <1>2, NoLineTaken DEF ShellInv, SessionPart
<1>3. CASE Boot
  BY <1>2, <1>3, BootKeeps DEF Boot
<1>4. ASSUME UNCHANGED <<sessions, shellActive, targeted>> PROVE SessionPart'
  BY <1>1, <1>4 DEF sessions, SessionPart, SessionsInv, ActiveIsMeant
<1>5. ASSUME UNCHANGED <<seen, announced>>, phase' = phase \/ phase' # "boot" PROVE MailInv'
  BY <1>1, <1>5 DEF MailInv, AnnouncedOnce
<1>6. CASE Round \/ NoLine \/ CloseWindow
  <2>1. UNCHANGED <<sessions, shellActive, targeted, seen, announced, lines>> /\ phase' \in {"loop", "read"}
    BY <1>6 DEF Round, NoLine, CloseWindow, mail
  <2> QED
    BY <1>2, <1>4, <1>5, <2>1
<1>7. CASE RoundPolls
  <2>1. UNCHANGED <<sessions, shellActive, targeted, lines>> /\ phase' = "read"
    BY <1>7 DEF RoundPolls
  <2> QED
    BY <1>2, <1>4, <1>7, <2>1, PollKeeps
<1>8. CASE Handle
  BY <1>8, HandleKeeps
<1>9. ASSUME NEW l \in Lines \cup {EOF}, Type(l) PROVE ShellInv' /\ MeantStep /\ FoundStep
  <2>1. UNCHANGED <<sessions, shellActive, targeted, seen, announced, phase>> /\ lines' = Append(lines, l)
    BY <1>9 DEF Type, mail
  <2>2. lines' \in Seq(Lines \cup {EOF})
    BY <1>1, <2>1
  <2>3. MeantStep /\ FoundStep
    BY <1>1, <2>1, NoLineTaken
  <2> QED
    BY <1>4, <1>5, <2>1, <2>2, <2>3 DEF ShellInv, SessionPart
<1>10. ASSUME NEW s \in Sessions, NEW n \in DisplayNames, SpawnAbroad(s, n) PROVE ShellInv' /\ MeantStep /\ FoundStep
  <2>1. UNCHANGED <<seen, announced, phase, lines>>
    BY <1>10 DEF SpawnAbroad, mail
  <2>2. phase \in {"boot", "loop", "read", "window", "over"}
    BY DEF ShellInv
  <2> QED
    BY <1>2, <1>5, <1>10, <2>1, <2>2, SpawnAbroadKeeps
<1>11. CASE (\E m \in Notes : Post(m)) \/ UNCHANGED shellVars
  <2>1. UNCHANGED <<sessions, shellActive, targeted, seen, announced, phase, lines>>
    BY <1>11 DEF Post, shellVars, mail
  <2>2. phase \in {"boot", "loop", "read", "window", "over"}
    BY DEF ShellInv
  <2> QED
    BY <1>2, <1>4, <1>5, <2>1, <2>2
<1> QED
  BY <1>3, <1>6, <1>7, <1>8, <1>9, <1>10, <1>11 DEF ShellNext, Loop

LEMMA ShellStarts == ShellInit => ShellInv
<1> SUFFICES ASSUME ShellInit PROVE ShellInv
  OBVIOUS
<1>1. SessionsInv
  <2>1. known = <<>> /\ abroad = {} /\ status = [s \in Sessions |-> "unborn"]
    BY DEF ShellInit
  <2>2. known \in Seq(Sessions) /\ DOMAIN known = {}
    BY <2>1
  <2>3. ToSet(known) = {} /\ IsInjective(known)
    BY <2>2 DEF ToSet, IsInjective
  <2> QED
    BY <2>1, <2>2, <2>3 DEF SessionsInv
<1>2. MailInv
  BY DEF ShellInit, MailInv, AnnouncedOnce, Shown
<1>3. lines \in Seq(Lines \cup {EOF})
  BY DEF ShellInit
<1> QED
  BY <1>1, <1>2, <1>3 DEF ShellInit, ShellInv, ActiveIsMeant

\* Whatever is typed and posted, and whatever other processes spawn: text goes to
\* sessions that are meant, or the user is told, and a message is announced once.
THEOREM ShellSound == ShellSpec => ShellIsSound
<1>1. ShellSpec => []ShellInv
  BY ShellStarts, ShellKeeps, PTL DEF ShellSpec
<1>2. ShellInv => ShellTypeOK /\ ActiveIsMeant /\ AnnouncedOnce
  BY DEF ShellInv, SessionsInv, MailInv, ShellTypeOK
<1>3. ShellInv /\ [ShellNext]_shellVars => [MeantStep]_shellVars /\ [FoundStep]_shellVars
  BY ShellKeeps
<1>4. ShellSpec => [][MeantStep]_shellVars /\ [][FoundStep]_shellVars
  BY <1>1, <1>3, PTL DEF ShellSpec
<1> QED
  BY <1>1, <1>2, <1>4, PTL DEF ShellIsSound, MeantIsReached, FoundIfThere, MeantStep, FoundStep
=============================================================================
