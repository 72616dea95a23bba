----------------------------- MODULE SessionManager -----------------------------
(***************************************************************************)
(* One session of the workflow tools (tools/workflow/session_manager.py):  *)
(* its record in each process that runs a SessionManager, its record file, *)
(* and the `claude` processes launched for it.  spawn, send, reactivate    *)
(* and archive run in caller threads that take no lock around them; every  *)
(* launch starts a watcher thread that waits for "the child" and then      *)
(* writes the record too.  The session's lines of output, its pid and the  *)
(* messages themselves are left out.                                       *)
(***************************************************************************)
EXTENDS Naturals, FiniteSets

CONSTANTS
    Managers,     \* processes with a SessionManager over one state directory
    Callers,      \* threads that call it
    MaxProcs,     \* bound: processes launched in a behaviour
    MaxCalls,     \* bound: calls in a behaviour
    MaxCrashes    \* bound: managers killed in a behaviour

ASSUME SessionManagerAssumption ==
    Managers # {} /\ {MaxProcs, MaxCalls, MaxCrashes} \subseteq Nat

VARIABLES
    entry,     \* the manager's _Internal: its record's status and its child
    file,      \* sessions/<id>.json: the status it holds, "absent" or "torn"
    boxed,     \* archive/session_<id>.json, in the same terms
    proc,      \* the launched processes: "unborn", "running" or "over"
    host,      \* the manager that launched each process
    watch,     \* the _watch_exit thread started for each process
    call,      \* the call each caller is in
    overlapped,  \* history: two calls, or a launch and a call, ran together
    retired,     \* history: nothing has entered since an archive; "alone" if it
                 \* had the session, with no process and no watcher, to itself
    calls, crashes

vars == <<entry, file, boxed, proc, host, watch, call, overlapped, retired, calls, crashes>>

Procs   == 1 .. MaxProcs
NoProc  == 0
Status  == {"spawning", "active", "idle", "archived"}   \* "idle": idle or error
NoEntry == [known |-> FALSE, status |-> "idle", child |-> NoProc]
NoCall  == [at |-> "idle", op |-> "none", mgr |-> CHOOSE m \in Managers : TRUE,
            new |-> NoProc, out |-> "idle", alone |-> FALSE]
NoWatch == [at |-> "none", on |-> NoProc, out |-> "idle"]

Running(p) == p # NoProc /\ proc[p] = "running"
Unborn     == {p \in Procs : proc[p] = "unborn"}
InCall(c)  == call[c].at # "idle"
OthersOut(c) == \A d \in Callers \ {c} : ~InCall(d)
Watching(p)  == watch[p].at \notin {"none", "done"}

Init ==
    /\ entry = [m \in Managers |-> NoEntry]
    /\ file = "absent"
    /\ boxed = "absent"
    /\ proc = [p \in Procs |-> "unborn"]
    /\ host = [p \in Procs |-> CHOOSE m \in Managers : TRUE]
    /\ watch = [p \in Procs |-> NoWatch]
    /\ call = [c \in Callers |-> NoCall]
    /\ overlapped = FALSE
    /\ retired = "no"
    /\ calls = 0
    /\ crashes = 0

\* A call begins: what it found, and whether it has the session to itself.
Enter(c, m, op, at) ==
    /\ call' = [d \in Callers |->
                  IF d = c THEN [NoCall EXCEPT !.at = at, !.op = op, !.mgr = m,
                                   !.alone = OthersOut(c) /\ \A p \in Procs : ~Watching(p) /\ ~Running(p)]
                  ELSE [call[d] EXCEPT !.alone = FALSE]]
    /\ overlapped' = (overlapped \/ ~OthersOut(c))
    /\ retired' = "no"
    /\ calls < MaxCalls
    /\ calls' = calls + 1

Goto(c, at) == call' = [call EXCEPT ![c].at = at]
Done(c)     == call' = [call EXCEPT ![c] = NoCall]

\* _persist takes the record as it is now; the write itself is a step later.
Snapshot(c, at, status) == call' = [call EXCEPT ![c].at = at, ![c].out = status]

\* The record as _hydrate leaves it, if the manager has one or can read one.
Hydrated(m) ==
    IF entry[m].known THEN entry[m]
    ELSE [known |-> TRUE, child |-> NoProc,
          status |-> IF file = "archived" THEN "archived" ELSE "idle"]
Found(m) == entry[m].known \/ file \in Status

Spawn(c, m) ==
    /\ ~InCall(c)
    /\ file = "absent" /\ boxed = "absent"
    /\ \A n \in Managers : ~entry[n].known
    /\ entry' = [entry EXCEPT ![m] = [known |-> TRUE, status |-> "spawning", child |-> NoProc]]
    /\ call' = [call EXCEPT ![c] = [NoCall EXCEPT !.at = "record", !.op = "spawn",
                                      !.mgr = m, !.out = "spawning"]]
    /\ UNCHANGED <<file, boxed, proc, host, watch, overlapped, retired, calls, crashes>>

\* Mutant: the child is taken for dead.
SendBlind(c, m) ==
    /\ ~InCall(c) /\ Found(m)
    /\ Enter(c, m, "send", "popen")
    /\ entry' = [entry EXCEPT ![m] = Hydrated(m)]
    /\ UNCHANGED <<file, boxed, proc, host, watch, crashes>>

\* send: hydrate, look up, and poll the child, with no lock held afterwards.
Send(c, m) ==
    /\ ~InCall(c) /\ Found(m)
    /\ Enter(c, m, "send", IF Running(Hydrated(m).child) THEN "stdin" ELSE "popen")
    /\ entry' = [entry EXCEPT ![m] = Hydrated(m)]
    /\ UNCHANGED <<file, boxed, proc, host, watch, crashes>>

Reactivate(c, m) ==
    /\ ~InCall(c) /\ Found(m)
    /\ ~Running(Hydrated(m).child)
    /\ Enter(c, m, "reactivate", "popen")
    /\ entry' = [entry EXCEPT ![m] = Hydrated(m)]
    /\ UNCHANGED <<file, boxed, proc, host, watch, crashes>>

\* archive: the child it finds running is killed before the record is marked.
Archive(c, m) ==
    /\ ~InCall(c) /\ Found(m)
    /\ Enter(c, m, "archive", IF Running(Hydrated(m).child) THEN "kill" ELSE "mark")
    /\ entry' = [entry EXCEPT ![m] = Hydrated(m)]
    /\ UNCHANGED <<file, boxed, proc, host, watch, crashes>>

\* list: every caller of it hydrates.
List(m) ==
    /\ ~entry[m].known /\ file \in Status
    /\ entry' = [entry EXCEPT ![m] = Hydrated(m)]
    /\ UNCHANGED <<file, boxed, proc, host, watch, call, overlapped, retired, calls, crashes>>

--------------------------------------------------------------------------------
\* _launch

Popen(c) ==
    /\ call[c].at = "popen"
    /\ \E p \in Unborn :
          /\ \A q \in Unborn : p <= q
          /\ proc' = [proc EXCEPT ![p] = "running"]
          /\ host' = [host EXCEPT ![p] = call[c].mgr]
          /\ call' = [call EXCEPT ![c].at = "own", ![c].new = p]
    /\ UNCHANGED <<entry, file, boxed, watch, overlapped, retired, calls, crashes>>

\* No executable: the error is recorded, and persisted if Popen raised it.
PopenFails(c) ==
    LET m == call[c].mgr IN
    /\ call[c].at = "popen"
    /\ entry' = [entry EXCEPT ![m].status = "idle"]
    /\ \/ Done(c)
       \/ Snapshot(c, "failed", "idle")
    /\ UNCHANGED <<file, boxed, proc, host, watch, overlapped, retired, calls, crashes>>

\* The record takes the new process as its child and is marked active.
Own(c) ==
    LET m == call[c].mgr IN
    /\ call[c].at = "own"
    /\ entry' = [entry EXCEPT ![m].child = call[c].new, ![m].status = "active"]
    /\ Snapshot(c, "launched", "active")
    /\ UNCHANGED <<file, boxed, proc, host, watch, overlapped, retired, calls, crashes>>

\* The threads look up the child the record has by now, not the one launched.
StartWatcher(c) ==
    LET m == call[c].mgr IN
    /\ call[c].at = "threads"
    /\ watch' = [watch EXCEPT ![call[c].new] = [at |-> "wait", on |-> entry[m].child, out |-> "idle"]]
    /\ \/ call[c].op = "send" /\ Goto(c, "stdin")
       \/ call[c].op # "send" /\ Done(c)
       \/ call[c].op = "spawn" /\ Goto(c, "seed")
    /\ UNCHANGED <<entry, file, boxed, proc, host, overlapped, retired, calls, crashes>>

\* A seed message is sent through send, which polls the child again.
Seed(c) ==
    /\ call[c].at = "seed"
    /\ call' = [call EXCEPT ![c].op = "send",
                  ![c].at = IF Running(entry[call[c].mgr].child) THEN "stdin" ELSE "popen"]
    /\ UNCHANGED <<entry, file, boxed, proc, host, watch, overlapped, retired, calls, crashes>>

\* The message goes to whatever child the record has by now; to a dead one it
\* is a SessionError.
WriteStdin(c) ==
    LET e == entry[call[c].mgr] IN
    /\ call[c].at = "stdin"
    /\ IF Running(e.child) THEN Snapshot(c, "sent", e.status) ELSE Done(c)
    /\ UNCHANGED <<entry, file, boxed, proc, host, watch, overlapped, retired, calls, crashes>>

\* The write of each _persist, by what follows it.
Persist(c) ==
    /\ call[c].at \in {"record", "launched", "failed", "sent", "marked"}
    /\ file' = call[c].out
    /\ CASE call[c].at = "record"   -> Goto(c, "popen")
         [] call[c].at = "launched" -> Goto(c, "threads")
         [] call[c].at = "marked"   -> Goto(c, "move")
         [] OTHER                   -> Done(c)
    /\ UNCHANGED <<entry, boxed, proc, host, watch, overlapped, retired, calls, crashes>>

--------------------------------------------------------------------------------
\* archive, after its lookup

KillChild(c) ==
    LET p == entry[call[c].mgr].child IN
    /\ call[c].at = "kill"
    /\ proc' = IF Running(p) THEN [proc EXCEPT ![p] = "over"] ELSE proc
    /\ Goto(c, "mark")
    /\ UNCHANGED <<entry, file, boxed, host, watch, overlapped, retired, calls, crashes>>

MarkArchived(c) ==
    /\ call[c].at = "mark"
    /\ entry' = [entry EXCEPT ![call[c].mgr].status = "archived"]
    /\ Snapshot(c, "marked", "archived")
    /\ UNCHANGED <<file, boxed, proc, host, watch, overlapped, retired, calls, crashes>>

Retire(c) ==
    /\ Done(c)
    /\ retired' = IF call[c].alone THEN "alone" ELSE "yes"

\* Mutant: the file is deleted.
MoveDeletes(c) ==
    /\ call[c].at = "move"
    /\ file' = "absent"
    /\ Retire(c)
    /\ UNCHANGED <<entry, boxed, proc, host, watch, overlapped, calls, crashes>>

Move(c) ==
    /\ call[c].at = "move"
    /\ boxed' = IF file = "absent" THEN boxed ELSE file
    /\ file' = "absent"
    /\ Retire(c)
    /\ UNCHANGED <<entry, proc, host, watch, overlapped, calls, crashes>>

--------------------------------------------------------------------------------
\* Processes and their watchers

Exit(p) ==
    /\ Running(p)
    /\ proc' = [proc EXCEPT ![p] = "over"]
    /\ UNCHANGED <<entry, file, boxed, host, watch, call, overlapped, retired, calls, crashes>>

\* The wait returns; the status is tested here and assigned in the next step.
WatcherWakes(p) ==
    LET w == watch[p] IN
    /\ w.at = "wait" /\ ~Running(w.on)
    /\ watch' = [watch EXCEPT ![p].at = "set",
                   ![p].out = IF entry[host[p]].status = "archived" THEN "archived" ELSE "idle"]
    /\ UNCHANGED <<entry, file, boxed, proc, host, call, overlapped, retired, calls, crashes>>

\* Mutant: the end of the process is persisted, not recorded.
WatcherSetsNothing(p) ==
    /\ watch[p].at = "set"
    /\ watch' = [watch EXCEPT ![p].at = "write"]
    /\ UNCHANGED <<entry, file, boxed, proc, host, call, overlapped, retired, calls, crashes>>

WatcherSets(p) ==
    LET w == watch[p] IN
    /\ w.at = "set"
    /\ entry' = IF w.out = "archived" THEN entry ELSE [entry EXCEPT ![host[p]].status = w.out]
    /\ watch' = [watch EXCEPT ![p].at = "write", ![p].out = entry'[host[p]].status]
    /\ UNCHANGED <<file, boxed, proc, host, call, overlapped, retired, calls, crashes>>

WatcherPersists(p) ==
    /\ watch[p].at = "write"
    /\ file' = watch[p].out
    /\ watch' = [watch EXCEPT ![p] = [NoWatch EXCEPT !.at = "done"]]
    /\ UNCHANGED <<entry, boxed, proc, host, call, overlapped, retired, calls, crashes>>

--------------------------------------------------------------------------------
Writing(m) ==
    \/ \E c \in Callers : /\ call[c].at \in {"record", "launched", "failed", "sent", "marked"}
                          /\ call[c].mgr = m
    \/ \E p \in Procs : watch[p].at = "write" /\ host[p] = m

\* A manager dies, or is shut down and exits: its threads stop where they are,
\* and the supervisor of the platform kills the processes it launched.
Crash(m) ==
    /\ crashes < MaxCrashes
    /\ crashes' = crashes + 1
    /\ entry' = [entry EXCEPT ![m] = NoEntry]
    /\ proc' = [p \in Procs |-> IF Running(p) /\ host[p] = m THEN "over" ELSE proc[p]]
    /\ watch' = [p \in Procs |-> IF host[p] = m THEN [NoWatch EXCEPT !.at = IF proc[p] = "unborn" THEN "none" ELSE "done"] ELSE watch[p]]
    /\ call' = [c \in Callers |-> IF InCall(c) /\ call[c].mgr = m THEN NoCall ELSE call[c]]
    /\ \/ UNCHANGED file
       \/ Writing(m) /\ file' = "torn"
    /\ UNCHANGED <<boxed, host, overlapped, retired, calls>>

CallStep(c) ==
    \/ PopenFails(c) \/ Popen(c) \/ Own(c) \/ StartWatcher(c) \/ Seed(c)
    \/ WriteStdin(c) \/ Persist(c)
    \/ KillChild(c) \/ MarkArchived(c) \/ Move(c)

WatchStep(p) == WatcherWakes(p) \/ WatcherSets(p) \/ WatcherPersists(p)

Next ==
    \/ \E c \in Callers, m \in Managers :
         Spawn(c, m) \/ Send(c, m) \/ Reactivate(c, m) \/ Archive(c, m)
    \/ \E m \in Managers : List(m) \/ Crash(m)
    \/ \E c \in Callers : CallStep(c)
    \/ \E p \in Procs : Exit(p) \/ WatchStep(p)

\* The threads of a live process are scheduled; nothing makes a session exit.
Fairness ==
    /\ \A c \in Callers : WF_vars(CallStep(c))
    /\ \A p \in Procs : WF_vars(WatchStep(p))

Spec == Init /\ [][Next]_vars /\ Fairness

--------------------------------------------------------------------------------
CallPcs == {"idle", "record", "popen", "own", "launched", "threads", "seed",
            "stdin", "sent", "failed", "kill", "mark", "marked", "move"}

\* The record, the files, the threads and the processes are what the code makes.
TypeOK ==
    /\ \A m \in Managers : /\ entry[m].status \in Status
                           /\ entry[m].child \in Procs \cup {NoProc}
                           /\ ~entry[m].known => entry[m] = NoEntry
    /\ file \in Status \cup {"absent", "torn"}
    /\ boxed \in Status \cup {"absent", "torn"}
    /\ \A p \in Procs : /\ proc[p] \in {"unborn", "running", "over"}
                        /\ watch[p].at # "none" => proc[p] # "unborn"
    /\ \A c \in Callers : call[c].at \in CallPcs /\ (InCall(c) => entry[call[c].mgr].known)

\* A record that says active or spawning has a call in flight or a watcher that
\* will correct it, however launches, exits and watchers that took the wrong
\* child interleave (_launch, _watch_exit).
ActiveIsWatched ==
    \A m \in Managers :
        entry[m].known /\ entry[m].status \in {"active", "spawning"} =>
            \/ \E c \in Callers : InCall(c) /\ call[c].mgr = m
            \/ \E p \in Procs : Watching(p) /\ host[p] = m

\* Unless two calls overlapped, a manager runs one process of the session, and
\* it is the child of its record, where archive and shutdown find it.
OneProcess ==
    overlapped \/ \A p \in Procs : Running(p) =>
        \/ entry[host[p]].child = p
        \/ \E c \in Callers : call[c].at = "own" /\ call[c].new = p

\* Unless two calls overlapped, a session a manager has archived has no process
\* of that manager's, whatever its watchers still do.
ArchivedIsDead ==
    overlapped \/ \A m \in Managers :
        entry[m].status = "archived" /\ (\A c \in Callers : ~InCall(c)) =>
            \A p \in Procs : Running(p) => host[p] # m

\* An archive that had the session to itself lasts until the next call: the
\* record file is in the archive only, and says archived.
RetiredStays == retired = "alone" => file = "absent" /\ boxed = "archived"

Readable == file \in Status \/ boxed \in Status

\* Once written, the record can be read in one of the two directories ever
\* after, unless a manager was killed while it wrote it: what it left is torn,
\* also when another manager has moved it since.
RecordKept == [][Readable => Readable' \/ "torn" \in {file', boxed'}]_vars

\* The comment in _watch_exit (session_manager.py:517): a session that archive()
\* has archived stays archived, "the session is gone for good, not idle".
ArchivedForGood ==
    retired # "no" => \A m \in Managers : entry[m].known => entry[m].status = "archived"

\* A process that has ended does not stay recorded as active.
DeadIsNoticed ==
    \A m \in Managers :
        (entry[m].status = "active" /\ ~Running(entry[m].child))
            ~> (entry[m].status # "active" \/ Running(entry[m].child))

\* The record of a session is kept, through threads, deaths of children and of the
\* host: it stays readable but while it is being written, a session that is archived
\* has no child left once its call has returned, its file is moved, not copied; and one
\* whose child has ended does not stay recorded as active.
RecordsAreKept ==
    /\ [](TypeOK /\ ArchivedIsDead /\ RetiredStays)
    /\ RecordKept
    /\ DeadIsNoticed
=============================================================================
