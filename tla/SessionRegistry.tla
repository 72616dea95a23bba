----------------------------- MODULE SessionRegistry -----------------------------
(***************************************************************************)
(* The registry of active sessions (tools/active_sessions.py): one JSON    *)
(* file that every session's process rewrites under a lock file of its     *)
(* own.  The lock is created exclusively, is waited for a limited time,    *)
(* is broken when it looks too old, and a caller that has waited in vain   *)
(* goes on without it.                                                     *)
(***************************************************************************)
EXTENDS Naturals, FiniteSets

CONSTANTS
    Procs,       \* the sessions' processes; each keeps the entry of its own id
    Timeout,     \* _LOCK_TIMEOUT_S, in ticks
    MaxCalls,    \* bound: calls of each process
    MaxKills     \* bound: processes killed

ASSUME SessionRegistryAssumption ==
    Timeout \in Nat \ {0} /\ MaxCalls \in Nat /\ MaxKills \in Nat

VARIABLES
    registry,  \* active_sessions.json: for each id "none", "fresh", or "old" after an hour
    lock,      \* the lock file: whether it is there, and its age
    call,      \* the call each process is in
    calls,     \* how many it has made
    breached,  \* history: a caller went on without the lock, or a lock was broken
    kills

registryVars == <<registry, lock, call, calls, breached, kills>>

NoLock == [held |-> FALSE, age |-> 0]
NoCall == [at |-> "idle", op |-> "none", owns |-> FALSE, waited |-> 0,
           read |-> [p \in Procs |-> "none"]]

StaleAge == 2 * Timeout + 1
Capped(n, most) == IF n > most THEN most ELSE n

RegistryInit ==
    /\ registry = [p \in Procs |-> "none"]
    /\ lock = NoLock
    /\ call = [p \in Procs |-> NoCall]
    /\ calls = [p \in Procs |-> 0]
    /\ breached = FALSE
    /\ kills = 0

At(p, where) == call[p].at = where

\* The file is there, from earlier sessions; without it an unregistration returns.
Begin(p, op) ==
    /\ At(p, "idle") /\ calls[p] < MaxCalls
    /\ calls' = [calls EXCEPT ![p] = @ + 1]
    /\ call' = [call EXCEPT ![p] = [NoCall EXCEPT !.at = "acquire", !.op = op]]
    /\ UNCHANGED <<registry, lock, breached, kills>>

-----------------------------------------------------------------------------
\* _acquire_lock

Waiting(p) == At(p, "acquire") /\ call[p].waited < Timeout

Acquire(p) ==
    /\ Waiting(p) /\ ~lock.held
    /\ lock' = [held |-> TRUE, age |-> 0]
    /\ call' = [call EXCEPT ![p].at = "load", ![p].owns = TRUE]
    /\ UNCHANGED <<registry, calls, breached, kills>>

\* The age of the lock is read, and the lock removed in another step: by then it
\* may be the lock of someone else.
SeeStale(p) ==
    /\ Waiting(p) /\ lock.held /\ lock.age = StaleAge
    /\ call' = [call EXCEPT ![p].at = "break"]
    /\ UNCHANGED <<registry, lock, calls, breached, kills>>

Break(p) ==
    /\ At(p, "break")
    /\ lock' = NoLock
    /\ call' = [call EXCEPT ![p].at = "acquire"]
    /\ breached' = TRUE
    /\ UNCHANGED <<registry, calls, kills>>

\* None is returned, and every caller goes on.
GiveUp(p) ==
    /\ At(p, "acquire") /\ ~Waiting(p)
    /\ call' = [call EXCEPT ![p].at = "load"]
    /\ breached' = TRUE
    /\ UNCHANGED <<registry, lock, calls, kills>>

-----------------------------------------------------------------------------
\* Under the lock

\* A heartbeat or an unregistration that does not find its entry writes nothing.
Load(p) ==
    /\ At(p, "load")
    /\ call' = [call EXCEPT ![p].read = registry,
                   ![p].at = IF registry[p] = "none" /\ call[p].op # "register" THEN "release" ELSE "write"]
    /\ UNCHANGED <<registry, lock, calls, breached, kills>>

\* Mutant: pruning looks at the wrong entries.
RewrittenFresh(p) ==
    [q \in Procs |->
        IF q = p THEN (IF call[p].op = "unregister" THEN "none" ELSE "fresh")
        ELSE IF call[p].read[q] = "fresh" THEN "none" ELSE call[p].read[q]]

\* Its own entry is set or removed; a register or a heartbeat prunes the old ones.
Rewritten(p) ==
    [q \in Procs |->
        IF q = p THEN (IF call[p].op = "unregister" THEN "none" ELSE "fresh")
        ELSE IF call[p].read[q] = "old" /\ call[p].op # "unregister" THEN "none"
        ELSE call[p].read[q]]

\* _atomic_write: a temporary file of its own, then os.replace.
Write(p) ==
    /\ At(p, "write")
    /\ registry' = Rewritten(p)
    /\ call' = [call EXCEPT ![p].at = "release"]
    /\ UNCHANGED <<lock, calls, breached, kills>>

\* The replace is refused again and again; the exception passes the finally.
WriteFails(p) ==
    /\ At(p, "write")
    /\ call' = [call EXCEPT ![p].at = "release"]
    /\ UNCHANGED <<registry, lock, calls, breached, kills>>

\* Mutant: the release waits for a lock to remove.
ReleaseAwaiting(p) ==
    /\ At(p, "release") /\ (call[p].owns => lock.held)
    /\ lock' = IF call[p].owns THEN NoLock ELSE lock
    /\ call' = [call EXCEPT ![p] = NoCall]
    /\ UNCHANGED <<registry, calls, breached, kills>>

\* _release_lock removes the file by its name, whoever made it.
Release(p) ==
    /\ At(p, "release")
    /\ lock' = IF call[p].owns THEN NoLock ELSE lock
    /\ call' = [call EXCEPT ![p] = NoCall]
    /\ UNCHANGED <<registry, calls, breached, kills>>

-----------------------------------------------------------------------------
\* The environment

Tick ==
    /\ lock' = IF lock.held THEN [lock EXCEPT !.age = Capped(@ + 1, StaleAge)] ELSE lock
    /\ call' = [p \in Procs |-> IF At(p, "acquire")
                                THEN [call[p] EXCEPT !.waited = Capped(@ + 1, Timeout)] ELSE call[p]]
    /\ UNCHANGED <<registry, calls, breached, kills>>

\* An hour without a call: the entries are old, and so is a lock left behind.
Hour ==
    /\ \A p \in Procs : At(p, "idle") \/ At(p, "dead")
    /\ registry' = [p \in Procs |-> IF registry[p] = "none" THEN "none" ELSE "old"]
    /\ lock' = IF lock.held THEN [lock EXCEPT !.age = StaleAge] ELSE lock
    /\ UNCHANGED <<call, calls, breached, kills>>

Kill(p) ==
    /\ ~At(p, "idle") /\ ~At(p, "dead")
    /\ kills < MaxKills
    /\ kills' = kills + 1
    /\ call' = [call EXCEPT ![p] = [NoCall EXCEPT !.at = "dead"]]
    /\ UNCHANGED <<registry, lock, calls, breached>>

Run(p) ==
    \/ Acquire(p) \/ SeeStale(p) \/ Break(p) \/ GiveUp(p)
    \/ Load(p) \/ Write(p) \/ WriteFails(p) \/ Release(p)

RegistryNext ==
    \/ \E p \in Procs :
          \/ \E op \in {"register", "heartbeat", "unregister"} : Begin(p, op)
          \/ Run(p)
          \/ Kill(p)
    \/ Tick \/ Hour

\* A process that is not killed runs on, and time passes.
RegistryFairness ==
    /\ \A p \in Procs : WF_registryVars(Run(p))
    /\ WF_registryVars(Tick)

RegistrySpec == RegistryInit /\ [][RegistryNext]_registryVars /\ RegistryFairness

-----------------------------------------------------------------------------
\* The state is what the code makes of it: as long as no lock was given up or
\* broken, the lock is there just when a call, or one that was killed, owns it.
RegistryTypeOK ==
    /\ registry \in [Procs -> {"none", "fresh", "old"}]
    /\ lock.age \in 0 .. StaleAge
    /\ \A p \in Procs : call[p].waited \in 0 .. Timeout
    /\ ~breached => Cardinality({p \in Procs : call[p].owns}) <= IF lock.held THEN 1 ELSE 0

\* Until a caller has gone on without the lock or a lock was broken, a write is
\* of what the file still holds, and changes no other session's entry but an
\* old one (register_session: concurrent writers do not "lose-update each other").
LockedCallsAreExact ==
    [][\A p \in Procs : Write(p) /\ ~breached =>
          /\ call[p].read = registry
          /\ \A q \in Procs \ {p} : registry'[q] # registry[q] => registry[q] = "old"]_registryVars

\* Whoever holds the lock, or died with it, a call returns.
EveryCallReturns ==
    \A p \in Procs : ~At(p, "idle") ~> (At(p, "idle") \/ At(p, "dead"))

\* active_sessions.py:55: "the worst case is a stale entry that gets cleaned on
\* the next write".
OthersStay ==
    [][\A p, q \in Procs : Write(p) /\ p # q /\ registry[q] = "fresh" => registry'[q] = "fresh"]_registryVars

\* active_sessions.py:209: the lock serializes "so each writer sees a consistent
\* base before replacing".
EachSeesItsBase == [][\A p \in Procs : Write(p) => call[p].read = registry]_registryVars
================================================================================
