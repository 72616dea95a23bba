-------------------------------- MODULE Mailroom --------------------------------
(***************************************************************************)
(* Messages to sessions, in one interface process: the inbox directory     *)
(* (tools/workflow/inbox.py), the pump thread that forwards its messages   *)
(* into the sessions (inbox_pump.py), the chat router of the scene, which  *)
(* posts what is typed and sends it (node_types/chat_router.py), and the   *)
(* default session it keeps (chat_router_core.py).  The session manager is *)
(* here what these callers see of it: the sessions it knows, those that    *)
(* have a record on disk, and a send that may fail.  The process may be    *)
(* killed anywhere and is then started again.                              *)
(***************************************************************************)
EXTENDS Naturals, FiniteSets, FiniteSetsExt

CONSTANTS
    Notes,        \* message files
    MaxSessions,  \* bound: sessions ever spawned
    MaxCrashes    \* bound: times the process is killed

VARIABLES
    note,       \* each message file: "none", "blank" while post writes it, "whole"
    addressee,  \* its `to:`, a session or Display
    forwarded,  \* inbox_forwarded.txt
    pump,       \* the tick in progress
    typed,      \* the chat message being routed
    known,      \* sessions in the session manager's memory
    recorded,   \* sessions with a file in sessions/, not archived
    marker,     \* default_workflow_mgmt.txt
    ensure,     \* the ensure_default call in progress, and the session it spawned
    life,       \* the process: "boot" until the pump is started, then "up"
    spawned,    \* how many sessions were ever spawned
    got,        \* history: how often each message was written to its session
    echoed,     \* history: typed into the chat
    halfRead,   \* history: read by a tick while post was writing it
    strangers,  \* history: dropped because the addressee was not known
    unsaved,    \* history: forwarded by a tick that was killed before it saved
    crashes

mail     == <<note, addressee, echoed>>
pumpVars == <<forwarded, pump, halfRead, strangers>>
sessions == <<known, recorded, spawned>>
default  == <<marker, ensure, life>>
vars == <<mail, pumpVars, sessions, default, typed, got, unsaved, crashes>>

Sessions == 1 .. MaxSessions
Display  == 0       \* no session: the maintainer, a shell; or a session's own note
NoMarker == 0
Resting  == [at |-> "rest", todo |-> {}, half |-> {}, work |-> {}]
NotTyped == [at |-> "idle", note |-> CHOOSE n \in Notes : TRUE]
Asked    == [at |-> "check", sid |-> NoMarker]
NotAsked == [at |-> "idle", sid |-> NoMarker]

Init ==
    /\ note = [n \in Notes |-> "none"]
    /\ addressee = [n \in Notes |-> Display]
    /\ echoed = {}
    /\ forwarded = {} /\ pump = Resting
    /\ halfRead = {} /\ strangers = {}
    /\ known = {} /\ recorded = {} /\ spawned = 0
    /\ marker = NoMarker /\ ensure = Asked /\ life = "boot"
    /\ typed = NotTyped
    /\ got = [n \in Notes |-> 0]
    /\ unsaved = {}
    /\ crashes = 0

Up == life = "up"

--------------------------------------------------------------------------------
\* Inbox.post, by a tool or a session: a file is created, then written.

Created(n, to) ==
    /\ note[n] = "none"
    /\ note' = [note EXCEPT ![n] = "blank"]
    /\ addressee' = [addressee EXCEPT ![n] = to]

Post(n, to) ==
    /\ Created(n, to)
    /\ UNCHANGED <<echoed, pumpVars, sessions, default, typed, got, unsaved, crashes>>

Written(n) ==
    /\ note[n] = "blank" /\ n \notin echoed
    /\ note' = [note EXCEPT ![n] = "whole"]
    /\ UNCHANGED <<addressee, echoed, pumpVars, sessions, default, typed, got, unsaved, crashes>>

--------------------------------------------------------------------------------
\* The session manager, as these callers see it

\* Every list and every send loads the records the manager does not have.
Hydrated == known \cup recorded

\* A panel lists the sessions.
List ==
    /\ Up /\ ~(recorded \subseteq known)
    /\ known' = Hydrated
    /\ UNCHANGED <<mail, pumpVars, recorded, spawned, default, typed, got, unsaved, crashes>>

\* Another process (a shell, the bridge) spawns a session of its own.
SpawnElsewhere ==
    /\ spawned < MaxSessions
    /\ spawned' = spawned + 1
    /\ recorded' = recorded \cup {spawned + 1}
    /\ UNCHANGED <<mail, pumpVars, known, default, typed, got, unsaved, crashes>>

Archive(s) ==
    /\ Up /\ s \in recorded
    /\ known' = Hydrated
    /\ recorded' = recorded \ {s}
    /\ UNCHANGED <<mail, pumpVars, spawned, default, typed, got, unsaved, crashes>>

\* A send that succeeds; it launches and records an archived session again.
Deliver(n) ==
    /\ addressee[n] \in Hydrated
    /\ known' = Hydrated
    /\ recorded' = recorded \cup {addressee[n]}
    /\ got' = [got EXCEPT ![n] = @ + 1]

\* A send that raises: it has hydrated all the same.
DeliverFails == known' = Hydrated /\ UNCHANGED <<recorded, got>>

--------------------------------------------------------------------------------
\* The default session, ensured when the process starts

\* The recorded id is looked up with get, which reads no record from disk.
Resumable == marker \in known /\ marker \in recorded

\* It resumes the session of the marker; or the spawn of another one fails.
EnsureReturns ==
    /\ ensure.at = "check"
    /\ ensure' = NotAsked
    /\ life' = "up"
    /\ UNCHANGED <<mail, pumpVars, sessions, marker, typed, got, unsaved, crashes>>

\* The new session's seed is sent to it, and that send hydrates.
EnsureSpawns ==
    /\ ensure.at = "check" /\ ~Resumable
    /\ spawned < MaxSessions
    /\ spawned' = spawned + 1
    /\ recorded' = recorded \cup {spawned + 1}
    /\ known' = known \cup recorded'
    /\ ensure' = [at |-> "mark", sid |-> spawned + 1]
    /\ UNCHANGED <<mail, pumpVars, marker, life, typed, got, unsaved, crashes>>

Mark ==
    /\ ensure.at = "mark"
    /\ marker' = ensure.sid
    /\ ensure' = NotAsked
    /\ life' = "up"
    /\ UNCHANGED <<mail, pumpVars, sessions, typed, got, unsaved, crashes>>

--------------------------------------------------------------------------------
\* InboxPump.tick

\* The saved set and every message are read; one that is being written has no
\* front matter yet and is addressed to nobody.
TickStarts ==
    LET listed == {n \in Notes : note[n] # "none"} IN
    /\ Up /\ pump.at = "rest"
    /\ ~(listed \subseteq forwarded)
    /\ pump' = [at |-> "scan", todo |-> listed \ forwarded,
                half |-> {n \in listed : note[n] = "blank"}, work |-> forwarded]
    /\ UNCHANGED <<mail, forwarded, halfRead, strangers, sessions, default, typed, got, unsaved, crashes>>

Considering(n) == pump.at = "scan" /\ n \in pump.todo
Settle(n) == pump' = [pump EXCEPT !.todo = @ \ {n}, !.work = @ \cup {n}]
ForSession(n) == n \notin pump.half /\ addressee[n] # Display

SkipDisplay(n) ==
    /\ Considering(n) /\ ~ForSession(n)
    /\ Settle(n)
    /\ halfRead' = IF n \in pump.half THEN halfRead \cup {n} ELSE halfRead
    /\ UNCHANGED <<mail, forwarded, strangers, sessions, default, typed, got, unsaved, crashes>>

\* The addressee is looked up with get as well.
DropStranger(n) ==
    /\ Considering(n) /\ ForSession(n) /\ addressee[n] \notin known
    /\ Settle(n)
    /\ strangers' = strangers \cup {n}
    /\ UNCHANGED <<mail, forwarded, halfRead, sessions, default, typed, got, unsaved, crashes>>

Forward(n) ==
    /\ Considering(n) /\ ForSession(n) /\ addressee[n] \in known
    /\ Settle(n)
    /\ Deliver(n)
    /\ UNCHANGED <<mail, forwarded, halfRead, strangers, spawned, default, typed, unsaved, crashes>>

\* It stays unmarked and is tried again by the next tick.
ForwardFails(n) ==
    /\ Considering(n) /\ ForSession(n) /\ addressee[n] \in known
    /\ pump' = [pump EXCEPT !.todo = @ \ {n}]
    /\ DeliverFails
    /\ UNCHANGED <<mail, forwarded, halfRead, strangers, spawned, default, typed, unsaved, crashes>>

\* Mutant: what the tick has done is not saved.
TickForgets ==
    /\ pump.at = "scan" /\ pump.todo = {}
    /\ pump' = Resting
    /\ UNCHANGED <<mail, forwarded, halfRead, strangers, sessions, default, typed, got, unsaved, crashes>>

TickSaves ==
    /\ pump.at = "scan" /\ pump.todo = {}
    /\ pump' = Resting
    /\ forwarded' = pump.work
    /\ UNCHANGED <<mail, halfRead, strangers, sessions, default, typed, got, unsaved, crashes>>

Consider(n) == SkipDisplay(n) \/ DropStranger(n) \/ Forward(n) \/ ForwardFails(n)

--------------------------------------------------------------------------------
\* The chat router: what is typed is posted to the target, then sent to it.

\* @name resolves through a list, a bare line goes to the chat's target.
Type(n, to) ==
    /\ Up /\ typed.at = "idle"
    /\ Created(n, to)
    /\ echoed' = echoed \cup {n}
    /\ typed' = [at |-> "echo", note |-> n]
    /\ known' \in {known, Hydrated}
    /\ UNCHANGED <<pumpVars, recorded, spawned, default, got, unsaved, crashes>>

Echoed ==
    LET n == typed.note IN
    /\ typed.at = "echo"
    /\ note' = [note EXCEPT ![n] = "whole"]
    /\ typed' = IF addressee[n] = Display THEN NotTyped ELSE [typed EXCEPT !.at = "send"]
    /\ UNCHANGED <<addressee, echoed, pumpVars, sessions, default, got, unsaved, crashes>>

Send ==
    /\ typed.at = "send"
    /\ typed' = NotTyped
    /\ Deliver(typed.note) \/ DeliverFails
    /\ UNCHANGED <<mail, pumpVars, spawned, default, unsaved, crashes>>

--------------------------------------------------------------------------------
\* The process is killed and started again.  A kill in the middle of the save
\* leaves a prefix of the file.
Crash ==
    /\ crashes < MaxCrashes
    /\ crashes' = crashes + 1
    /\ known' = {}
    /\ life' = "boot" /\ ensure' = Asked
    /\ typed' = NotTyped /\ pump' = Resting
    /\ \/ /\ UNCHANGED forwarded
          /\ unsaved' = unsaved \cup (pump.work \ forwarded)
       \/ /\ pump.at = "scan" /\ pump.todo = {}
          /\ forwarded' \in SUBSET pump.work
          /\ unsaved' = unsaved \cup pump.work
    /\ UNCHANGED <<mail, halfRead, strangers, recorded, spawned, marker, got>>

Next ==
    \/ \E n \in Notes, to \in Sessions \cup {Display} : Post(n, to) \/ Type(n, to)
    \/ \E n \in Notes : Written(n) \/ Consider(n)
    \/ List \/ SpawnElsewhere \/ (\E s \in Sessions : Archive(s))
    \/ EnsureReturns \/ EnsureSpawns \/ Mark
    \/ TickStarts \/ TickSaves
    \/ Echoed \/ Send
    \/ Crash

\* The pump's thread and the process's start-up run; a session that is sent to
\* again and again takes the message in the end.
Fairness ==
    /\ WF_vars(EnsureReturns \/ Mark)
    /\ WF_vars(TickStarts) /\ WF_vars(TickSaves)
    /\ \A n \in Notes : WF_vars(Consider(n)) /\ SF_vars(Forward(n))

Spec == Init /\ [][Next]_vars /\ Fairness

--------------------------------------------------------------------------------
\* The state is what the code makes of it.
TypeOK ==
    /\ \A n \in Notes : note[n] \in {"none", "blank", "whole"} /\ addressee[n] \in Sessions \cup {Display}
    /\ forwarded \subseteq Notes
    /\ pump.todo \cup pump.half \cup pump.work \subseteq Notes
    /\ known \cup recorded \subseteq 1 .. spawned
    /\ spawned \in 0 .. MaxSessions
    /\ marker \in 0 .. spawned

\* A message to a session is marked forwarded without having reached it only if
\* a tick read it half written or did not know its addressee.
NeverSkipped ==
    \A n \in forwarded \cup pump.work :
        addressee[n] = Display \/ got[n] > 0 \/ n \in halfRead \cup strangers

\* A message reaches its session once, and once more if it was typed (the pump
\* forwards the chat's echo) and for each tick killed before it saved.
OnceUnlessExplained ==
    \A n \in Notes : got[n] <= 1 + (IF n \in echoed THEN 1 ELSE 0)
                                + (IF n \in unsaved THEN crashes ELSE 0)

\* A message to a session the pump may send to is forwarded in the end.
EventuallyForwarded ==
    \A n \in Notes : (note[n] = "whole" /\ addressee[n] # Display)
                        ~> (got[n] > 0 \/ n \in halfRead \cup strangers)

\* runtime.py:18: "Re-running the Streamlit process picks up the existing
\* session by id rather than respawning."
DefaultKept == [][marker # NoMarker /\ marker \in recorded => marker' = marker]_vars

\* inbox_pump.py:22: a message is dropped as unknown when there is "no recipient
\* to deliver to".
StrangersHaveNoRecord == [][\A n \in strangers' \ strangers : addressee[n] \notin recorded]_vars

\* The pump forwards each message once, as far as it can: what counts as forwarded
\* has reached its session, and reached it again only for a reason that is recorded;
\* and it forwards it in the end.
ForwardedOnce ==
    /\ [](TypeOK /\ NeverSkipped /\ OnceUnlessExplained)
    /\ EventuallyForwarded
=============================================================================
