--------------------------------- MODULE Shell ---------------------------------
(***************************************************************************)
(* The workflow shell (tools/workflow/shell.py): one loop that announces   *)
(* new messages of the inbox and handles the lines that a thread reads     *)
(* from the terminal.  Sessions are named by id, by the first characters   *)
(* of it or by display name; other processes spawn sessions and post       *)
(* messages meanwhile.  What the session manager does inside a call is     *)
(* module SessionManager; here a call is one step that works or raises.    *)
(* What is only printed (listings, the events of sessions) is left out.    *)
(***************************************************************************)
EXTENDS Naturals, Sequences, FiniteSets, SequencesExt

CONSTANTS
    DisplayNames, \* display names
    Notes,        \* message files
    MaxSessions,  \* bound: sessions ever spawned
    MaxLines      \* bound: lines waiting

ASSUME ShellAssumption == MaxSessions \in Nat

VARIABLES
    known,      \* the sessions of the shell's manager, in its order
    abroad,     \* sessions that other processes recorded, not read in yet
    status,     \* "unborn", "archived" or "open", as the manager has it
    name,       \* display names
    shellActive, \* active_session_id
    lines,      \* the queue the reader thread fills
    phase,      \* where run is; "window" while a realtime window blocks it
    note,       \* message files: "none", "blank" while it is written, "whole"
    seen,       \* _seen_inbox_paths
    announced,  \* history: announced "no", "once" or "again"
    shellLast,  \* history: where the line just handled went, and if that was told
    targeted    \* history: sessions made active by /target

sessions == <<known, abroad, status, name>>
mail     == <<note, seen, announced>>
shellVars == <<sessions, shellActive, lines, phase, mail, shellLast, targeted>>

Sessions == 1 .. MaxSessions
None     == 0
Unnamed  == "any other name"
EOF      == [op |-> "eof"]

\* What a command names a session by: its id, a name, or "" (every id starts with it).
Idents == [kind : {"id"}, of : Sessions] \cup [kind : {"name"}, of : DisplayNames] \cup {[kind |-> "empty"]}

Lines ==
    [op : {"text", "wish", "quit", "realtime", "clear", "other"}]
        \cup [op : {"send", "target", "archive"}, whom : Idents]
        \cup [op : {"spawn"}, named : DisplayNames \cup {Unnamed}, seed : BOOLEAN]

Untold == [to |-> None, told |-> TRUE]
Happened(to, told) == shellLast' = [to |-> to, told |-> told]

ShellInit ==
    /\ known = <<>> /\ abroad = {}
    /\ status = [s \in Sessions |-> "unborn"]
    /\ name = [s \in Sessions |-> Unnamed]
    /\ shellActive = None
    /\ lines = <<>>
    /\ phase = "boot"
    /\ note = [m \in Notes |-> "none"]
    /\ seen = {}
    /\ announced = [m \in Notes |-> "no"]
    /\ shellLast = Untold
    /\ targeted = {}

--------------------------------------------------------------------------------
\* The session manager as the shell uses it

\* _hydrate: what others recorded is read in, in the order the directory lists it.
HydrateAfter(ks) ==
    /\ \E order \in Bijection(1 .. Cardinality(abroad), abroad) : known' = ks \o order
    /\ abroad' = {}
Hydrate == HydrateAfter(known)
Waiting == Len(SelectSeq(lines, LAMBDA l : l.op \in {"spawn", "wish"}))
Room    == Cardinality({s \in Sessions : status[s] = "unborn"}) > Waiting
Unspawned(s) == status[s] = "unborn" /\ \A t \in Sessions : t < s => status[t] # "unborn"

\* A send: to a session without a child it launches one first, archived or not.
Sends(s)  == status' = [status EXCEPT ![s] = "open"] /\ UNCHANGED name
Raises(s) == status' \in {status, [status EXCEPT ![s] = "open"]} /\ UNCHANGED name

\* _resolve_session: the first of sm.list() that answers, archived ones included.
AnswersTo(s, i) ==
    \/ i.kind = "empty"
    \/ i.kind = "id" /\ i.of = s
    \/ i.kind = "name" /\ i.of = name[s]
ResolvedSession(ks, i) ==
    LET at == {k \in 1 .. Len(ks) : AnswersTo(ks[k], i)} IN
    IF at = {} THEN None ELSE ks[CHOOSE k \in at : \A j \in at : k <= j]

--------------------------------------------------------------------------------
\* The program boots: every message there is counts as seen, and the default
\* session is made active, unless it cannot be spawned.
Boot ==
    /\ phase = "boot"
    /\ seen' = {m \in Notes : note[m] # "none"}
    /\ phase' = "loop"
    /\ \/ UNCHANGED <<known, status, name, shellActive>>
       \/ \E s \in Sessions, n \in DisplayNames :
            /\ Unspawned(s) /\ Room
            /\ known' = Append(known, s)
            /\ status' = [status EXCEPT ![s] = "open"]
            /\ name' = [name EXCEPT ![s] = n]
            /\ shellActive' = s
    /\ UNCHANGED <<abroad, lines, note, announced, shellLast, targeted>>

\* What _poll_inbox prints, of a message that is being written too.
Announced(new) ==
    announced' = [m \in Notes |->
        IF m \notin new THEN announced[m]
        ELSE IF announced[m] = "no" THEN "once" ELSE "again"]

\* A round of the loop in which the inbox was scanned less than a second ago
Round ==
    /\ phase = "loop"
    /\ phase' = "read"
    /\ shellLast' = Untold
    /\ UNCHANGED <<sessions, shellActive, lines, mail, targeted>>

\* and one in which it is scanned: what is listed counts as seen from then on.
RoundPolls ==
    LET new == {m \in Notes \ seen : note[m] # "none"} IN
    /\ phase = "loop"
    /\ phase' = "read"
    /\ seen' = seen \cup new
    /\ Announced(new)
    /\ shellLast' = Untold
    /\ UNCHANGED <<sessions, shellActive, lines, note, targeted>>

--------------------------------------------------------------------------------
\* The commands: l is the line at the head of the queue

\* Bare text, /send and a /wish: the session gets it, or its failure is printed.
SendTo(s) ==
    \/ Sends(s) /\ Happened(s, FALSE)
    \/ Raises(s) /\ Happened(None, TRUE)

Text(l) ==
    /\ l.op = "text"
    /\ IF shellActive = None
       THEN Happened(None, TRUE) /\ UNCHANGED sessions
       ELSE Hydrate /\ SendTo(shellActive)
    /\ UNCHANGED <<shellActive, targeted>>

SendLine(l) ==
    /\ l.op = "send"
    /\ Hydrate
    /\ LET s == ResolvedSession(known', l.whom) IN
       IF s = None THEN Happened(None, TRUE) /\ UNCHANGED <<status, name>> ELSE SendTo(s)
    /\ UNCHANGED <<shellActive, targeted>>

\* A spawn that fails leaves its record behind, and says so.
SpawnFails(n) ==
    \E s \in Sessions :
        /\ Unspawned(s)
        /\ known' = Append(known, s)
        /\ status' = [status EXCEPT ![s] = "open"]
        /\ name' = [name EXCEPT ![s] = n]
        /\ Happened(None, TRUE)
        /\ UNCHANGED <<abroad, shellActive, targeted>>

\* A session is spawned and made active; `sent`: a first message goes to it.
Spawned(n, sent) ==
    \E s \in Sessions :
        /\ Unspawned(s)
        /\ IF sent THEN HydrateAfter(Append(known, s))
                   ELSE known' = Append(known, s) /\ UNCHANGED abroad
        /\ status' = [status EXCEPT ![s] = "open"]
        /\ name' = [name EXCEPT ![s] = n]
        /\ shellActive' = s
        /\ UNCHANGED targeted
        /\ \E arrives \in {sent, FALSE} : Happened(IF arrives THEN s ELSE None, FALSE)

\* The words after `--` are the seed; without a name they are taken for the name.
SpawnLine(l) ==
    /\ l.op = "spawn"
    /\ Spawned(l.named, l.named # Unnamed /\ l.seed) \/ SpawnFails(l.named)

WishLine(l) ==
    /\ l.op = "wish"
    /\ IF shellActive # None
       THEN Hydrate /\ SendTo(shellActive) /\ UNCHANGED <<shellActive, targeted>>
       ELSE \/ SpawnFails(Unnamed)
            \/ \E s \in Sessions :
                 /\ Unspawned(s)
                 /\ HydrateAfter(Append(known, s))
                 /\ status' = [status EXCEPT ![s] = "open"]
                 /\ name' = [name EXCEPT ![s] = Unnamed]
                 /\ shellActive' = s
                 /\ Happened(s, FALSE) \/ Happened(None, TRUE)
                 /\ UNCHANGED targeted

Clear(l) ==
    /\ l.op = "clear"
    /\ shellActive' = None
    /\ Happened(None, TRUE)
    /\ UNCHANGED <<sessions, targeted>>

TargetLine(l) ==
    /\ l.op = "target"
    /\ Hydrate
    /\ LET s == ResolvedSession(known', l.whom) IN
       IF s = None THEN UNCHANGED <<shellActive, targeted>>
       ELSE shellActive' = s /\ targeted' = targeted \cup {s}
    /\ Happened(None, TRUE)
    /\ UNCHANGED <<status, name>>

\* Mutant: the session that was archived stays active.
ArchiveLineKeeps(l) ==
    /\ l.op = "archive"
    /\ Hydrate
    /\ LET s == ResolvedSession(known', l.whom) IN
       /\ status' = IF s = None THEN status ELSE [status EXCEPT ![s] = "archived"]
       /\ targeted' = targeted \ {s}
    /\ Happened(None, TRUE)
    /\ UNCHANGED <<shellActive, name>>

ArchiveLine(l) ==
    /\ l.op = "archive"
    /\ Hydrate
    /\ LET s == ResolvedSession(known', l.whom) IN
       IF s = None THEN UNCHANGED <<status, shellActive, targeted>>
       ELSE /\ status' = [status EXCEPT ![s] = "archived"]
            /\ shellActive' = IF shellActive = s THEN None ELSE shellActive
            /\ targeted' = targeted \ {s}
    /\ Happened(None, TRUE)
    /\ UNCHANGED name

\* Everything else: a listing, a scene command, a line that cannot be parsed.
Other(l) ==
    /\ l.op \in {"other", "quit", "realtime", "eof"}
    /\ Hydrate \/ UNCHANGED <<known, abroad>>
    /\ Happened(None, TRUE)
    /\ UNCHANGED <<status, name, shellActive, targeted>>

\* One line is taken from the queue and handled; the end of input ends the loop.
Handle ==
    /\ phase = "read" /\ lines # <<>>
    /\ LET l == Head(lines) IN
        /\ Text(l) \/ SendLine(l) \/ SpawnLine(l) \/ WishLine(l) \/ Clear(l) \/ TargetLine(l)
             \/ ArchiveLine(l) \/ Other(l)
        /\ phase' = CASE l.op \in {"quit", "eof"} -> "over"
                      [] l.op = "realtime" -> "window"
                      [] OTHER -> "loop"
    /\ lines' = Tail(lines)
    /\ UNCHANGED mail

\* Nothing was typed for a fifth of a second.
NoLine ==
    /\ phase = "read" /\ lines = <<>>
    /\ phase' = "loop"
    /\ UNCHANGED <<sessions, shellActive, lines, mail, shellLast, targeted>>

\* The user closes the window that /realtime opened.
CloseWindow ==
    /\ phase = "window"
    /\ phase' = "loop"
    /\ UNCHANGED <<sessions, shellActive, lines, mail, shellLast, targeted>>

--------------------------------------------------------------------------------
\* Meanwhile

Type(l) ==
    /\ phase # "over" /\ Len(lines) < MaxLines
    /\ EOF \notin ToSet(lines)
    /\ l.op \in {"spawn", "wish"} => Room
    /\ lines' = Append(lines, l)
    /\ UNCHANGED <<sessions, shellActive, phase, mail, shellLast, targeted>>

\* Another process (a panel, the bridge) spawns a session.
SpawnAbroad(s, n) ==
    /\ Unspawned(s) /\ Room
    /\ abroad' = abroad \cup {s}
    /\ status' = [status EXCEPT ![s] = "open"]
    /\ name' = [name EXCEPT ![s] = n]
    /\ UNCHANGED <<known, shellActive, lines, phase, mail, shellLast, targeted>>

\* Inbox.post, by anyone: the file is created, then written.
Post(m) ==
    /\ note[m] # "whole"
    /\ note' = [note EXCEPT ![m] = IF @ = "none" THEN "blank" ELSE "whole"]
    /\ UNCHANGED <<sessions, shellActive, lines, phase, seen, announced, shellLast, targeted>>

Loop == Boot \/ Round \/ RoundPolls \/ Handle \/ NoLine

ShellNext ==
    \/ Loop \/ CloseWindow
    \/ \E l \in Lines \cup {EOF} : Type(l)
    \/ \E s \in Sessions, n \in DisplayNames : SpawnAbroad(s, n)
    \/ \E m \in Notes : Post(m)

ShellSpec == ShellInit /\ [][ShellNext]_shellVars

--------------------------------------------------------------------------------
\* The state is what the code makes of it, and no session is known twice.
ShellTypeOK ==
    /\ IsInjective(known) /\ ToSet(known) \cap abroad = {}
    /\ ToSet(known) \cup abroad = {s \in Sessions : status[s] # "unborn"}
    /\ shellActive \in Sessions \cup {None}
    /\ phase \in {"boot", "loop", "read", "window", "over"}
    /\ seen \subseteq Notes

\* Bare text goes nowhere rather than to a session this shell archived, unless the
\* user targeted that one again afterwards.
ActiveIsMeant ==
    shellActive # None => shellActive \in ToSet(known) /\ (status[shellActive] = "archived" => shellActive \in targeted)

Handled(op) == lines # <<>> /\ lines' = Tail(lines) /\ Head(lines).op = op
There       == ToSet(known) \cup abroad

\* What is sent to an id or a name reaches a session that answers to it, also one
\* that another process spawned, and the one if there is only one; or the user is told.
MeantIsReached ==
    [][Handled("send") =>
         IF shellLast'.told THEN shellLast'.to = None
         ELSE LET answering == {s \in There : AnswersTo(s, Head(lines).whom)}
              IN  shellLast'.to \in answering]_shellVars

\* Likewise the session that bare text goes to from then on.
FoundIfThere ==
    [][Handled("target") =>
         \A s \in There : AnswersTo(s, Head(lines).whom) => AnswersTo(shellActive', Head(lines).whom)]_shellVars

\* A message is announced once at most.
AnnouncedOnce == \A m \in Notes : announced[m] # "again"

\* shell.py:80: "/spawn <type> [name] [-- seed]": the words after -- are the seed.
SeedIsSent == [][Handled("spawn") /\ Head(lines).seed => shellLast'.to # None \/ shellLast'.told]_shellVars

\* Whatever is typed and posted: text goes to sessions that are meant, or the user
\* is told, and a message is announced once.
ShellIsSound ==
    /\ [](ShellTypeOK /\ ActiveIsMeant /\ AnnouncedOnce)
    /\ MeantIsReached /\ FoundIfThere
=============================================================================
