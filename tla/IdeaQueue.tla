------------------------------- MODULE IdeaQueue -------------------------------
(***************************************************************************)
(* The idea queue: a text file of ideas that the tabs of the page, which   *)
(* share one engine, and other processes, each with its own, change by     *)
(* loading it whole, changing the list and writing it back, without a      *)
(* lock.  The answer of a command is read out of the engine's view state   *)
(* after the dispatch.                                                     *)
(*                                                                         *)
(* Opening the file empties it; the ideas are of one length, so that a     *)
(* text written over a longer one keeps the end of the longer.             *)
(***************************************************************************)
EXTENDS Naturals, Sequences, FiniteSets, SequencesExt

CONSTANTS
    Tabs,      \* threads of the page
    Shells,    \* other processes, one command at a time
    Ideas,     \* the ideas added
    MaxCalls,  \* bound: commands
    MaxFails   \* bound: writes that fail, and callers killed

Callers == Tabs \cup Shells
Engine(c) == IF c \in Tabs THEN "page" ELSE c
Engines == {Engine(c) : c \in Callers}

VARIABLES
    queue,   \* idea_queue.md
    call,    \* what each caller is doing
    view,    \* each engine's view state of the node: last_<verb>
    ideal,   \* history: the queue if every command had run at once
    mixed,   \* history: two commands overlapped, or one was cut short or failed
    calls, fails

vars == <<queue, call, view, ideal, mixed, calls, fails>>

Verbs == {"add", "up", "down", "delete"}
Commands == [verb : {"add"}, idea : Ideas]
                \cup [verb : {"up", "down", "delete"}, at : 1 .. 2]
AnyCommand == CHOOSE k \in Commands : TRUE

Nothing == [ok |-> FALSE, said |-> << >>]   \* no last_<verb> yet
Idle == [at |-> "idle", cmd |-> AnyCommand, loaded |-> << >>,
         told |-> Nothing, own |-> Nothing]

Init ==
    /\ queue = << >> /\ ideal = << >>
    /\ call = [c \in Callers |-> Idle]
    /\ view = [e \in Engines |-> [v \in Verbs |-> Nothing]]
    /\ mixed = FALSE /\ calls = 0 /\ fails = 0

Busy == {c \in Callers : call[c].at # "idle"}

-----------------------------------------------------------------------------
(* handle_action: what a command makes of a list, and what it reports.     *)

Other(cmd) == IF cmd.verb = "up" THEN cmd.at - 1 ELSE cmd.at + 1

Applies(cmd, list) ==
    \/ cmd.verb = "add"
    \/ cmd.verb = "delete" /\ cmd.at \in DOMAIN list
    \/ cmd.verb \in {"up", "down"} /\ {cmd.at, Other(cmd)} \subseteq DOMAIN list

Changed(cmd, list) ==
    IF ~Applies(cmd, list) THEN list
    ELSE CASE cmd.verb = "add" -> Append(list, cmd.idea)
           [] cmd.verb = "delete" -> RemoveAt(list, cmd.at)
           [] OTHER -> [list EXCEPT ![cmd.at] = list[Other(cmd)], ![Other(cmd)] = list[cmd.at]]

Report(cmd, list) ==
    [ok |-> Applies(cmd, list),
     said |-> IF ~Applies(cmd, list) THEN << >>
              ELSE CASE cmd.verb = "add" -> <<Len(list) + 1>>
                     [] cmd.verb = "delete" -> <<list[cmd.at]>>
                     [] OTHER -> <<cmd.at, Other(cmd)>>]

\* Mutant: the list is the one the caller worked with last.
LoadRemembered(c, cmd) ==
    /\ call[c].at = "idle" /\ calls < MaxCalls
    /\ calls' = calls + 1
    /\ mixed' = (mixed \/ Busy # {})
    /\ call' = [call EXCEPT ![c] = [at |-> IF Applies(cmd, call[c].loaded) THEN "open" ELSE "report",
                                    cmd |-> cmd, loaded |-> call[c].loaded,
                                    told |-> call[c].told, own |-> Report(cmd, call[c].loaded)]]
    /\ UNCHANGED <<queue, view, ideal, fails>>

\* A command that does not apply writes nothing.
Load(c, cmd) ==
    /\ call[c].at = "idle" /\ calls < MaxCalls
    /\ calls' = calls + 1
    /\ mixed' = (mixed \/ Busy # {})
    /\ call' = [call EXCEPT ![c] = [at |-> IF Applies(cmd, queue) THEN "open" ELSE "report",
                                    cmd |-> cmd, loaded |-> queue,
                                    told |-> call[c].told, own |-> Report(cmd, queue)]]
    /\ UNCHANGED <<queue, view, ideal, fails>>

Open(c) ==
    /\ call[c].at = "open"
    /\ queue' = << >>
    /\ call' = [call EXCEPT ![c].at = "write"]
    /\ UNCHANGED <<view, ideal, mixed, calls, fails>>

Over(new, old) == new \o SubSeq(old, Len(new) + 1, Len(old))

Write(c) ==
    /\ call[c].at = "write"
    /\ LET new == Changed(call[c].cmd, call[c].loaded)
       IN  /\ queue' = Over(new, queue)
           /\ ideal' = Changed(call[c].cmd, ideal)
    /\ call' = [call EXCEPT ![c].at = "report"]
    /\ UNCHANGED <<view, mixed, calls, fails>>

\* The handler raises, before or after the file was emptied; dispatch_action
\* keeps the view state as it was, and the command does not look at its result.
Fail(c) ==
    /\ call[c].at \in {"open", "write"} /\ fails < MaxFails
    /\ fails' = fails + 1
    /\ mixed' = TRUE
    /\ call' = [call EXCEPT ![c].at = "answer", ![c].own = Nothing]
    /\ UNCHANGED <<queue, view, ideal, calls>>

\* dispatch_action merges the delta into the view state.
ReportTo(c) ==
    /\ call[c].at = "report"
    /\ view' = [view EXCEPT ![Engine(c)][call[c].cmd.verb] = call[c].own]
    /\ call' = [call EXCEPT ![c].at = "answer"]
    /\ UNCHANGED <<queue, ideal, mixed, calls, fails>>

\* The command reads last_<verb>.
Answer(c) ==
    /\ call[c].at = "answer"
    /\ call' = [call EXCEPT ![c].at = "idle",
                            ![c].told = view[Engine(c)][call[c].cmd.verb]]
    /\ UNCHANGED <<queue, view, ideal, mixed, calls, fails>>

\* Another process is killed, and started again with a new engine.
Kill(c) ==
    /\ c \in Shells /\ call[c].at # "idle" /\ fails < MaxFails
    /\ fails' = fails + 1
    /\ mixed' = TRUE
    /\ call' = [call EXCEPT ![c] = Idle]
    /\ view' = [view EXCEPT ![c] = [v \in Verbs |-> Nothing]]
    /\ UNCHANGED <<queue, ideal, calls>>

Next ==
    \E c \in Callers :
        \/ \E cmd \in Commands : Load(c, cmd)
        \/ Open(c) \/ Write(c) \/ Fail(c) \/ ReportTo(c) \/ Answer(c) \/ Kill(c)

Spec == Init /\ [][Next]_vars

-----------------------------------------------------------------------------

TypeOK ==
    /\ {queue, ideal} \subseteq Seq(Ideas)
    /\ \A c \in Callers :
        /\ call[c].at \in {"idle", "open", "write", "report", "answer"}
        /\ call[c].cmd \in Commands /\ call[c].loaded \in Seq(Ideas)
        /\ call[c].at \in {"open", "write"} => Applies(call[c].cmd, call[c].loaded)
    /\ DOMAIN view = Engines /\ mixed \in BOOLEAN

Settled == \A c \in Callers : call[c].at \notin {"open", "write"}

(***************************************************************************)
(* As long as commands have come one after another, from whichever tab or  *)
(* process, and none failed, the file is the queue that the same commands  *)
(* would make of a list: nothing is lost, repeated or left over from a     *)
(* longer text.                                                            *)
(***************************************************************************)
SerialIsExact == ~mixed /\ Settled => queue = ideal

(***************************************************************************)
(* Each such command is told what became of it, and not what became of an  *)
(* earlier one: the view state that is shared by all of them carries its   *)
(* own report when it reads it.                                            *)
(***************************************************************************)
AnswersAreOwn ==
    ~mixed => \A c \in Callers : call[c].at = "idle" => call[c].told = call[c].own

(***************************************************************************)
(* dispatch_action "returns (False, 'handle_action raised: ...')" and the  *)
(* command must not say that it succeeded when it did not: the answer of a *)
(* command that failed is not a success.                                   *)
(***************************************************************************)
FailureIsTold ==
    [][\A c \in Callers :
        call[c].at = "answer" /\ call'[c].at = "idle" /\ call[c].own = Nothing
            => ~call'[c].told.ok]_vars

\* As long as no two commands overlap, the file is what the commands make of it one
\* after another, and each is told what became of it and not of an earlier one.
IdeasAreKept ==
    TypeOK /\ SerialIsExact /\ AnswersAreOwn
=============================================================================
