------------------------------ MODULE CommandQueue ------------------------------
(***************************************************************************)
(* The command queue of the page (tools/workflow_streamlit/cli_bridge.py): *)
(* any process appends a line to a file; every open tab of the page drains *)
(* it, at each run of the page and every two seconds: it reads the file,   *)
(* runs the first commands and writes back what it has read of the rest.   *)
(***************************************************************************)
EXTENDS Naturals, Sequences, SequencesExt

CONSTANTS
    Commands,    \* the commands sent, each once
    Tabs,        \* the open tabs, each with a thread of the page's process
    MaxPerTick,  \* max_per_tick
    MaxKills     \* bound: times the page's process is killed

VARIABLES
    queue,    \* the lines of the file
    tmp,      \* its temporary file, of one name: the lines, or none
    sender,   \* each command: "unsent", "open" or, the file replaced since, "stale", then "sent"
    drain,    \* what each tab is doing
    ran,      \* the commands that ran, in order
    sent,     \* history: the commands written, in order
    crossed,  \* history: those written while a drain had read the file and not yet written it
    muddled,  \* history: two drains overlapped, or one was cut short
    kills

vars == <<queue, tmp, sender, drain, ran, sent, crossed, muddled, kills>>

None == [there |-> FALSE, lines |-> <<>>]
Idle == [at |-> "idle", run |-> <<>>, rest |-> <<>>]

Init ==
    /\ queue = <<>> /\ tmp = None
    /\ sender = [c \in Commands |-> "unsent"]
    /\ drain = [t \in Tabs |-> Idle]
    /\ ran = <<>> /\ sent = <<>>
    /\ crossed = {} /\ muddled = FALSE /\ kills = 0

Due == IF Len(queue) <= MaxPerTick THEN queue ELSE SubSeq(queue, 1, MaxPerTick)
Draining == {t \in Tabs : drain[t].at # "idle"}

\* enqueue opens the file, and writes the line to the file it opened.
Open(c) ==
    /\ sender[c] = "unsent"
    /\ sender' = [sender EXCEPT ![c] = "open"]
    /\ UNCHANGED <<queue, tmp, drain, ran, sent, crossed, muddled, kills>>

Write(c) ==
    /\ sender[c] \in {"open", "stale"}
    /\ queue' = IF sender[c] = "open" THEN Append(queue, c) ELSE queue
    /\ sender' = [sender EXCEPT ![c] = "sent"]
    /\ sent' = Append(sent, c)
    /\ crossed' = IF sender[c] = "stale" \/ Draining # {} THEN crossed \union {c} ELSE crossed
    /\ UNCHANGED <<tmp, drain, ran, muddled, kills>>

\* drain: what is beyond the cap stays for the next tick.
Read(t) ==
    /\ drain[t].at = "idle"
    /\ drain' = [drain EXCEPT ![t] =
                    [at |-> IF queue = <<>> THEN "truncate" ELSE "run",
                     run |-> Due,
                     rest |-> SubSeq(queue, Len(Due) + 1, Len(queue))]]
    /\ muddled' = (muddled \/ Draining # {})
    /\ UNCHANGED <<queue, tmp, sender, ran, sent, crossed, kills>>

\* _safe_truncate empties the file in place.
Truncate(t) ==
    /\ drain[t].at = "truncate"
    /\ queue' = <<>>
    /\ drain' = [drain EXCEPT ![t] = Idle]
    /\ UNCHANGED <<tmp, sender, ran, sent, crossed, muddled, kills>>

\* A command that fails has run all the same.
Run(t) ==
    /\ drain[t].at = "run"
    /\ IF drain[t].run = <<>>
       THEN /\ drain' = [drain EXCEPT ![t].at = "rewrite"]
            /\ UNCHANGED ran
       ELSE /\ ran' = Append(ran, Head(drain[t].run))
            /\ drain' = [drain EXCEPT ![t].run = Tail(@)]
    /\ UNCHANGED <<queue, tmp, sender, sent, crossed, muddled, kills>>

-----------------------------------------------------------------------------
\* _safe_rewrite

\* Mutant: the file is written back with the commands that were run.
WriteTmpAll(t) ==
    /\ drain[t].at = "rewrite"
    /\ tmp' = [there |-> TRUE, lines |-> queue]
    /\ drain' = [drain EXCEPT ![t].at = "replace"]
    /\ UNCHANGED <<queue, sender, ran, sent, crossed, muddled, kills>>

WriteTmp(t) ==
    /\ drain[t].at = "rewrite"
    /\ tmp' = [there |-> TRUE, lines |-> drain[t].rest]
    /\ drain' = [drain EXCEPT ![t].at = "replace"]
    /\ UNCHANGED <<queue, sender, ran, sent, crossed, muddled, kills>>

\* Whatever the temporary file holds becomes the queue; who has opened the old
\* file writes into a file without a name.
Replace(t) ==
    /\ drain[t].at = "replace" /\ tmp.there
    /\ queue' = tmp.lines
    /\ tmp' = None
    /\ sender' = [c \in Commands |-> IF sender[c] = "open" THEN "stale" ELSE sender[c]]
    /\ drain' = [drain EXCEPT ![t] = Idle]
    /\ UNCHANGED <<ran, sent, crossed, muddled, kills>>

\* Another tab has moved it: the file is written directly.
WriteDirectly(t) ==
    /\ drain[t].at = "replace" /\ ~tmp.there
    /\ queue' = drain[t].rest
    /\ drain' = [drain EXCEPT ![t] = Idle]
    /\ UNCHANGED <<tmp, sender, ran, sent, crossed, muddled, kills>>

Kill ==
    /\ kills < MaxKills
    /\ kills' = kills + 1
    /\ muddled' = (muddled \/ Draining # {})
    /\ drain' = [t \in Tabs |-> Idle]
    /\ UNCHANGED <<queue, tmp, sender, ran, sent, crossed>>

Drain(t) == Read(t) \/ Truncate(t) \/ Run(t) \/ WriteTmp(t) \/ Replace(t) \/ WriteDirectly(t)

Next ==
    \/ \E c \in Commands : Open(c) \/ Write(c)
    \/ \E t \in Tabs : Drain(t)
    \/ Kill

\* As long as a tab is open, the page drains every two seconds.
Fairness == \A t \in Tabs : WF_vars(Drain(t))

Spec == Init /\ [][Next]_vars /\ Fairness

-----------------------------------------------------------------------------
\* A command is in the file or run only if it was sent, and while no drain was
\* disturbed a temporary file is there only between its writing and its move.
TypeOK ==
    /\ ToSet(queue) \union ToSet(ran) \subseteq ToSet(sent)
    /\ ~muddled => (tmp.there <=> \E t \in Tabs : drain[t].at = "replace")

\* A command runs twice only where two tabs drained at once or the page was
\* killed before it wrote the file back.
RunsOnce == ~muddled => IsInjective(ran)

\* A command is lost only where it was written during a drain, or drains
\* overlapped.
KeptUnlessCrossed ==
    ~muddled => ToSet(sent) \ crossed \subseteq ToSet(queue) \union ToSet(ran)

\* Commands that did not cross a drain run in the order they were sent.
RunsInOrder ==
    ~muddled =>
        \A i, j \in DOMAIN sent : i < j /\ {sent[i], sent[j]} \cap crossed = {} =>
            \A l \in DOMAIN ran : ran[l] = sent[j] => \E k \in 1 .. l - 1 : ran[k] = sent[i]

\* And the page comes to them, however many are ahead.
EventuallyRun ==
    \A c \in Commands :
        (sender[c] = "sent" /\ c \notin crossed) ~> (c \in ToSet(ran) \/ muddled)

\* cli_bridge.py:48: "Atomic enough for one-writer-one-reader".
AtomicForOneReader == ToSet(sent) \subseteq ToSet(queue) \union ToSet(ran)

\* With one page draining at a time, a command that did not cross a drain runs once,
\* in its turn, or still waits.
CommandsAreKept ==
    TypeOK /\ RunsOnce /\ KeptUnlessCrossed /\ RunsInOrder
=============================================================================
