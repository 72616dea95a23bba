--------------------------------- MODULE RowLog ---------------------------------
(***************************************************************************)
(* The files of JSON lines: the audit log of routing decisions             *)
(* (tools/workflow/route_chat_audit_log.py), which rotates, and the edit   *)
(* history of a node (tools/node_history.py), which does not.  Every       *)
(* process appends to the file by its name; a reader skips the lines it    *)
(* cannot parse.  A row's size is 1; it fits one write.                    *)
(***************************************************************************)
EXTENDS Naturals, Sequences, FiniteSets

CONSTANTS
    Writers,   \* the writers, in one process or several; the lock of each admits one thread
    Limit,     \* rotation_bytes, in rows; 0 is never to rotate
    MaxRows,   \* bound: rows written
    MaxKills   \* bound: processes killed

VARIABLES
    file,      \* what each file holds, named or not: rows, whole or cut, ended or not
    live,      \* the file of the log's name, 0 for none
    rotated,   \* the files that have a rotated name
    zipped,    \* the copies made of rotated files
    pen,       \* where each writer is, with which row and file
    rows,      \* how many rows were begun
    done,      \* history: the rows whose append returned
    moved,     \* history: those whose file was rotated away since it was opened
    failed,    \* history: a rotation failed
    kills

vars == <<file, live, rotated, zipped, pen, rows, done, moved, failed, kills>>

Files == 1 .. MaxRows + 1
Resting == [at |-> "idle", row |-> 0, fd |-> 0]

Init ==
    /\ file = <<>> /\ live = 0 /\ rotated = {} /\ zipped = [f \in {} |-> <<>>]
    /\ pen = [w \in Writers |-> Resting]
    /\ rows = 0 /\ done = {} /\ moved = {} /\ failed = FALSE /\ kills = 0

Goto(w, where) == pen' = [pen EXCEPT ![w].at = where]

\* append takes the process's lock; what it checks is the size before the write.
Begin(w) ==
    /\ pen[w].at = "idle" /\ rows < MaxRows
    /\ rows' = rows + 1
    /\ pen' = [pen EXCEPT ![w] = [at |-> "check", row |-> rows + 1, fd |-> 0]]
    /\ UNCHANGED <<file, live, rotated, zipped, done, moved, failed, kills>>

TooLong == Limit > 0 /\ live # 0 /\ Len(file[live]) + 1 > Limit

Check(w) ==
    /\ pen[w].at = "check"
    /\ Goto(w, IF TooLong THEN "rotate" ELSE "open")
    /\ UNCHANGED <<file, live, rotated, zipped, rows, done, moved, failed, kills>>

\* os.replace moves whatever file has the name by now.
Rotate(w) ==
    /\ pen[w].at = "rotate"
    /\ IF live = 0
       THEN Goto(w, "open") /\ UNCHANGED <<live, rotated>>
       ELSE /\ rotated' = rotated \union {live}
            /\ live' = 0
            /\ pen' = [pen EXCEPT ![w].at = "zip", ![w].fd = live]
    /\ UNCHANGED <<file, zipped, rows, done, moved, failed, kills>>

RotateFails(w) ==
    /\ pen[w].at = "rotate"
    /\ failed' = TRUE
    /\ Goto(w, "open")
    /\ UNCHANGED <<file, live, rotated, zipped, rows, done, moved, kills>>

\* Mutant: nothing is copied where compression fails.
ZipNothing(w) ==
    /\ pen[w].at = "zip"
    /\ zipped' = [f \in DOMAIN zipped \union {pen[w].fd} |-> IF f = pen[w].fd THEN <<>> ELSE zipped[f]]
    /\ Goto(w, "unlink")
    /\ UNCHANGED <<file, live, rotated, rows, done, moved, failed, kills>>

Zip(w) ==
    /\ pen[w].at = "zip"
    /\ zipped' = [f \in DOMAIN zipped \union {pen[w].fd} |->
                     IF f = pen[w].fd THEN file[f] ELSE zipped[f]]
    /\ Goto(w, "unlink")
    /\ UNCHANGED <<file, live, rotated, rows, done, moved, failed, kills>>

\* The plain file stays where it cannot be compressed or removed.
Unlink(w) ==
    /\ pen[w].at \in {"zip", "unlink"}
    /\ rotated' \in {rotated} \union (IF pen[w].at = "unlink" THEN {rotated \ {pen[w].fd}} ELSE {})
    /\ Goto(w, "open")
    /\ UNCHANGED <<file, live, zipped, rows, done, moved, failed, kills>>

\* The log's file is opened for appending, or made.
Open(w) ==
    /\ pen[w].at = "open"
    /\ IF live = 0
       THEN file' = Append(file, <<>>) /\ live' = Len(file) + 1
       ELSE UNCHANGED <<file, live>>
    /\ pen' = [pen EXCEPT ![w].at = "write", ![w].fd = live']
    /\ UNCHANGED <<rotated, zipped, rows, done, moved, failed, kills>>

Put(w, whole, ended) ==
    file' = [file EXCEPT ![pen[w].fd] = Append(@, [row |-> pen[w].row, by |-> w, whole |-> whole, ended |-> ended])]

Write(w) ==
    /\ pen[w].at = "write"
    /\ Put(w, TRUE, TRUE)
    /\ done' = done \union {pen[w].row}
    /\ moved' = IF pen[w].fd # live THEN moved \union {pen[w].row} ELSE moved
    /\ pen' = [pen EXCEPT ![w] = Resting]
    /\ UNCHANGED <<live, rotated, zipped, rows, failed, kills>>

\* A file that cannot be opened or written to: the row is given up in silence.
Swallow(w) ==
    /\ pen[w].at \in {"open", "write"}
    /\ pen' = [pen EXCEPT ![w] = Resting]
    /\ UNCHANGED <<file, live, rotated, zipped, rows, done, moved, failed, kills>>

\* A process is killed between two steps, or with a part of its row written, up
\* to the whole row without its end; another takes its place.
Kill(w) ==
    /\ pen[w].at # "idle" /\ kills < MaxKills
    /\ kills' = kills + 1
    /\ \/ UNCHANGED file
       \/ pen[w].at = "write" /\ \E whole \in BOOLEAN : Put(w, whole, FALSE)
    /\ pen' = [pen EXCEPT ![w] = Resting]
    /\ UNCHANGED <<live, rotated, zipped, rows, done, moved, failed>>

Next ==
    \E w \in Writers :
        \/ Begin(w) \/ Check(w) \/ Rotate(w) \/ RotateFails(w)
        \/ Zip(w) \/ Unlink(w) \/ Open(w) \/ Write(w) \/ Swallow(w) \/ Kill(w)

Spec == Init /\ [][Next]_vars

-----------------------------------------------------------------------------
\* What a reader finds

\* A line parses when it is one whole row: what it is glued to spoils both.
Parsed(lines) ==
    {lines[i].row : i \in {j \in DOMAIN lines :
        /\ lines[j].whole
        /\ j = 1 \/ lines[j - 1].ended
        /\ lines[j].ended \/ j = Len(lines)}}

Found ==
    UNION ({Parsed(file[f]) : f \in rotated \union (IF live = 0 THEN {} ELSE {live})}
           \union {Parsed(zipped[f]) : f \in DOMAIN zipped})

Lost == done \ Found

-----------------------------------------------------------------------------
\* A file is named once, and what was copied of it is a part of what it holds.
TypeOK ==
    /\ live \in 0 .. Len(file) /\ live \notin rotated
    /\ DOMAIN file \subseteq Files
    /\ \A f \in DOMAIN zipped :
          Len(zipped[f]) <= Len(file[f]) /\ zipped[f] = SubSeq(file[f], 1, Len(zipped[f]))

\* A killed process costs one returned row at the most, beside its own: the one
\* glued to what it left.  Every other loss is of a row whose file another
\* process rotated away under its writer.
LossIsBounded == Cardinality(Lost \ moved) <= kills

\* The files are rotated in time: none outgrows the limit by more than a row
\* of each other process, unless a rotation failed.
FilesAreBounded ==
    Limit > 0 /\ ~failed =>
        \A f \in DOMAIN file : Len(file[f]) <= Limit + Cardinality(Writers) - 1

\* Read file after file, the rows of a process are in the order it wrote them.
InOrder ==
    \A f, g \in DOMAIN file : \A i \in DOMAIN file[f], j \in DOMAIN file[g] :
        /\ f < g \/ (f = g /\ i < j)
        /\ file[f][i].by = file[g][j].by
        => file[f][i].row < file[g][j].row

\* route_chat_audit_log.py:238: "a rotated file is a complete snapshot at rotation time".
RotatedIsComplete == [][\A f \in DOMAIN file : f # live => file'[f] = file[f]]_vars

\* node_history.py:29: "The lost row is at worst the in-flight event".
OnlyInFlightIsLost == Lost = {}

\* The log keeps its rows, in order, in files of bounded length: a row is lost only to
\* a killed process, one for each, or to a rotation under its writer.
RowsAreKept ==
    TypeOK /\ LossIsBounded /\ FilesAreBounded /\ InOrder
=============================================================================
