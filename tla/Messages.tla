------------------------------- MODULE Messages -------------------------------
(***************************************************************************)
(* The messages of the program: the inbox and its pump, the queue of ideas *)
(* and the mail notifier. They share no state, so a behaviour of all of    *)
(* them together is one of each; the run takes one at a time: `part` says  *)
(* which, and the others stay as they begin.                               *)
(***************************************************************************)
EXTENDS Naturals

CONSTANTS
    Notes, MaxSessions, MaxCrashes,            \* of Mailroom
    Tabs, Shells, Ideas, MaxCalls, MaxFails,   \* of IdeaQueue
    Sends, MaxFaults, MaxKills                 \* of Notifier

ASSUME MessagesAssumption ==
    /\ MaxSessions \in Nat
    /\ "cut" \notin Sends   \* the mark of a row without its end is no trigger

VARIABLES
    part,
    note, addressee, forwarded, pump, typed, known, recorded, marker, ensure, life,
    spawned, got, echoed, halfRead, strangers, unsaved, crashes,
    queue, call, view, ideal, mixed, calls, fails,
    config, pending, sendlog, mailbox, send, faults, kills

mailVars == <<note, addressee, forwarded, pump, typed, known, recorded, marker,
              ensure, life, spawned, got, echoed, halfRead, strangers, unsaved,
              crashes>>
ideaVars == <<queue, call, view, ideal, mixed, calls, fails>>
mailerVars == <<config, pending, sendlog, mailbox, send, faults, kills>>
allVars == <<part, mailVars, ideaVars, mailerVars>>

Mail == INSTANCE Mailroom
Idea == INSTANCE IdeaQueue
Mailer == INSTANCE Notifier

-----------------------------------------------------------------------------

AllInit ==
    /\ part \in {"mail", "idea", "mailer"}
    /\ Mail!Init
    /\ Idea!Init
    /\ Mailer!Init

AllNext ==
    /\ UNCHANGED part
    /\ \/ /\ part = "mail" /\ Mail!Next
          /\ UNCHANGED <<ideaVars, mailerVars>>
       \/ /\ part = "idea" /\ Idea!Next
          /\ UNCHANGED <<mailVars, mailerVars>>
       \/ /\ part = "mailer" /\ Mailer!Next
          /\ UNCHANGED <<mailVars, ideaVars>>

\* The fairness of each component, while it is the one that runs.
FairnessOfAll ==
    /\ WF_mailVars(part = "mail" /\ (Mail!EnsureReturns \/ Mail!Mark))
    /\ WF_mailVars(part = "mail" /\ Mail!TickStarts)
    /\ WF_mailVars(part = "mail" /\ Mail!TickSaves)
    /\ \A n \in Notes : WF_mailVars(part = "mail" /\ Mail!Consider(n))
    /\ \A n \in Notes : SF_mailVars(part = "mail" /\ Mail!Forward(n))

AllSpec == AllInit /\ [][AllNext]_allVars /\ FairnessOfAll

-----------------------------------------------------------------------------

\* The pump forwards each message once, as far as it can: what counts as forwarded
\* has reached its session, and reached it again only for a reason that is recorded;
\* and it forwards it in the end.
ForwardedOnce == Mail!ForwardedOnce

\* As long as no two commands overlap, the file is what the commands make of it one
\* after another, and each is told what became of it and not of an earlier one.
IdeasAreKept == Idea!IdeasAreKept

\* Every trigger is accounted for: it was mailed, once and under a configuration that
\* allows it, or it is pending, and its caller and the log were told which.
MailIsAccounted == Mailer!MailIsAccounted
=============================================================================
