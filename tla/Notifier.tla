-------------------------------- MODULE Notifier --------------------------------
(***************************************************************************)
(* The email notifier: a caller loads the configuration, and sends one     *)
(* mail with it or records the trigger in email_pending.jsonl; either way  *)
(* it adds a row to the send log.  Any disk or SMTP step may fail and a    *)
(* process may be killed at any point; the configuration may be written    *)
(* again at any time.                                                      *)
(***************************************************************************)
EXTENDS Naturals, Sequences, FiniteSets, SequencesExt

CONSTANTS
    Sends,     \* the triggers, each raised once, each by a process of its own
    MaxFaults, \* bound: steps that fail
    MaxKills   \* bound: processes killed

VARIABLES
    config,     \* email_config.json
    pending,    \* the rows of email_pending.jsonl: a trigger, or Cut
    sendlog,    \* those of email_send_log.jsonl: a trigger and whether it was sent
    mailbox,    \* how often each mail was accepted by the server
    send,       \* where each call is, and with what configuration
    faults, kills

vars == <<config, pending, sendlog, mailbox, send, faults, kills>>

Cut == "cut"   \* a row whose end is missing, with its line break
Configs == [enabled : BOOLEAN, complete : BOOLEAN, valid : BOOLEAN]
Default == [enabled |-> FALSE, complete |-> FALSE, valid |-> TRUE]   \* no file
Unraised == [at |-> "unraised", dry |-> FALSE, cfg |-> Default, sent |-> FALSE]

Init ==
    /\ config = Default
    /\ pending = << >> /\ sendlog = << >>
    /\ mailbox = [k \in Sends |-> 0]
    /\ send = [k \in Sends |-> Unraised]
    /\ faults = 0 /\ kills = 0

At(k, where) == send[k].at = where
Goto(k, where) == send' = [send EXCEPT ![k].at = where]
Faulty == faults < MaxFaults /\ faults' = faults + 1

\* configure-email replaces the file as a whole; by hand it can be made invalid.
Configure(cfg) ==
    /\ config' = cfg
    /\ UNCHANGED <<pending, sendlog, mailbox, send, faults, kills>>

\* load_config raises on a file that is not valid; a missing one is the default.
Raise(k, dry) ==
    /\ At(k, "unraised")
    /\ send' = [send EXCEPT ![k] = [at |-> IF config.valid THEN "gate" ELSE "raised",
                                    dry |-> dry, cfg |-> config, sent |-> FALSE]]
    /\ UNCHANGED <<config, pending, sendlog, mailbox, faults, kills>>

\* The environment may disable sending, and goes first; a dry run does not ask
\* whether the configuration is enabled; one that lacks a host, a recipient or the
\* password raises.
Gate(k) ==
    /\ At(k, "gate")
    /\ \/ Goto(k, "pend")
       \/ Goto(k, IF ~send[k].cfg.enabled /\ ~send[k].dry THEN "pend"
                  ELSE IF ~send[k].cfg.complete THEN "raised" ELSE "connect")
    /\ UNCHANGED <<config, pending, sendlog, mailbox, faults, kills>>

\* Connect and log in: a dry run is over then.
Connect(k) ==
    /\ At(k, "connect")
    /\ Goto(k, IF send[k].dry THEN "quit dry" ELSE "hand over")
    /\ UNCHANGED <<config, pending, sendlog, mailbox, faults, kills>>

HandOver(k) ==
    /\ At(k, "hand over")
    /\ mailbox' = [mailbox EXCEPT ![k] = @ + 1]
    /\ Goto(k, "quit")
    /\ UNCHANGED <<config, pending, sendlog, faults, kills>>

\* Any failure of the conversation raises, that of its last word included.
SmtpFails(k) ==
    /\ send[k].at \in {"connect", "hand over", "quit", "quit dry"}
    /\ Faulty
    /\ Goto(k, "raised")
    /\ UNCHANGED <<config, pending, sendlog, mailbox, kills>>

Quit(k) ==
    /\ send[k].at \in {"quit", "quit dry"}
    /\ send' = [send EXCEPT ![k].at = IF send[k].at = "quit" THEN "log" ELSE "pend",
                            ![k].sent = send[k].at = "quit"]
    /\ UNCHANGED <<config, pending, sendlog, mailbox, faults, kills>>

\* append_pending_trigger; a failure raises.
Pend(k) ==
    /\ At(k, "pend")
    /\ pending' = Append(pending, k)
    /\ Goto(k, "log")
    /\ UNCHANGED <<config, sendlog, mailbox, faults, kills>>

\* Mutant: as for the log, an error must not derail the session.
PendSwallows(k) ==
    /\ At(k, "pend") /\ Faulty
    /\ Goto(k, "log")
    /\ UNCHANGED <<config, pending, sendlog, mailbox, kills>>

PendFails(k) ==
    /\ At(k, "pend") /\ Faulty
    /\ Goto(k, "raised")
    /\ UNCHANGED <<config, pending, sendlog, mailbox, kills>>

\* _append_send_log, whose failures are swallowed.
Log(k) ==
    /\ At(k, "log")
    /\ \/ sendlog' = Append(sendlog, [trigger |-> k, sent |-> send[k].sent]) /\ UNCHANGED faults
       \/ Faulty /\ UNCHANGED sendlog
    /\ Goto(k, "returned")
    /\ UNCHANGED <<config, pending, mailbox, kills>>

Running(k) == send[k].at \notin {"unraised", "raised", "returned", "killed"}

\* The process dies, perhaps with a row of the triggers half written.
Kill(k) ==
    /\ Running(k) /\ kills < MaxKills
    /\ kills' = kills + 1
    /\ Goto(k, "killed")
    /\ pending' \in {pending} \cup (IF At(k, "pend") THEN {Append(pending, Cut)} ELSE {})
    /\ UNCHANGED <<config, sendlog, mailbox, faults>>

Next ==
    \/ \E cfg \in Configs : Configure(cfg)
    \/ \E k \in Sends :
        \/ \E dry \in BOOLEAN : Raise(k, dry)
        \/ Gate(k) \/ Connect(k) \/ HandOver(k) \/ SmtpFails(k) \/ Quit(k)
        \/ Pend(k) \/ PendFails(k) \/ Log(k) \/ Kill(k)

Spec == Init /\ [][Next]_vars

-----------------------------------------------------------------------------

TypeOK ==
    /\ config \in Configs
    /\ Range(pending) \subseteq Sends \cup {Cut}
    /\ \A k \in Sends :
        /\ mailbox[k] \in Nat /\ send[k].cfg \in Configs
        /\ send[k].at = "returned" => send[k].sent \in BOOLEAN
        /\ send[k].at \in {"connect", "hand over", "quit"} => send[k].cfg.complete

Returned == {k \in Sends : At(k, "returned")}

\* list_pending_email_triggers: a row whose line starts with a cut one is lost.
Listed == {k \in Sends : \E i \in DOMAIN pending :
              pending[i] = k /\ (i = 1 \/ pending[i - 1] # Cut)}

(***************************************************************************)
(* A trigger is not lost without a word: of the calls that returned        *)
(* instead of raising, all but at most one for each killed process have    *)
(* their mail delivered or can be read in the list of pending triggers,    *)
(* whatever failed on the way.                                             *)
(***************************************************************************)
NothingLostSilently ==
    Cardinality({k \in Returned : mailbox[k] = 0 /\ k \notin Listed}) <= kills

(***************************************************************************)
(* A trigger is mailed once at most, and it is not both mailed and listed  *)
(* as pending; a call reports sent, and the log says sent, exactly if the  *)
(* server took the mail, whichever configuration is on disk by then.       *)
(***************************************************************************)
SentOnce ==
    /\ \A k \in Sends : mailbox[k] <= 1 /\ (mailbox[k] = 1 => k \notin Range(pending))
    /\ \A k \in Returned : send[k].sent <=> mailbox[k] = 1
    /\ \A i \in DOMAIN sendlog : sendlog[i].sent <=> mailbox[sendlog[i].trigger] = 1

(***************************************************************************)
(* A disabled configuration and a dry run are quiet: a mail that went out  *)
(* was sent by a real call whose configuration was enabled, complete and   *)
(* valid when the call loaded it.                                          *)
(***************************************************************************)
OnlyEnabledSends ==
    \A k \in Sends : mailbox[k] > 0 =>
        send[k].cfg.enabled /\ send[k].cfg.complete /\ send[k].cfg.valid /\ ~send[k].dry

(***************************************************************************)
(* "Audit of every send attempt - successes + skips + failures"            *)
(* (tools/email_notifier.py:429): a call that failed after it had begun to *)
(* send has a row in the log.                                              *)
(***************************************************************************)
AuditHasFailures ==
    \A k \in Sends :
        mailbox[k] > 0 /\ At(k, "raised") => \E i \in DOMAIN sendlog : sendlog[i].trigger = k

\* Every trigger is accounted for: it was mailed, once and under a configuration that
\* allows it, or it is pending, and its caller and the log were told which.
MailIsAccounted ==
    TypeOK /\ NothingLostSilently /\ SentOnce /\ OnlyEnabledSends
=============================================================================
