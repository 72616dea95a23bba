----------------------------- MODULE ProcessesProofs -----------------------------
(***************************************************************************)
(* What processes that share a file, a lock or a window keep, for every    *)
(* number of them: the registry of active sessions under its lock file,    *)
(* the command queue of the page, the logs of rows, and the frames of the  *)
(* 3D tab.                                                                 *)
(***************************************************************************)
EXTENDS Processes, FiniteSetTheorems, SequenceTheorems, TLAPS

-----------------------------------------------------------------------------
(* The registry of active sessions. *)

CallPcs == {"idle", "acquire", "break", "load", "write", "release", "dead"}
Entries == [Procs -> {"none", "fresh", "old"}]
Calls   == [at : CallPcs, op : {"none", "register", "heartbeat", "unregister"}, owns : BOOLEAN,
            waited : 0 .. Timeout, read : Entries]

RegistryTyped ==
    /\ registry \in Entries
    /\ lock \in [held : BOOLEAN, age : 0 .. StaleAge]
    /\ call \in [Procs -> Calls]
    /\ breached \in BOOLEAN

(* Until the lock was passed by: one call at the most owns it, it is there  *)
(* while it is owned, what is done under it is done by its owner, and the   *)
(* owner writes what is still in the file.                                  *)
LockHeld ==
    \/ breached
    \/ /\ \A p, q \in Procs : call[p].owns /\ call[q].owns => p = q
       /\ \A p \in Procs : call[p].owns => lock.held
       /\ \A p \in Procs : call[p].at \in {"load", "write", "release"} => call[p].owns
       /\ \A p \in Procs : call[p].at = "write" => call[p].read = registry

RegistryInv == RegistryTyped /\ LockHeld

LEMMA RegistryConstants == Timeout \in Nat /\ Timeout > 0 /\ StaleAge \in Nat /\ 0 \in 0 .. StaleAge
BY SessionRegistryAssumption DEF StaleAge

LEMMA NoCallTyped == NoCall \in Calls /\ NoCall.at = "idle" /\ ~NoCall.owns
BY RegistryConstants DEF NoCall, Calls, CallPcs, Entries

LEMMA RegistryStart == RegistryInit => RegistryInv
<1> SUFFICES ASSUME RegistryInit PROVE RegistryInv
  OBVIOUS
<1>1. RegistryTyped
  BY RegistryConstants, NoCallTyped DEF RegistryInit, RegistryTyped, NoLock, Entries
<1>2. LockHeld
  BY NoCallTyped DEF RegistryInit, LockHeld
<1> QED
  BY <1>1, <1>2 DEF RegistryInv

LEMMA RunKeeps ==
    ASSUME RegistryInv, NEW p \in Procs, Run(p)
    PROVE  RegistryInv'
<1> USE RegistryConstants DEF RegistryInv, RegistryTyped, At, Waiting
<1>0. call[p] \in Calls
  OBVIOUS
<1>1. CASE Acquire(p)
  BY <1>0, <1>1 DEF Acquire, LockHeld, Calls, CallPcs
<1>2. CASE SeeStale(p)
  BY <1>0, <1>2 DEF SeeStale, LockHeld, Calls, CallPcs
<1>3. CASE Break(p)
  BY <1>0, <1>3 DEF Break, LockHeld, Calls, CallPcs, NoLock
<1>4. CASE GiveUp(p)
  BY <1>0, <1>4 DEF GiveUp, LockHeld, Calls, CallPcs
<1>5. CASE Load(p)
  BY <1>0, <1>5 DEF Load, LockHeld, Calls, CallPcs
<1>6. CASE Write(p)
  <2>1. registry' \in Entries
    BY <1>0, <1>6 DEF Write, Rewritten, Calls, Entries
  <2>2. /\ call' = [call EXCEPT ![p].at = "release"] /\ UNCHANGED <<lock, breached>>
        /\ call[p].at = "write"
    BY <1>6 DEF Write
  <2>3. RegistryTyped'
    BY <1>0, <2>1, <2>2 DEF Calls, CallPcs
  <2>4. LockHeld'
    BY <1>0, <2>2 DEF LockHeld, Calls
  <2> QED
    BY <2>3, <2>4
<1>7. CASE WriteFails(p)
  BY <1>0, <1>7 DEF WriteFails, LockHeld, Calls, CallPcs
<1>8. CASE Release(p)
  BY <1>0, <1>8, NoCallTyped DEF Release, LockHeld, Calls, NoLock
<1> QED
  BY <1>1, <1>2, <1>3, <1>4, <1>5, <1>6, <1>7, <1>8 DEF Run

LEMMA OthersKeep ==
    ASSUME RegistryInv,
           \/ Tick \/ Hour
           \/ \E p \in Procs : Kill(p) \/ \E op \in {"register", "heartbeat", "unregister"} : Begin(p, op)
    PROVE  RegistryInv'
<1> USE RegistryConstants DEF RegistryInv, RegistryTyped, At
<1>1. CASE Tick
  <2>1. lock' \in [held : BOOLEAN, age : 0 .. StaleAge] /\ lock'.held = lock.held
    BY <1>1 DEF Tick, Capped
  <2>2. /\ call' \in [Procs -> Calls]
        /\ \A p \in Procs : call'[p].at = call[p].at /\ call'[p].owns = call[p].owns /\ call'[p].read = call[p].read
    BY <1>1 DEF Tick, Capped, Calls
  <2> QED
    BY <1>1, <2>1, <2>2 DEF Tick, LockHeld
<1>2. CASE Hour
  <2>1. lock' \in [held : BOOLEAN, age : 0 .. StaleAge] /\ lock'.held = lock.held
    BY <1>2 DEF Hour
  <2>2. registry' \in Entries
    BY <1>2 DEF Hour, Entries
  <2> QED
    BY <1>2, <2>1, <2>2 DEF Hour, LockHeld
<1>3. ASSUME NEW p \in Procs, Kill(p) PROVE RegistryInv'
  BY <1>3, NoCallTyped DEF Kill, LockHeld, Calls, CallPcs
<1>4. ASSUME NEW p \in Procs, NEW op \in {"register", "heartbeat", "unregister"}, Begin(p, op) PROVE RegistryInv'
  <2>1. [NoCall EXCEPT !.at = "acquire", !.op = op] \in Calls
    BY NoCallTyped DEF Calls, CallPcs
  <2>2. RegistryTyped'
    BY <1>4, <2>1 DEF Begin
  <2>3. /\ call'[p].at = "acquire" /\ ~call'[p].owns
        /\ \A q \in Procs : q # p => call'[q] = call[q]
    BY <1>4, NoCallTyped DEF Begin, NoCall
  <2> QED
    BY <1>4, <2>2, <2>3 DEF Begin, LockHeld
<1> QED
  BY <1>1, <1>2, <1>3, <1>4

LEMMA RegistryInvariant == RegistrySpec => []RegistryInv
<1>1. RegistryInv /\ [RegistryNext]_registryVars => RegistryInv'
  <2> SUFFICES ASSUME RegistryInv, [RegistryNext]_registryVars PROVE RegistryInv'
    OBVIOUS
  <2>1. CASE UNCHANGED registryVars
    BY <2>1 DEF registryVars, RegistryInv, RegistryTyped, LockHeld
  <2> QED
    BY <2>1, RunKeeps, OthersKeep DEF RegistryNext
<1> QED
  BY <1>1, RegistryStart, PTL DEF RegistrySpec

(* The registry's file, its lock and its calls are what the code makes of   *)
(* them, for every number of processes and every time-out.                  *)
THEOREM RegistryTypeCorrect == RegistrySpec => []RegistryTypeOK
<1>1. RegistryInv => RegistryTypeOK
  <2> SUFFICES ASSUME RegistryInv PROVE RegistryTypeOK
    OBVIOUS
  <2> DEFINE Owners == {p \in Procs : call[p].owns}
  <2>1. ASSUME ~breached PROVE Cardinality(Owners) <= IF lock.held THEN 1 ELSE 0
    <3>1. CASE Owners = {}
      <4>1. Cardinality(Owners) = 0
        BY <3>1, FS_EmptySet
      <4> QED
        BY <4>1
    <3>2. CASE Owners # {}
      <4>1. PICK p \in Owners : TRUE
        BY <3>2
      <4>2. Owners = {p} /\ lock.held
        BY <2>1, <4>1 DEF RegistryInv, LockHeld
      <4>3. Cardinality({p}) = 1
        BY FS_Singleton
      <4> HIDE DEF Owners
      <4> QED
        BY <4>2, <4>3
    <3> QED
      BY <3>1, <3>2
  <2> HIDE DEF Owners
  <2>2. /\ registry \in [Procs -> {"none", "fresh", "old"}] /\ lock.age \in 0 .. StaleAge
        /\ \A p \in Procs : call[p].waited \in 0 .. Timeout
    BY DEF RegistryInv, RegistryTyped, Entries, Calls
  <2> QED
    BY <2>1, <2>2 DEF RegistryTypeOK, Owners
<1> QED
  BY <1>1, RegistryInvariant, PTL

(* LockedCallsAreExact: until a lock was given up or broken, a write is of  *)
(* what the file still holds and takes nobody else's entry but an old one.  *)
THEOREM LockKeepsCallsExact == RegistrySpec => LockedCallsAreExact
<1> DEFINE Exact == \A p \in Procs : Write(p) /\ ~breached =>
                      /\ call[p].read = registry
                      /\ \A q \in Procs \ {p} : registry'[q] # registry[q] => registry[q] = "old"
<1>1. RegistryInv /\ [RegistryNext]_registryVars => [Exact]_registryVars
  <2> SUFFICES ASSUME RegistryInv, NEW p \in Procs, Write(p), ~breached
               PROVE  /\ call[p].read = registry
                      /\ \A q \in Procs \ {p} : registry'[q] # registry[q] => registry[q] = "old"
    OBVIOUS
  <2>1. call[p].read = registry
    BY DEF RegistryInv, LockHeld, Write, At
  <2> QED
    BY <2>1 DEF Write, Rewritten
<1> QED
  BY <1>1, RegistryInvariant, PTL DEF RegistrySpec, LockedCallsAreExact

-----------------------------------------------------------------------------
(* Sequences: what is in them. *)

LEMMA EmptySet == Queue!ToSet(<<>>) = {}
BY DEF Queue!ToSet

LEMMA AppendSet ==
    ASSUME NEW S, NEW s \in Seq(S), NEW e \in S
    PROVE  Queue!ToSet(Append(s, e)) = Queue!ToSet(s) \cup {e}
<1>1. /\ DOMAIN Append(s, e) = 1 .. Len(s) + 1 /\ DOMAIN s = 1 .. Len(s) /\ Len(s) \in Nat
      /\ \A i \in 1 .. Len(s) : Append(s, e)[i] = s[i]
      /\ Append(s, e)[Len(s) + 1] = e
  BY AppendProperties, LenProperties
<1>2. Len(s) + 1 \in DOMAIN Append(s, e) /\ \A i \in 1 .. Len(s) : i \in DOMAIN Append(s, e)
  BY <1>1
<1>3. \A i \in DOMAIN Append(s, e) : i \in 1 .. Len(s) \/ i = Len(s) + 1
  BY <1>1
<1>4. Queue!ToSet(s) \cup {e} \subseteq Queue!ToSet(Append(s, e))
  BY <1>1, <1>2 DEF Queue!ToSet
<1>5. Queue!ToSet(Append(s, e)) \subseteq Queue!ToSet(s) \cup {e}
  BY <1>1, <1>3 DEF Queue!ToSet
<1> QED
  BY <1>4, <1>5

LEMMA TailSet ==
    ASSUME NEW S, NEW s \in Seq(S), s # <<>>
    PROVE  Queue!ToSet(s) = {Head(s)} \cup Queue!ToSet(Tail(s))
<1>1. /\ Len(s) \in Nat /\ Len(s) > 0 /\ DOMAIN s = 1 .. Len(s)
      /\ DOMAIN Tail(s) = 1 .. Len(s) - 1 /\ Head(s) = s[1]
      /\ \A i \in 1 .. Len(s) - 1 : Tail(s)[i] = s[i + 1]
  BY EmptySeq, HeadTailProperties, LenProperties
<1>2. \A i \in 1 .. Len(s) : i = 1 \/ (i - 1 \in 1 .. Len(s) - 1 /\ s[i] = Tail(s)[i - 1])
  BY <1>1
<1>3. \A i \in 1 .. Len(s) - 1 : i + 1 \in 1 .. Len(s) /\ Tail(s)[i] = s[i + 1]
  BY <1>1
<1> QED
  <2>1. Queue!ToSet(Tail(s)) \subseteq Queue!ToSet(s)
    BY <1>1, <1>3 DEF Queue!ToSet
  <2>2. Head(s) \in Queue!ToSet(s)
    BY <1>1 DEF Queue!ToSet
  <2>3. Queue!ToSet(s) \subseteq {Head(s)} \cup Queue!ToSet(Tail(s))
    <3>1. ASSUME NEW i \in 1 .. Len(s) PROVE s[i] \in {Head(s)} \cup Queue!ToSet(Tail(s))
      <4>1. CASE i = 1
        BY <1>1, <4>1
      <4>2. CASE i # 1
        <5>1. i - 1 \in DOMAIN Tail(s) /\ s[i] = Tail(s)[i - 1]
          BY <1>1, <1>2, <4>2
        <5> QED
          BY <5>1 DEF Queue!ToSet
      <4> QED
        BY <4>1, <4>2
    <3> QED
      BY <1>1, <3>1 DEF Queue!ToSet
  <2> QED
    BY <2>1, <2>2, <2>3

LEMMA ConcatSet ==
    ASSUME NEW S, NEW s \in Seq(S), NEW t \in Seq(S)
    PROVE  Queue!ToSet(s \o t) = Queue!ToSet(s) \cup Queue!ToSet(t)
<1>1. /\ DOMAIN (s \o t) = 1 .. Len(s) + Len(t) /\ DOMAIN s = 1 .. Len(s) /\ DOMAIN t = 1 .. Len(t)
      /\ Len(s) \in Nat /\ Len(t) \in Nat
      /\ \A i \in 1 .. Len(s) + Len(t) : (s \o t)[i] = IF i <= Len(s) THEN s[i] ELSE t[i - Len(s)]
  BY ConcatProperties, LenProperties
<1>2. \A i \in 1 .. Len(s) : i \in DOMAIN (s \o t) /\ (s \o t)[i] = s[i]
  BY <1>1
<1>3. \A i \in 1 .. Len(t) : Len(s) + i \in DOMAIN (s \o t) /\ (s \o t)[Len(s) + i] = t[i]
  BY <1>1
<1>4. \A i \in DOMAIN (s \o t) : (i \in 1 .. Len(s) /\ (s \o t)[i] = s[i])
         \/ (i - Len(s) \in 1 .. Len(t) /\ (s \o t)[i] = t[i - Len(s)])
  <2> SUFFICES ASSUME NEW i \in 1 .. Len(s) + Len(t)
               PROVE  \/ i \in 1 .. Len(s) /\ (s \o t)[i] = s[i]
                      \/ i - Len(s) \in 1 .. Len(t) /\ (s \o t)[i] = t[i - Len(s)]
    BY <1>1
  <2>1. CASE i <= Len(s)
    BY <1>1, <2>1
  <2>2. CASE ~(i <= Len(s))
    BY <1>1, <2>2
  <2> QED
    BY <2>1, <2>2
<1> QED
  <2>1. Queue!ToSet(s) \subseteq Queue!ToSet(s \o t)
    BY <1>1, <1>2 DEF Queue!ToSet
  <2>2. Queue!ToSet(t) \subseteq Queue!ToSet(s \o t)
    <3> SUFFICES ASSUME NEW i \in 1 .. Len(t) PROVE t[i] \in Queue!ToSet(s \o t)
      BY <1>1 DEF Queue!ToSet
    <3>1. Len(s) + i \in DOMAIN (s \o t) /\ (s \o t)[Len(s) + i] = t[i]
      BY <1>3
    <3> QED
      BY <3>1 DEF Queue!ToSet
  <2>3. Queue!ToSet(s \o t) \subseteq Queue!ToSet(s) \cup Queue!ToSet(t)
    BY <1>1, <1>4 DEF Queue!ToSet
  <2> QED
    BY <2>1, <2>2, <2>3

LEMMA SubSeqSet ==
    ASSUME NEW S, NEW s \in Seq(S), NEW m \in 1 .. Len(s) + 1, NEW n \in 0 .. Len(s)
    PROVE  SubSeq(s, m, n) \in Seq(S) /\ Queue!ToSet(SubSeq(s, m, n)) \subseteq Queue!ToSet(s)
<1>1. \A i \in m .. n : s[i] \in S
  BY ElementOfSeq
<1>2. /\ SubSeq(s, m, n) \in Seq(S)
      /\ Len(SubSeq(s, m, n)) = IF m <= n THEN n - m + 1 ELSE 0
      /\ \A i \in 1 .. n - m + 1 : SubSeq(s, m, n)[i] = s[m + i - 1]
  BY <1>1, SubSeqProperties
<1>3. DOMAIN SubSeq(s, m, n) = 1 .. Len(SubSeq(s, m, n)) /\ DOMAIN s = 1 .. Len(s)
  BY <1>2, LenProperties
<1>4. \A i \in DOMAIN SubSeq(s, m, n) : m + i - 1 \in DOMAIN s /\ SubSeq(s, m, n)[i] = s[m + i - 1]
  BY <1>2, <1>3
<1> QED
  BY <1>2, <1>4 DEF Queue!ToSet

-----------------------------------------------------------------------------
(* The command queue of the page. *)

Drains == [at : {"idle", "truncate", "run", "rewrite", "replace"},
           run : Seq(Commands), rest : Seq(Commands)]

QueueTyped ==
    /\ queue \in Seq(Commands) /\ ran \in Seq(Commands) /\ sent \in Seq(Commands)
    /\ tmp \in [there : BOOLEAN, lines : Seq(Commands)]
    /\ sender \in [Commands -> {"unsent", "open", "stale", "sent"}]
    /\ drain \in [Tabs -> Drains]
    /\ crossed \in SUBSET Commands /\ muddled \in BOOLEAN

(* Whatever is anywhere was sent, once. *)
QueueKnown ==
    /\ Queue!ToSet(queue) \subseteq Queue!ToSet(sent)
    /\ Queue!ToSet(ran) \subseteq Queue!ToSet(sent)
    /\ Queue!ToSet(tmp.lines) \subseteq Queue!ToSet(sent)
    /\ \A t \in Tabs : /\ Queue!ToSet(drain[t].run) \subseteq Queue!ToSet(sent)
                       /\ Queue!ToSet(drain[t].rest) \subseteq Queue!ToSet(sent)
    /\ \A c \in Queue!ToSet(sent) : sender[c] = "sent"

(* A line of commands, run or waiting, has each that was sent and did not   *)
(* cross a drain, once and after those that were sent before it.            *)
InTurn(line, s, x) ==
    /\ \A k, l \in DOMAIN line : line[k] = line[l] => k = l
    /\ Queue!ToSet(s) \ x \subseteq Queue!ToSet(line)
    /\ \A i, j \in DOMAIN s : i < j /\ s[i] \notin x /\ s[j] \notin x =>
          \A l \in DOMAIN line : line[l] = s[j] => \E k \in 1 .. l - 1 : line[k] = s[i]

(* Until drains overlap or one is cut short: what ran and what is to run is *)
(* such a line, be the rest in the file or with the tab that drains it.     *)
QueueCalm ==
    \/ muddled
    \/ /\ \A t, u \in Tabs : drain[t].at # "idle" /\ drain[u].at # "idle" => t = u
       /\ tmp.there => \E t \in Tabs : drain[t].at = "replace"
       /\ (\A t \in Tabs : drain[t].at = "idle") => InTurn(ran \o queue, sent, crossed)
       /\ \A t \in Tabs : drain[t].at # "idle" =>
             /\ InTurn((ran \o drain[t].run) \o drain[t].rest, sent, crossed)
             /\ Queue!ToSet(drain[t].run) \subseteq Queue!ToSet(queue)
             /\ Queue!ToSet(drain[t].rest) \subseteq Queue!ToSet(queue)
             /\ drain[t].at = "truncate" => drain[t].run = <<>> /\ drain[t].rest = <<>>
             /\ drain[t].at \in {"rewrite", "replace"} => drain[t].run = <<>>
             /\ drain[t].at = "replace" => tmp.there /\ tmp.lines = drain[t].rest

QueueInv == QueueTyped /\ QueueKnown /\ QueueCalm

(* A command that crosses a drain leaves the line as it was. *)
LEMMA Crosses ==
    ASSUME NEW C, NEW s \in Seq(C), NEW line \in Seq(C), NEW x, NEW c \in C,
           c \notin Queue!ToSet(s), InTurn(line, s, x)
    PROVE  InTurn(line, Append(s, c), x \cup {c})
<1>1. /\ DOMAIN Append(s, c) = 1 .. Len(s) + 1 /\ DOMAIN s = 1 .. Len(s) /\ Len(s) \in Nat
      /\ \A i \in 1 .. Len(s) : Append(s, c)[i] = s[i]
      /\ Append(s, c)[Len(s) + 1] = c
  BY AppendProperties, LenProperties
<1>2. Queue!ToSet(Append(s, c)) = Queue!ToSet(s) \cup {c}
  BY AppendSet
<1>3. ASSUME NEW i \in 1 .. Len(s) + 1, NEW j \in 1 .. Len(s) + 1, i < j,
             Append(s, c)[i] \notin x \cup {c}, Append(s, c)[j] \notin x \cup {c}
      PROVE  i \in 1 .. Len(s) /\ j \in 1 .. Len(s) /\ Append(s, c)[i] = s[i] /\ Append(s, c)[j] = s[j]
  BY <1>1, <1>3
<1> QED
  BY <1>1, <1>2, <1>3 DEF InTurn

(* One that does not cross a drain joins it at its end. *)
LEMMA Joins ==
    ASSUME NEW C, NEW s \in Seq(C), NEW line \in Seq(C), NEW x, NEW c \in C,
           c \notin Queue!ToSet(s), Queue!ToSet(line) \subseteq Queue!ToSet(s), InTurn(line, s, x)
    PROVE  InTurn(Append(line, c), Append(s, c), x)
<1> DEFINE t == Append(s, c)
           m == Append(line, c)
<1>1. /\ DOMAIN t = 1 .. Len(s) + 1 /\ DOMAIN s = 1 .. Len(s) /\ Len(s) \in Nat
      /\ \A i \in 1 .. Len(s) : t[i] = s[i]
      /\ t[Len(s) + 1] = c
  BY AppendProperties, LenProperties
<1>2. /\ DOMAIN m = 1 .. Len(line) + 1 /\ DOMAIN line = 1 .. Len(line) /\ Len(line) \in Nat
      /\ \A i \in 1 .. Len(line) : m[i] = line[i]
      /\ m[Len(line) + 1] = c
  BY AppendProperties, LenProperties
<1>3. Queue!ToSet(t) = Queue!ToSet(s) \cup {c} /\ Queue!ToSet(m) = Queue!ToSet(line) \cup {c}
  BY AppendSet
<1>4. /\ \A i \in 1 .. Len(s) : s[i] # c
      /\ \A i \in 1 .. Len(line) : line[i] # c
  BY <1>1, <1>2 DEF Queue!ToSet
<1> HIDE DEF t, m
<1>5. \A k, l \in DOMAIN m : m[k] = m[l] => k = l
  BY <1>2, <1>4 DEF InTurn
<1>6. ASSUME NEW i \in 1 .. Len(s) + 1, NEW j \in 1 .. Len(s) + 1, i < j, t[i] \notin x, t[j] \notin x,
             NEW l \in 1 .. Len(line) + 1, m[l] = t[j]
      PROVE  \E k \in 1 .. l - 1 : m[k] = t[i]
  <2>1. i \in 1 .. Len(s) /\ t[i] = s[i]
    BY <1>1, <1>6
  <2>2. CASE j = Len(s) + 1
    <3>1. l = Len(line) + 1
      BY <1>1, <1>2, <1>4, <1>6, <2>2
    <3>2. s[i] \in Queue!ToSet(line)
      <4>1. s[i] \in Queue!ToSet(s)
        BY <1>1, <2>1 DEF Queue!ToSet
      <4> QED
        BY <1>6, <2>1, <4>1 DEF InTurn
    <3>3. PICK k \in 1 .. Len(line) : line[k] = s[i]
      BY <1>2, <3>2 DEF Queue!ToSet
    <3> QED
      BY <1>2, <2>1, <3>1, <3>3
  <2>3. CASE j # Len(s) + 1
    <3>1. j \in 1 .. Len(s) /\ t[j] = s[j]
      BY <1>1, <2>3
    <3>2. l \in 1 .. Len(line) /\ line[l] = s[j]
      BY <1>2, <1>4, <1>6, <3>1
    <3>3. PICK k \in 1 .. l - 1 : line[k] = s[i]
      BY <1>1, <1>2, <1>6, <2>1, <3>1, <3>2 DEF InTurn
    <3> QED
      BY <1>2, <2>1, <3>2, <3>3
  <2> QED
    BY <2>2, <2>3
<1>7. Queue!ToSet(t) \ x \subseteq Queue!ToSet(m)
  BY <1>3 DEF InTurn
<1>8. InTurn(m, t, x)
  <2>1. ASSUME NEW i \in DOMAIN t, NEW j \in DOMAIN t, i < j, t[i] \notin x, t[j] \notin x,
               NEW l \in DOMAIN m, m[l] = t[j]
        PROVE  \E k \in 1 .. l - 1 : m[k] = t[i]
    BY <1>1, <1>2, <1>6, <2>1
  <2> QED
    BY <1>5, <1>7, <2>1 DEF InTurn
<1> QED
  BY <1>8 DEF t, m

(* The next command runs: the line is the same. *)
LEMMA Advance ==
    ASSUME NEW C, NEW s \in Seq(C), NEW r \in Seq(C), r # <<>>
    PROVE  Append(s, Head(r)) \in Seq(C) /\ Append(s, Head(r)) \o Tail(r) = s \o r
<1>1. Head(r) \in C /\ Tail(r) \in Seq(C) /\ Len(Tail(r)) = Len(r) - 1 /\ Head(r) = r[1]
      /\ Len(r) \in Nat /\ Len(r) > 0 /\ Len(s) \in Nat
      /\ \A i \in 1 .. Len(r) - 1 : Tail(r)[i] = r[i + 1]
  BY HeadTailProperties, EmptySeq, LenProperties
<1>2. /\ Append(s, Head(r)) \in Seq(C) /\ Len(Append(s, Head(r))) = Len(s) + 1
      /\ \A i \in 1 .. Len(s) : Append(s, Head(r))[i] = s[i]
      /\ Append(s, Head(r))[Len(s) + 1] = r[1]
  BY <1>1, AppendProperties
<1> DEFINE a == Append(s, Head(r))
           b == Tail(r)
<1>3. /\ a \o b \in Seq(C) /\ Len(a \o b) = Len(s) + Len(r)
      /\ \A i \in 1 .. Len(s) + Len(r) :
            (a \o b)[i] = IF i <= Len(s) + 1 THEN a[i] ELSE b[i - (Len(s) + 1)]
  <2> HIDE DEF a, b
  <2>1. a \in Seq(C) /\ b \in Seq(C) /\ Len(a) = Len(s) + 1 /\ Len(b) = Len(r) - 1
    BY <1>1, <1>2 DEF a, b
  <2>2. /\ a \o b \in Seq(C) /\ Len(a \o b) = Len(a) + Len(b)
        /\ \A i \in 1 .. Len(a) + Len(b) : (a \o b)[i] = IF i <= Len(a) THEN a[i] ELSE b[i - Len(a)]
    BY <2>1, ConcatProperties
  <2> QED
    BY <1>1, <2>1, <2>2
<1>4. /\ s \o r \in Seq(C) /\ Len(s \o r) = Len(s) + Len(r)
      /\ \A i \in 1 .. Len(s) + Len(r) : (s \o r)[i] = IF i <= Len(s) THEN s[i] ELSE r[i - Len(s)]
  BY ConcatProperties
<1>5. ASSUME NEW i \in 1 .. Len(s) + Len(r) PROVE (a \o b)[i] = (s \o r)[i]
  <2>1. CASE i <= Len(s)
    BY <1>1, <1>2, <1>3, <1>4, <2>1
  <2>2. CASE i = Len(s) + 1
    BY <1>1, <1>2, <1>3, <1>4, <2>2
  <2>3. CASE i > Len(s) + 1
    <3>1. i - (Len(s) + 1) \in 1 .. Len(r) - 1 /\ i - (Len(s) + 1) + 1 = i - Len(s)
      BY <1>1, <2>3
    <3>2. b[i - (Len(s) + 1)] = r[i - Len(s)]
      BY <1>1, <3>1
    <3> QED
      BY <1>1, <1>3, <1>4, <2>3, <3>2
  <2> QED
    BY <1>1, <2>1, <2>2, <2>3
<1>6. a \o b = s \o r
  <2> HIDE DEF a, b
  <2> QED
    BY <1>3, <1>4, <1>5, SeqEqual
<1> QED
  BY <1>2, <1>6

(* What is read is split into what is run and the rest. *)
LEMMA DueAndRest ==
    ASSUME MaxPerTick \in Nat, queue \in Seq(Commands)
    PROVE  LET rest == SubSeq(queue, Len(Queue!Due) + 1, Len(queue))
           IN  /\ Queue!Due \in Seq(Commands) /\ rest \in Seq(Commands)
               /\ Queue!Due \o rest = queue
               /\ Queue!ToSet(Queue!Due) \subseteq Queue!ToSet(queue)
               /\ Queue!ToSet(rest) \subseteq Queue!ToSet(queue)
               /\ queue = <<>> => Queue!Due = <<>> /\ rest = <<>>
<1> DEFINE n == IF Len(queue) <= MaxPerTick THEN Len(queue) ELSE MaxPerTick
           rest == SubSeq(queue, Len(Queue!Due) + 1, Len(queue))
<1>1. Len(queue) \in Nat /\ n \in 0 .. Len(queue)
  BY LenProperties
<1>2. Queue!Due = SubSeq(queue, 1, n)
  BY <1>1, SubSeqFull DEF Queue!Due
<1>3. Len(Queue!Due) = n
  <2> HIDE DEF n
  <2>1. \A i \in 1 .. n : queue[i] \in Commands
    BY <1>1, ElementOfSeq
  <2>2. Len(SubSeq(queue, 1, n)) = IF 1 <= n THEN n - 1 + 1 ELSE 0
    BY <1>1, <2>1, SubSeqProperties
  <2> QED
    BY <1>1, <1>2, <2>2
<1>4. rest = SubSeq(queue, n + 1, Len(queue))
  BY <1>3
<1> HIDE DEF n, rest
<1>5. Queue!Due \o rest = SubSeq(queue, 1, Len(queue))
  <2>1. 1 \in 1 .. Len(queue) + 1 /\ n \in 1 - 1 .. Len(queue) /\ Len(queue) \in n .. Len(queue)
    BY <1>1
  <2> QED
    BY <1>2, <1>4, <2>1, ConcatAdjacentSubSeq
<1>6. /\ Queue!Due \in Seq(Commands) /\ Queue!ToSet(Queue!Due) \subseteq Queue!ToSet(queue)
      /\ rest \in Seq(Commands) /\ Queue!ToSet(rest) \subseteq Queue!ToSet(queue)
  BY <1>1, <1>2, <1>4, SubSeqSet
<1>7. queue = <<>> => Queue!Due = <<>> /\ rest = <<>>
  <2>1. ASSUME queue = <<>> PROVE Queue!Due = <<>> /\ rest = <<>>
    <3>1. Len(queue) = 0 /\ n = 0
      BY <1>1, <2>1, EmptySeq
    <3> QED
      BY <1>2, <1>4, <3>1, SubSeqEmpty
  <2> QED
    BY <2>1
<1> QED
  BY <1>5, <1>6, <1>7, SubSeqFull DEF rest

LEMMA QueueStart == Queue!Init => QueueInv
<1> SUFFICES ASSUME Queue!Init PROVE QueueInv
  OBVIOUS
<1> USE DEF Queue!Init, Queue!None, Queue!Idle
<1>1. QueueTyped
  BY EmptySeq DEF QueueTyped, Drains
<1>2. QueueKnown
  BY EmptySet DEF QueueKnown
<1>3. QueueCalm
  <2>1. <<>> \o <<>> = <<>>
    BY EmptySeq, ConcatEmptySeq
  <2>2. InTurn(<<>>, <<>>, {})
    BY EmptySet DEF InTurn
  <2> QED
    BY <2>1, <2>2 DEF QueueCalm
<1> QED
  BY <1>1, <1>2, <1>3 DEF QueueInv

(* The append of a sender. *)
LEMMA SendKeeps ==
    ASSUME QueueInv, NEW c \in Commands, Queue!Open(c) \/ Queue!Write(c)
    PROVE  QueueInv'
<1> USE DEF QueueInv
<1>1. CASE Queue!Open(c)
  BY <1>1 DEF Queue!Open, QueueTyped, QueueKnown, QueueCalm
<1>2. CASE Queue!Write(c)
  <2>0. /\ sender[c] \in {"open", "stale"} /\ sent' = Append(sent, c)
        /\ sender' = [sender EXCEPT ![c] = "sent"]
        /\ queue' = IF sender[c] = "open" THEN Append(queue, c) ELSE queue
        /\ crossed' = IF sender[c] = "stale" \/ Queue!Draining # {} THEN crossed \union {c} ELSE crossed
        /\ UNCHANGED <<tmp, drain, ran, muddled>>
    BY <1>2 DEF Queue!Write
  <2>1. c \notin Queue!ToSet(sent)
    BY <2>0 DEF QueueKnown
  <2>2. /\ Queue!ToSet(sent') = Queue!ToSet(sent) \cup {c}
        /\ queue' \in Seq(Commands) /\ sent' \in Seq(Commands)
        /\ Queue!ToSet(queue) \subseteq Queue!ToSet(queue')
        /\ Queue!ToSet(queue') \subseteq Queue!ToSet(queue) \cup {c}
    BY <2>0, AppendSet DEF QueueTyped
  <2>3. QueueTyped'
    BY <2>0, <2>2 DEF QueueTyped
  <2>4. QueueKnown'
    BY <2>0, <2>2 DEF QueueKnown, QueueTyped
  <2>5. QueueCalm'
    <3> SUFFICES ASSUME ~muddled
                 PROVE  /\ (\A t \in Tabs : drain[t].at = "idle") => InTurn(ran \o queue', sent', crossed')
                        /\ \A t \in Tabs : drain[t].at # "idle" =>
                              InTurn((ran \o drain[t].run) \o drain[t].rest, sent', crossed')
      BY <2>0, <2>2 DEF QueueCalm
    <3>1. ASSUME NEW t \in Tabs, drain[t].at # "idle"
          PROVE  InTurn((ran \o drain[t].run) \o drain[t].rest, sent', crossed')
      <4>1. crossed' = crossed \cup {c}
        BY <2>0, <3>1 DEF Queue!Draining
      <4>2. (ran \o drain[t].run) \o drain[t].rest \in Seq(Commands)
        BY ConcatProperties DEF QueueTyped, Drains
      <4>3. InTurn((ran \o drain[t].run) \o drain[t].rest, sent, crossed)
        BY <3>1 DEF QueueCalm
      <4>4. sent \in Seq(Commands)
        BY DEF QueueTyped
      <4> QED
        <5> DEFINE line == (ran \o drain[t].run) \o drain[t].rest
        <5> HIDE DEF line
        <5>1. InTurn(line, Append(sent, c), crossed \cup {c})
          BY <2>1, <4>2, <4>3, <4>4, Crosses DEF line
        <5> QED
          BY <2>0, <4>1, <5>1 DEF line
    <3>2. ASSUME \A t \in Tabs : drain[t].at = "idle"
          PROVE  InTurn(ran \o queue', sent', crossed')
      <4>1. /\ ran \in Seq(Commands) /\ queue \in Seq(Commands) /\ sent \in Seq(Commands)
            /\ ran \o queue \in Seq(Commands) /\ InTurn(ran \o queue, sent, crossed)
        BY <3>2, ConcatProperties DEF QueueCalm, QueueTyped
      <4>2. CASE sender[c] = "stale"
        BY <2>0, <2>1, <4>1, <4>2, Crosses
      <4>3. CASE sender[c] = "open"
        <5>1. crossed' = crossed /\ queue' = Append(queue, c)
          BY <2>0, <3>2, <4>3 DEF Queue!Draining
        <5>2. ran \o Append(queue, c) = Append(ran \o queue, c)
          <6>1. Append(queue, c) = queue \o <<c>> /\ Append(ran \o queue, c) = (ran \o queue) \o <<c>>
            BY <4>1, AppendIsConcat
          <6>2. <<c>> \in Seq(Commands)
            OBVIOUS
          <6> QED
            BY <4>1, <6>1, <6>2, ConcatAssociative
        <5>3. Queue!ToSet(ran \o queue) \subseteq Queue!ToSet(sent)
          BY <4>1, ConcatSet DEF QueueKnown
        <5> QED
          <6>1. InTurn(Append(ran \o queue, c), Append(sent, c), crossed)
            BY <2>1, <4>1, <5>3, Joins
          <6> QED
            BY <2>0, <5>1, <5>2, <6>1
      <4> QED
        BY <2>0, <4>2, <4>3
    <3> QED
      BY <3>1, <3>2
  <2> QED
    BY <2>3, <2>4, <2>5
<1> QED
  BY <1>1, <1>2

LEMMA IdleDrain == Queue!Idle \in Drains /\ Queue!Idle.at = "idle" /\ Queue!Idle.run = <<>> /\ Queue!Idle.rest = <<>>
BY EmptySeq DEF Queue!Idle, Drains

LEMMA ReadKeeps ==
    ASSUME QueueInv, NEW t \in Tabs, Queue!Read(t)
    PROVE  QueueInv'
<1> USE DEF QueueInv
<1> DEFINE rest == SubSeq(queue, Len(Queue!Due) + 1, Len(queue))
           at == IF queue = <<>> THEN "truncate" ELSE "run"
           d == [at |-> at, run |-> Queue!Due, rest |-> rest]
<1>1. /\ Queue!Due \in Seq(Commands) /\ rest \in Seq(Commands)
      /\ Queue!Due \o rest = queue
      /\ Queue!ToSet(Queue!Due) \subseteq Queue!ToSet(queue)
      /\ Queue!ToSet(rest) \subseteq Queue!ToSet(queue)
      /\ queue = <<>> => Queue!Due = <<>> /\ rest = <<>>
  BY DueAndRest, ProcessesAssumption DEF QueueTyped
<1>2. /\ drain[t].at = "idle" /\ drain' = [drain EXCEPT ![t] = d]
      /\ muddled' = (muddled \/ Queue!Draining # {})
      /\ UNCHANGED <<queue, tmp, sender, ran, sent, crossed>>
  BY DEF Queue!Read
<1> HIDE DEF rest
<1>3. /\ d \in Drains /\ d.at = at /\ d.run = Queue!Due /\ d.rest = rest
      /\ at = "run" \/ (at = "truncate" /\ queue = <<>>)
  BY <1>1 DEF Drains
<1> HIDE DEF d, at
<1>4. /\ drain' \in [Tabs -> Drains] /\ drain'[t] = d
      /\ \A u \in Tabs : u # t => drain'[u] = drain[u]
  BY <1>2, <1>3 DEF QueueTyped
<1>5. QueueTyped'
  BY <1>2, <1>4 DEF QueueTyped
<1>6. QueueKnown'
  BY <1>1, <1>2, <1>3, <1>4 DEF QueueKnown
<1>7. QueueCalm'
  <2> SUFFICES ASSUME ~muddled, Queue!Draining = {} PROVE QueueCalm'
    BY <1>2 DEF QueueCalm
  <2>1. \A u \in Tabs : drain[u].at = "idle"
    BY DEF Queue!Draining
  <2>2. ~tmp.there /\ InTurn(ran \o queue, sent, crossed)
    BY <2>1 DEF QueueCalm
  <2>3. (ran \o Queue!Due) \o rest = ran \o queue
    <3>1. ran \in Seq(Commands)
      BY DEF QueueTyped
    <3> DEFINE due == Queue!Due
    <3> HIDE DEF due
    <3>2. due \in Seq(Commands) /\ rest \in Seq(Commands)
      BY <1>1 DEF due
    <3>3. (ran \o due) \o rest = ran \o (due \o rest)
      BY <3>1, <3>2, ConcatAssociative
    <3> QED
      BY <1>1, <3>3 DEF due
  <2>4. ASSUME NEW u \in Tabs, drain'[u].at # "idle" PROVE u = t
    BY <1>4, <2>1, <2>4
  <2>5. InTurn((ran' \o drain'[t].run) \o drain'[t].rest, sent', crossed')
    BY <1>2, <1>3, <1>4, <2>2, <2>3
  <2> QED
    BY <1>1, <1>2, <1>3, <1>4, <2>2, <2>4, <2>5 DEF QueueCalm
<1> QED
  BY <1>5, <1>6, <1>7

(* The drain of the only tab that drains. *)
LEMMA RunKeepsQueue ==
    ASSUME QueueInv, NEW t \in Tabs, Queue!Run(t)
    PROVE  QueueInv'
<1> USE DEF QueueInv
<1> DEFINE d == drain[t]
<1>0. /\ d \in Drains /\ d.at = "run" /\ ran \in Seq(Commands)
      /\ UNCHANGED <<queue, tmp, sender, sent, crossed, muddled>>
  BY DEF QueueTyped, Queue!Run
<1>1. ~muddled => /\ InTurn((ran \o d.run) \o d.rest, sent, crossed)
                  /\ Queue!ToSet(d.run) \subseteq Queue!ToSet(queue)
                  /\ Queue!ToSet(d.rest) \subseteq Queue!ToSet(queue)
                  /\ ~tmp.there
                  /\ \A u \in Tabs : drain[u].at # "idle" => u = t
  BY <1>0 DEF QueueCalm
<1>2. CASE d.run = <<>>
  <2>1. /\ drain' = [drain EXCEPT ![t].at = "rewrite"] /\ UNCHANGED ran
    BY <1>2 DEF Queue!Run
  <2>2. /\ drain' \in [Tabs -> Drains] /\ drain'[t].at = "rewrite" /\ drain'[t].run = <<>>
        /\ drain'[t].rest = d.rest /\ \A u \in Tabs : u # t => drain'[u] = drain[u]
    BY <1>0, <1>2, <2>1 DEF QueueTyped, Drains
  <2>3. QueueTyped' /\ QueueKnown'
    BY <1>0, <1>2, <2>1, <2>2 DEF QueueTyped, QueueKnown
  <2>4. QueueCalm'
    BY <1>0, <1>1, <1>2, <2>1, <2>2 DEF QueueCalm
  <2> QED
    BY <2>3, <2>4
<1>3. CASE d.run # <<>>
  <2>1. /\ ran' = Append(ran, Head(d.run))
        /\ drain' = [drain EXCEPT ![t].run = Tail(d.run)]
    BY <1>3 DEF Queue!Run
  <2>2. /\ Head(d.run) \in Commands /\ Tail(d.run) \in Seq(Commands) /\ ran' \in Seq(Commands)
        /\ ran' \o Tail(d.run) = ran \o d.run
        /\ Queue!ToSet(d.run) = {Head(d.run)} \cup Queue!ToSet(Tail(d.run))
        /\ Queue!ToSet(ran') = Queue!ToSet(ran) \cup {Head(d.run)}
    <3>1. d.run \in Seq(Commands)
      BY <1>0 DEF Drains
    <3> HIDE DEF d
    <3>2. Head(d.run) \in Commands /\ Tail(d.run) \in Seq(Commands)
      BY <1>3, <3>1, HeadTailProperties
    <3>3. ran' \in Seq(Commands) /\ ran' \o Tail(d.run) = ran \o d.run
      BY <1>0, <1>3, <2>1, <3>1, Advance
    <3>4. Queue!ToSet(d.run) = {Head(d.run)} \cup Queue!ToSet(Tail(d.run))
      BY <1>3, <3>1, TailSet
    <3>5. Queue!ToSet(ran') = Queue!ToSet(ran) \cup {Head(d.run)}
      BY <1>0, <2>1, <3>2, AppendSet
    <3> QED
      BY <3>2, <3>3, <3>4, <3>5
  <2>3. /\ drain' \in [Tabs -> Drains] /\ drain'[t].at = "run" /\ drain'[t].run = Tail(d.run)
        /\ drain'[t].rest = d.rest /\ \A u \in Tabs : u # t => drain'[u] = drain[u]
    BY <1>0, <2>1, <2>2 DEF QueueTyped, Drains
  <2>4. QueueTyped' /\ QueueKnown'
    BY <1>0, <2>2, <2>3 DEF QueueTyped, QueueKnown
  <2>5. QueueCalm'
    BY <1>0, <1>1, <2>2, <2>3 DEF QueueCalm
  <2> QED
    BY <2>4, <2>5
<1> QED
  BY <1>2, <1>3

LEMMA WriteBackKeeps ==
    ASSUME QueueInv, NEW t \in Tabs,
           Queue!Truncate(t) \/ Queue!WriteTmp(t) \/ Queue!Replace(t) \/ Queue!WriteDirectly(t)
    PROVE  QueueInv'
<1> USE DEF QueueInv
<1> DEFINE d == drain[t]
<1>0. d \in Drains /\ ran \in Seq(Commands) /\ drain \in [Tabs -> Drains] /\ tmp.lines \in Seq(Commands)
  BY DEF QueueTyped
<1>1. d.at # "idle" /\ ~muddled =>
                  /\ InTurn((ran \o d.run) \o d.rest, sent, crossed)
                  /\ \A u \in Tabs : drain[u].at # "idle" => u = t
                  /\ tmp.there => d.at = "replace"
                  /\ d.at = "truncate" => d.run = <<>> /\ d.rest = <<>>
                  /\ d.at \in {"rewrite", "replace"} => d.run = <<>>
                  /\ d.at = "replace" => tmp.there /\ tmp.lines = d.rest
                  /\ Queue!ToSet(d.rest) \subseteq Queue!ToSet(queue)
  BY DEF QueueCalm
<1>2. ASSUME drain' = [drain EXCEPT ![t] = Queue!Idle], d.at # "idle"
      PROVE  /\ drain' \in [Tabs -> Drains] /\ drain'[t] = Queue!Idle
             /\ \A u \in Tabs : u # t => drain'[u] = drain[u]
             /\ ~muddled => \A u \in Tabs : drain'[u].at = "idle"
  BY <1>0, <1>1, <1>2, IdleDrain
<1>3. CASE Queue!Truncate(t)
  <2>1. /\ d.at = "truncate" /\ queue' = <<>> /\ drain' = [drain EXCEPT ![t] = Queue!Idle]
        /\ UNCHANGED <<tmp, sender, ran, sent, crossed, muddled>>
    BY <1>3 DEF Queue!Truncate
  <2>2. QueueTyped' /\ QueueKnown'
    BY <1>2, <2>1, IdleDrain, EmptySet, EmptySeq DEF QueueTyped, QueueKnown
  <2>3. ~muddled => InTurn(ran \o <<>>, sent, crossed) /\ ~tmp.there
    BY <1>0, <1>1, <2>1, ConcatEmptySeq
  <2>4. QueueCalm'
    BY <1>2, <2>1, <2>3 DEF QueueCalm
  <2> QED
    BY <2>2, <2>4
<1>4. CASE Queue!WriteTmp(t)
  <2>1. /\ d.at = "rewrite" /\ tmp' = [there |-> TRUE, lines |-> d.rest]
        /\ drain' = [drain EXCEPT ![t].at = "replace"]
        /\ UNCHANGED <<queue, sender, ran, sent, crossed, muddled>>
    BY <1>4 DEF Queue!WriteTmp
  <2>2. /\ drain' \in [Tabs -> Drains] /\ drain'[t].at = "replace" /\ drain'[t].run = d.run
        /\ drain'[t].rest = d.rest /\ \A u \in Tabs : u # t => drain'[u] = drain[u]
        /\ tmp' \in [there : BOOLEAN, lines : Seq(Commands)] /\ tmp'.there /\ tmp'.lines = d.rest
    BY <1>0, <2>1 DEF Drains
  <2>3. QueueTyped' /\ QueueKnown'
    BY <2>1, <2>2 DEF QueueTyped, QueueKnown
  <2>4. QueueCalm'
    BY <1>1, <2>1, <2>2 DEF QueueCalm
  <2> QED
    BY <2>3, <2>4
<1>5. CASE Queue!Replace(t)
  <2>1. /\ d.at = "replace" /\ queue' = tmp.lines /\ drain' = [drain EXCEPT ![t] = Queue!Idle]
        /\ tmp' = Queue!None
        /\ sender' = [c \in Commands |-> IF sender[c] = "open" THEN "stale" ELSE sender[c]]
        /\ UNCHANGED <<ran, sent, crossed, muddled>>
    BY <1>5 DEF Queue!Replace
  <2>2. tmp' \in [there : BOOLEAN, lines : Seq(Commands)] /\ ~tmp'.there /\ tmp'.lines = <<>>
    BY <2>1, EmptySeq DEF Queue!None
  <2>3. QueueTyped'
    BY <1>0, <1>2, <2>1, <2>2 DEF QueueTyped
  <2>4. \A c \in Queue!ToSet(sent) : sender'[c] = "sent"
    <3>1. Queue!ToSet(sent) \subseteq Commands
      BY ElementOfSeq, LenProperties DEF Queue!ToSet, QueueTyped
    <3> QED
      BY <2>1, <3>1 DEF QueueKnown
  <2>5. QueueKnown'
    BY <1>2, <2>1, <2>2, <2>4, IdleDrain, EmptySet DEF QueueKnown
  <2>6. ~muddled => InTurn(ran \o queue', sent, crossed)
    BY <1>0, <1>1, <2>1, ConcatEmptySeq
  <2>7. QueueCalm'
    BY <1>2, <2>1, <2>2, <2>6 DEF QueueCalm
  <2> QED
    BY <2>3, <2>5, <2>7
<1>6. CASE Queue!WriteDirectly(t)
  <2>1. /\ d.at = "replace" /\ ~tmp.there /\ queue' = d.rest /\ drain' = [drain EXCEPT ![t] = Queue!Idle]
        /\ UNCHANGED <<tmp, sender, ran, sent, crossed, muddled>>
    BY <1>6 DEF Queue!WriteDirectly
  <2>2. muddled'
    BY <1>1, <2>1 DEF QueueTyped
  <2>3. QueueTyped' /\ QueueKnown'
    BY <1>0, <1>2, <2>1, IdleDrain, EmptySet DEF QueueTyped, QueueKnown, Drains
  <2> QED
    BY <2>2, <2>3 DEF QueueCalm
<1> QED
  BY <1>3, <1>4, <1>5, <1>6

LEMMA KillKeeps ==
    ASSUME QueueInv, Queue!Kill
    PROVE  QueueInv'
<1> USE DEF QueueInv
<1>1. /\ muddled' = (muddled \/ Queue!Draining # {})
      /\ drain' = [t \in Tabs |-> Queue!Idle]
      /\ UNCHANGED <<queue, tmp, sender, ran, sent, crossed>>
  BY DEF Queue!Kill
<1>2. QueueTyped'
  BY <1>1, IdleDrain DEF QueueTyped
<1>3. QueueKnown'
  BY <1>1, IdleDrain, EmptySet DEF QueueKnown
<1>4. QueueCalm'
  <2> SUFFICES ASSUME ~muddled, Queue!Draining = {} PROVE QueueCalm'
    BY <1>1 DEF QueueCalm
  <2>1. \A t \in Tabs : drain[t].at = "idle" /\ drain'[t].at = "idle"
    BY <1>1, IdleDrain DEF Queue!Draining
  <2> QED
    BY <1>1, <2>1 DEF QueueCalm
<1> QED
  BY <1>2, <1>3, <1>4

LEMMA QueueInvariant == Queue!Spec => []QueueInv
<1>1. QueueInv /\ [Queue!Next]_(Queue!vars) => QueueInv'
  <2> SUFFICES ASSUME QueueInv, [Queue!Next]_(Queue!vars) PROVE QueueInv'
    OBVIOUS
  <2>1. CASE UNCHANGED Queue!vars
    BY <2>1 DEF Queue!vars, QueueInv, QueueTyped, QueueKnown, QueueCalm
  <2> QED
    BY <2>1, SendKeeps, ReadKeeps, RunKeepsQueue, WriteBackKeeps, KillKeeps DEF Queue!Next, Queue!Drain
<1> QED
  BY <1>1, QueueStart, PTL DEF Queue!Spec

(* CommandsAreKept: with one drain at a time, none cut short, each command  *)
(* that did not cross a drain runs once, after those sent before it, or     *)
(* still waits in the file, whatever the commands, the tabs and the cap.    *)
THEOREM QueueKeepsCommands == Queue!Spec => []CommandsAreKept
<1>1. QueueInv => CommandsAreKept
  <2> SUFFICES ASSUME QueueInv PROVE CommandsAreKept
    OBVIOUS
  <2> USE DEF QueueInv
  <2>1. Queue!TypeOK
    BY DEF QueueKnown, QueueCalm, Queue!TypeOK, QueueTyped
  <2>2. ASSUME ~muddled
        PROVE  \E rest \in Seq(Commands) :
                  /\ InTurn(ran \o rest, sent, crossed)
                  /\ Queue!ToSet(rest) \subseteq Queue!ToSet(queue)
    <3>1. CASE \A t \in Tabs : drain[t].at = "idle"
      BY <2>2, <3>1 DEF QueueCalm, QueueTyped
    <3>2. CASE \E t \in Tabs : drain[t].at # "idle"
      <4>1. PICK t \in Tabs : drain[t].at # "idle"
        BY <3>2
      <4>2. /\ drain[t].run \in Seq(Commands) /\ drain[t].rest \in Seq(Commands) /\ ran \in Seq(Commands)
            /\ InTurn((ran \o drain[t].run) \o drain[t].rest, sent, crossed)
            /\ Queue!ToSet(drain[t].run) \subseteq Queue!ToSet(queue)
            /\ Queue!ToSet(drain[t].rest) \subseteq Queue!ToSet(queue)
        BY <2>2, <4>1 DEF QueueCalm, QueueTyped, Drains
      <4>3. /\ (ran \o drain[t].run) \o drain[t].rest = ran \o (drain[t].run \o drain[t].rest)
            /\ drain[t].run \o drain[t].rest \in Seq(Commands)
            /\ Queue!ToSet(drain[t].run \o drain[t].rest) \subseteq Queue!ToSet(queue)
        <5> DEFINE run == drain[t].run
                   after == drain[t].rest
        <5> HIDE DEF run, after
        <5>1. run \in Seq(Commands) /\ after \in Seq(Commands) /\ ran \in Seq(Commands)
          BY <4>2 DEF run, after
        <5>2. (ran \o run) \o after = ran \o (run \o after)
          BY <5>1, ConcatAssociative
        <5>3. run \o after \in Seq(Commands)
          BY <5>1, ConcatProperties
        <5>4. Queue!ToSet(run \o after) = Queue!ToSet(run) \cup Queue!ToSet(after)
          BY <5>1, ConcatSet
        <5>5. Queue!ToSet(run \o after) \subseteq Queue!ToSet(queue)
          BY <4>2, <5>4 DEF run, after
        <5> QED
          BY <5>2, <5>3, <5>5 DEF run, after
      <4> QED
        BY <4>2, <4>3
    <3> QED
      BY <3>1, <3>2
  <2>3. ASSUME ~muddled
        PROVE  /\ \A k, l \in DOMAIN ran : ran[k] = ran[l] => k = l
               /\ Queue!ToSet(sent) \ crossed \subseteq Queue!ToSet(queue) \union Queue!ToSet(ran)
               /\ \A i, j \in DOMAIN sent : i < j /\ {sent[i], sent[j]} \cap crossed = {} =>
                     \A l \in DOMAIN ran : ran[l] = sent[j] => \E k \in 1 .. l - 1 : ran[k] = sent[i]
    <3>1. PICK rest \in Seq(Commands) : /\ InTurn(ran \o rest, sent, crossed)
                                        /\ Queue!ToSet(rest) \subseteq Queue!ToSet(queue)
      BY <2>2, <2>3
    <3>2. /\ DOMAIN ran = 1 .. Len(ran) /\ Len(ran) \in Nat /\ Len(rest) \in Nat
          /\ DOMAIN (ran \o rest) = 1 .. Len(ran) + Len(rest)
          /\ \A i \in 1 .. Len(ran) : (ran \o rest)[i] = ran[i]
          /\ Queue!ToSet(ran \o rest) = Queue!ToSet(ran) \cup Queue!ToSet(rest)
      <4>1. ran \in Seq(Commands)
        BY DEF QueueTyped
      <4>2. /\ DOMAIN ran = 1 .. Len(ran) /\ Len(ran) \in Nat /\ Len(rest) \in Nat
            /\ Len(ran \o rest) = Len(ran) + Len(rest) /\ ran \o rest \in Seq(Commands)
            /\ \A i \in 1 .. Len(ran) + Len(rest) : (ran \o rest)[i] = IF i <= Len(ran) THEN ran[i] ELSE rest[i - Len(ran)]
        BY <4>1, ConcatProperties, LenProperties
      <4>3. DOMAIN (ran \o rest) = 1 .. Len(ran) + Len(rest)
        BY <4>2, LenProperties
      <4> QED
        BY <4>1, <4>2, <4>3, ConcatSet
    <3>3. \A k, l \in DOMAIN ran : ran[k] = ran[l] => k = l
      BY <3>1, <3>2 DEF InTurn
    <3>4. Queue!ToSet(sent) \ crossed \subseteq Queue!ToSet(queue) \union Queue!ToSet(ran)
      BY <3>1, <3>2 DEF InTurn
    <3>5. ASSUME NEW i \in DOMAIN sent, NEW j \in DOMAIN sent, i < j, {sent[i], sent[j]} \cap crossed = {},
                 NEW l \in DOMAIN ran, ran[l] = sent[j]
          PROVE  \E k \in 1 .. l - 1 : ran[k] = sent[i]
      <4>1. l \in DOMAIN (ran \o rest) /\ (ran \o rest)[l] = sent[j]
        BY <3>2, <3>5
      <4>2. PICK k \in 1 .. l - 1 : (ran \o rest)[k] = sent[i]
        BY <3>1, <3>5, <4>1 DEF InTurn
      <4> QED
        BY <3>2, <4>2
    <3> QED
      BY <3>3, <3>4, <3>5
  <2>4. Queue!RunsOnce
    BY <2>3 DEF Queue!RunsOnce, Queue!IsInjective
  <2>5. Queue!KeptUnlessCrossed /\ Queue!RunsInOrder
    BY <2>3 DEF Queue!KeptUnlessCrossed, Queue!RunsInOrder
  <2> QED
    BY <2>1, <2>4, <2>5 DEF CommandsAreKept, Queue!CommandsAreKept
<1> QED
  BY <1>1, QueueInvariant, PTL

-----------------------------------------------------------------------------
(* The logs of rows. *)

Lines == [row : Nat, by : Writers, whole : BOOLEAN, ended : BOOLEAN]
Pens  == [at : {"idle", "check", "rotate", "zip", "unlink", "open", "write"}, row : Nat, fd : Nat]

LogTyped ==
    /\ file \in Seq(Seq(Lines)) /\ live \in {0, Len(file)}
    /\ rotated \in SUBSET (1 .. Len(file)) /\ live \notin rotated
    /\ zipped \in [DOMAIN zipped -> Seq(Lines)] /\ DOMAIN zipped \subseteq 1 .. Len(file)
    /\ pen \in [Writers -> Pens]
    /\ rows \in 0 .. MaxRows /\ done \in SUBSET (1 .. rows) /\ failed \in BOOLEAN
    /\ logKills \in Nat

(* The rows being written are of different writers, and go to known files.  *)
LogPens ==
    /\ \A w \in Writers : pen[w].at # "idle" => pen[w].row \in 1 .. rows
    /\ \A w, v \in Writers : pen[w].at # "idle" /\ pen[v].at # "idle" /\ pen[w].row = pen[v].row => w = v
    /\ \A w \in Writers : pen[w].at \in {"zip", "unlink", "write"} => pen[w].fd \in 1 .. Len(file)
    /\ \A w \in Writers : pen[w].at \in {"zip", "unlink"} => pen[w].fd # live
    /\ \A w \in Writers : pen[w].at = "unlink" => pen[w].fd \in DOMAIN zipped

(* Each row is in one line, and a writer's next one comes after its last.   *)
LogLines ==
    /\ \A f \in 1 .. Len(file) : \A i \in 1 .. Len(file[f]) : file[f][i].row \in 1 .. rows
    /\ \A f, g \in 1 .. Len(file) : \A i \in 1 .. Len(file[f]), j \in 1 .. Len(file[g]) :
          /\ file[f][i].row = file[g][j].row => f = g /\ i = j
          /\ (f < g \/ (f = g /\ i < j)) /\ file[f][i].by = file[g][j].by => file[f][i].row < file[g][j].row
    /\ \A w \in Writers, f \in 1 .. Len(file) : \A i \in 1 .. Len(file[f]) :
          /\ pen[w].at # "idle" => file[f][i].row # pen[w].row
          /\ pen[w].at # "idle" /\ file[f][i].by = w => file[f][i].row < pen[w].row
          /\ pen[w].at = "write" /\ file[f][i].by = w => f <= pen[w].fd

(* Every file has a name or a copy, and a copy has all that was written     *)
(* while the file was the log's.                                            *)
LogCopies ==
    /\ \A f \in DOMAIN zipped :
          /\ f # live
          /\ Len(zipped[f]) <= Len(file[f])
          /\ \A i \in 1 .. Len(zipped[f]) : zipped[f][i] = file[f][i]
          /\ \A i \in 1 .. Len(file[f]) : file[f][i].row \in done \ moved => i <= Len(zipped[f])
    /\ \A f \in 1 .. Len(file) : f = live \/ f \in rotated \/ f \in DOMAIN zipped
    /\ \A r \in done : \E f \in 1 .. Len(file) : \E i \in 1 .. Len(file[f]) :
          file[f][i].row = r /\ file[f][i].whole /\ file[f][i].ended

(* A line that is not ended is of a writer that was killed. *)
Unended == {r \in 1 .. MaxRows : \E f \in 1 .. Len(file) : \E i \in 1 .. Len(file[f]) :
               file[f][i].row = r /\ ~file[f][i].ended}
LogKilled == Cardinality(Unended) <= logKills

(* The writers that have not to look at a file again before they write it. *)
Pending(f) ==
    {w \in Writers : \/ pen[w].at = "write" /\ pen[w].fd = f
                     \/ f = live /\ pen[w].at \in {"open", "zip", "unlink"}}
LogBounded ==
    Limit > 0 /\ ~failed => \A f \in 1 .. Len(file) :
        Len(file[f]) + Cardinality(Pending(f)) <= Limit + Cardinality(Writers) - 1

(* A row makes one file at the most. *)
Before == {"check", "rotate", "zip", "unlink", "open"}
Opened == {r \in 1 .. rows : \A w \in Writers : pen[w].at \in Before => pen[w].row # r}
LogFew == Len(file) <= Cardinality(Opened)

LogInv == LogTyped /\ LogPens /\ LogLines /\ LogCopies /\ LogKilled /\ LogBounded /\ LogFew


LEMMA LogStart == Log!Init => LogInv
<1> SUFFICES ASSUME Log!Init PROVE LogInv
  OBVIOUS
<1>0. /\ file = <<>> /\ live = 0 /\ rotated = {} /\ DOMAIN zipped = {} /\ zipped \in [DOMAIN zipped -> Seq(Lines)]
      /\ rows = 0 /\ done = {} /\ moved = {} /\ failed = FALSE /\ logKills = 0
      /\ pen = [w \in Writers |-> Log!Resting]
  BY DEF Log!Init
<1>1. Len(file) = 0 /\ file \in Seq(Seq(Lines)) /\ 1 .. Len(file) = {}
  BY <1>0, EmptySeq
<1>2. pen \in [Writers -> Pens] /\ \A w \in Writers : pen[w].at = "idle"
  BY <1>0 DEF Log!Resting, Pens
<1>3. LogTyped
  <2>1. rows \in 0 .. MaxRows /\ logKills \in Nat /\ live \in {0, Len(file)} /\ DOMAIN zipped \subseteq 1 .. Len(file)
    BY <1>0, ProcessesAssumption
  <2>2. failed \in BOOLEAN /\ done \in SUBSET (1 .. rows) /\ rotated \in SUBSET (1 .. Len(file)) /\ live \notin rotated
    BY <1>0
  <2> QED
    BY <1>0, <1>1, <1>2, <2>1, <2>2 DEF LogTyped
<1>4. LogPens /\ LogLines /\ LogCopies
  BY <1>0, <1>1, <1>2 DEF LogPens, LogLines, LogCopies
<1>5. Unended = {} /\ Opened = {} /\ Cardinality({}) = 0
  BY <1>0, <1>1, FS_EmptySet DEF Unended, Opened
<1>6. LogKilled /\ LogBounded /\ LogFew
  BY <1>0, <1>1, <1>5 DEF LogKilled, LogBounded, LogFew
<1> QED
  BY <1>3, <1>4, <1>6 DEF LogInv

(* What is written of a file stays short while nobody joins those who write *)
(* to it, but to a file that has room.                                      *)
LEMMA PendingKept ==
    ASSUME LogTyped, LogBounded, file' = file, failed => failed',
           Limit > 0 /\ ~failed' => \A f \in 1 .. Len(file) :
               Pending(f)' \subseteq Pending(f) \/ Len(file[f]) + 1 <= Limit
    PROVE  LogBounded'
<1> SUFFICES ASSUME Limit > 0, ~failed', NEW f \in 1 .. Len(file)
             PROVE  Len(file[f]) + Cardinality(Pending(f)') <= Limit + Cardinality(Writers) - 1
  BY DEF LogBounded
<1>1. Pending(f) \in SUBSET Writers /\ Pending(f)' \in SUBSET Writers
  BY DEF Pending
<1>2. /\ Cardinality(Pending(f)') \in Nat /\ Cardinality(Pending(f)) \in Nat /\ Cardinality(Writers) \in Nat
      /\ Cardinality(Pending(f)') <= Cardinality(Writers)
      /\ IsFiniteSet(Pending(f))
  BY <1>1, FS_Subset, FS_CardinalityType, ProcessesAssumption
<1>3. Pending(f)' \subseteq Pending(f) => Cardinality(Pending(f)') <= Cardinality(Pending(f))
  BY <1>2, FS_Subset
<1>4. Len(file[f]) \in Nat
  BY ElementOfSeq, LenProperties DEF LogTyped
<1>5. Len(file[f]) + Cardinality(Pending(f)) <= Limit + Cardinality(Writers) - 1
  BY DEF LogBounded
<1> QED
  BY <1>2, <1>3, <1>4, <1>5, ProcessesAssumption

LEMMA UpTo ==
    ASSUME NEW n \in Nat, NEW S \in SUBSET (1 .. n)
    PROVE  IsFiniteSet(S) /\ Cardinality(S) \in Nat /\ Cardinality(S) <= n
<1>1. IsFiniteSet(1 .. n) /\ Cardinality(1 .. n) = n
  BY FS_Interval
<1> QED
  BY <1>1, FS_Subset, FS_CardinalityType

LEMMA FewKept ==
    ASSUME LogTyped, LogTyped', LogFew, Len(file') = Len(file), Opened \subseteq Opened'
    PROVE  LogFew'
<1>1. IsFiniteSet(Opened')
  <2>1. Opened' \in SUBSET (1 .. rows') /\ rows' \in Nat
    BY DEF Opened, LogTyped
  <2> QED
    BY <2>1, UpTo
<1>2. Cardinality(Opened) <= Cardinality(Opened') /\ Cardinality(Opened) \in Nat /\ Cardinality(Opened') \in Nat
  BY <1>1, FS_Subset, FS_CardinalityType
<1>3. Len(file) \in Nat
  BY LenProperties DEF LogTyped
<1> QED
  BY <1>2, <1>3 DEF LogFew

(* Steps that write nothing into a file. *)
LEMMA KilledKept ==
    ASSUME LogKilled, LogTyped, Unended' \subseteq Unended, logKills' \in Nat, logKills <= logKills'
    PROVE  LogKilled'
<1>1. Unended \in SUBSET (1 .. MaxRows)
  BY DEF Unended
<1>2. IsFiniteSet(Unended)
  BY <1>1, UpTo, ProcessesAssumption
<1>3. Cardinality(Unended') <= Cardinality(Unended) /\ Cardinality(Unended) \in Nat /\ Cardinality(Unended') \in Nat
  BY <1>2, FS_Subset, FS_CardinalityType
<1> QED
  BY <1>3 DEF LogKilled, LogTyped

LEMMA LogKnown ==
    ASSUME LogTyped
    PROVE  /\ Len(file) \in Nat
           /\ \A f \in 1 .. Len(file) : /\ file[f] \in Seq(Lines) /\ Len(file[f]) \in Nat
                                        /\ \A i \in 1 .. Len(file[f]) : file[f][i] \in Lines
           /\ \A w \in Writers : pen[w] \in Pens
           /\ rows \in Nat /\ rows <= MaxRows
<1>1. Len(file) \in Nat /\ \A f \in 1 .. Len(file) : file[f] \in Seq(Lines)
  BY ElementOfSeq, LenProperties DEF LogTyped
<1>2. \A f \in 1 .. Len(file) : Len(file[f]) \in Nat /\ \A i \in 1 .. Len(file[f]) : file[f][i] \in Lines
  BY <1>1, ElementOfSeq, LenProperties
<1> QED
  BY <1>1, <1>2, ProcessesAssumption DEF LogTyped

LEMMA LinesApart ==
    ASSUME LogLines, NEW f \in 1 .. Len(file), NEW i \in 1 .. Len(file[f]),
           NEW g \in 1 .. Len(file), NEW j \in 1 .. Len(file[g])
    PROVE  /\ file[f][i].row \in 1 .. rows
           /\ file[f][i].row = file[g][j].row => f = g /\ i = j
           /\ (f < g \/ (f = g /\ i < j)) /\ file[f][i].by = file[g][j].by => file[f][i].row < file[g][j].row
BY DEF LogLines

LEMMA LinesBehind ==
    ASSUME LogLines, NEW w \in Writers, pen[w].at # "idle", NEW f \in 1 .. Len(file), NEW i \in 1 .. Len(file[f])
    PROVE  /\ file[f][i].row # pen[w].row
           /\ file[f][i].by = w => file[f][i].row < pen[w].row
           /\ pen[w].at = "write" /\ file[f][i].by = w => f <= pen[w].fd
BY DEF LogLines

(* A step that moves one writer's pen, of the same row or of none, and      *)
(* touches no file; and what the writer's new place asks of it.             *)
Moves(w, p) ==
    /\ p \in Pens /\ pen' = [pen EXCEPT ![w] = p]
    /\ UNCHANGED <<file, zipped, rows, done, moved>>
    /\ rotated' \in SUBSET (1 .. Len(file)) /\ live' \in {0, live} /\ live' \notin rotated'
    /\ live \in rotated' \/ live' = live \/ live = 0
    /\ \A f \in rotated \ rotated' : f \in DOMAIN zipped
    /\ failed' \in BOOLEAN /\ (failed => failed')
    /\ logKills' \in Nat /\ logKills <= logKills'
    /\ p.at = "idle" \/ (pen[w].at \in Before /\ p.row = pen[w].row)
    /\ p.at # "write"
    /\ p.at \in {"zip", "unlink"} => p.fd \in 1 .. Len(file) /\ p.fd # live'
    /\ p.at = "unlink" => p.fd \in DOMAIN zipped
    /\ ~failed' /\ p.at \in {"open", "zip", "unlink"} /\ live' # 0 =>
           \/ pen[w].at \in {"open", "zip", "unlink"}
           \/ Limit > 0 => Len(file[live']) + 1 <= Limit

LEMMA PenMoves ==
    ASSUME LogInv, NEW w \in Writers, NEW p, Moves(w, p)
    PROVE  LogInv'
<1> USE DEF LogInv, Moves
<1>0. /\ pen' \in [Writers -> Pens] /\ pen'[w] = p /\ \A v \in Writers : v # w => pen'[v] = pen[v]
  BY DEF LogTyped
<1>1. LogTyped'
  BY <1>0, LogKnown DEF LogTyped
<1>2. LogPens'
  BY <1>0, LogKnown DEF LogPens, Before
<1>3. LogLines'
  BY <1>0, LogKnown DEF LogLines, Before
<1>4. LogCopies'
  BY LogKnown DEF LogCopies, LogTyped
<1>5. LogKilled'
  BY KilledKept DEF Unended
<1>6. LogBounded'
  <2>1. ASSUME Limit > 0, ~failed', NEW f \in 1 .. Len(file)
        PROVE  Pending(f)' \subseteq Pending(f) \/ Len(file[f]) + 1 <= Limit
    BY <1>0, <2>1, LogKnown DEF Pending
  <2> QED
    BY <2>1, PendingKept
<1>7. LogFew'
  <2>1. Opened \subseteq Opened'
    BY <1>0 DEF Opened, Before
  <2> QED
    BY <1>1, <2>1, FewKept
<1> QED
  BY <1>1, <1>2, <1>3, <1>4, <1>5, <1>6, <1>7

LEMMA QuietKeeps ==
    ASSUME LogInv, NEW w \in Writers,
           \/ Log!Check(w) \/ Log!Rotate(w) \/ Log!RotateFails(w) \/ Log!Unlink(w) \/ Log!Swallow(w)
           \/ Log!Kill(w) /\ UNCHANGED file
    PROVE  LogInv'
<1>0. /\ pen[w] \in Pens /\ Log!Resting \in Pens /\ Log!Resting.at = "idle"
      /\ rotated \in SUBSET (1 .. Len(file)) /\ live \in {0, Len(file)} /\ Len(file) \in Nat /\ live \notin rotated
      /\ failed \in BOOLEAN /\ logKills \in Nat
  BY LogKnown DEF LogInv, LogTyped, Pens, Log!Resting
<1>1. ASSUME NEW where \in {"rotate", "open", "unlink"}
      PROVE  LET p == [pen[w] EXCEPT !.at = where]
             IN  /\ p \in Pens /\ p.at = where /\ p.row = pen[w].row /\ p.fd = pen[w].fd
                 /\ (Log!Goto(w, where) => pen' = [pen EXCEPT ![w] = p])
  BY <1>0 DEF Pens, Log!Goto
<1>2. CASE Log!Check(w)
  <2> DEFINE where == IF Log!TooLong THEN "rotate" ELSE "open"
             p == [pen[w] EXCEPT !.at = where]
  <2>1. /\ pen[w].at = "check" /\ Log!Goto(w, where)
        /\ UNCHANGED <<file, live, rotated, zipped, rows, done, moved, failed, logKills>>
    BY <1>2 DEF Log!Check
  <2>2. where \in {"rotate", "open"} /\ (where = "open" => ~Log!TooLong)
    OBVIOUS
  <2> HIDE DEF where
  <2>3. p \in Pens /\ p.at = where /\ p.row = pen[w].row /\ pen' = [pen EXCEPT ![w] = p]
    BY <1>1, <2>1, <2>2
  <2>4. where = "open" /\ live # 0 /\ Limit > 0 => Len(file[live]) + 1 <= Limit
    BY <1>0, <2>2, LogKnown, ProcessesAssumption DEF LogInv, Log!TooLong
  <2> HIDE DEF p
  <2>9. Moves(w, p)
    BY <1>0, <2>1, <2>2, <2>3, <2>4 DEF Moves, Before
  <2> QED
    BY <2>9, PenMoves
<1>3. CASE Log!Rotate(w) /\ live = 0
  <2> DEFINE p == [pen[w] EXCEPT !.at = "open"]
  <2>1. /\ pen[w].at = "rotate" /\ Log!Goto(w, "open")
        /\ UNCHANGED <<file, live, rotated, zipped, rows, done, moved, failed, logKills>>
    BY <1>3 DEF Log!Rotate
  <2>2. p \in Pens /\ p.at = "open" /\ p.row = pen[w].row /\ pen' = [pen EXCEPT ![w] = p]
    BY <1>1, <2>1
  <2> HIDE DEF p
  <2>9. Moves(w, p)
    BY <1>0, <1>3, <2>1, <2>2 DEF Moves, Before
  <2> QED
    BY <2>9, PenMoves
<1>4. CASE Log!Rotate(w) /\ live # 0
  <2> DEFINE p == [pen[w] EXCEPT !.at = "zip", !.fd = live]
  <2>1. /\ pen[w].at = "rotate" /\ rotated' = rotated \union {live} /\ live' = 0
        /\ pen' = [pen EXCEPT ![w] = p]
        /\ UNCHANGED <<file, zipped, rows, done, moved, failed, logKills>>
    BY <1>4 DEF Log!Rotate
  <2>2. p \in Pens /\ p.at = "zip" /\ p.row = pen[w].row /\ p.fd = live
    <3>1. live \in Nat
      BY <1>0
    <3> QED
      BY <1>0, <3>1 DEF Pens
  <2> HIDE DEF p
  <2>3. rotated' \in SUBSET (1 .. Len(file)) /\ live' \notin rotated' /\ live \in 1 .. Len(file)
    BY <1>0, <1>4, <2>1
  <2>9. Moves(w, p)
    BY <1>0, <1>4, <2>1, <2>2, <2>3 DEF Moves, Before
  <2> QED
    BY <2>9, PenMoves
<1>5. CASE Log!RotateFails(w)
  <2> DEFINE p == [pen[w] EXCEPT !.at = "open"]
  <2>1. /\ pen[w].at = "rotate" /\ Log!Goto(w, "open") /\ failed' = TRUE
        /\ UNCHANGED <<file, live, rotated, zipped, rows, done, moved, logKills>>
    BY <1>5 DEF Log!RotateFails
  <2>2. p \in Pens /\ p.at = "open" /\ p.row = pen[w].row /\ pen' = [pen EXCEPT ![w] = p]
    BY <1>1, <2>1
  <2> HIDE DEF p
  <2>9. Moves(w, p)
    BY <1>0, <2>1, <2>2 DEF Moves, Before
  <2> QED
    BY <2>9, PenMoves
<1>6. CASE Log!Unlink(w)
  <2> DEFINE p == [pen[w] EXCEPT !.at = "open"]
  <2>1. /\ pen[w].at \in {"zip", "unlink"} /\ Log!Goto(w, "open")
        /\ rotated' = rotated \/ (pen[w].at = "unlink" /\ rotated' = rotated \ {pen[w].fd})
        /\ UNCHANGED <<file, live, zipped, rows, done, moved, failed, logKills>>
    BY <1>6 DEF Log!Unlink
  <2>2. p \in Pens /\ p.at = "open" /\ p.row = pen[w].row /\ pen' = [pen EXCEPT ![w] = p]
    BY <1>1, <2>1
  <2> HIDE DEF p
  <2>3. /\ rotated' \in SUBSET (1 .. Len(file)) /\ live' \notin rotated'
        /\ \A f \in rotated \ rotated' : f \in DOMAIN zipped
    BY <1>0, <2>1 DEF LogInv, LogPens
  <2>9. Moves(w, p)
    BY <1>0, <2>1, <2>2, <2>3 DEF Moves, Before
  <2> QED
    BY <2>9, PenMoves
<1>7. CASE Log!Swallow(w)
  <2>1. /\ pen' = [pen EXCEPT ![w] = Log!Resting]
        /\ UNCHANGED <<file, live, rotated, zipped, rows, done, moved, failed, logKills>>
    BY <1>7 DEF Log!Swallow
  <2>9. Moves(w, Log!Resting)
    BY <1>0, <2>1 DEF Moves
  <2> QED
    BY <2>9, PenMoves
<1>8. CASE Log!Kill(w) /\ UNCHANGED file
  <2>1. /\ pen' = [pen EXCEPT ![w] = Log!Resting] /\ logKills' = logKills + 1
        /\ UNCHANGED <<file, live, rotated, zipped, rows, done, moved, failed>>
    BY <1>8 DEF Log!Kill
  <2>9. Moves(w, Log!Resting)
    BY <1>0, <2>1 DEF Moves
  <2> QED
    BY <2>9, PenMoves
<1> QED
  BY <1>2, <1>3, <1>4, <1>5, <1>6, <1>7, <1>8

LEMMA BeginKeepsLog ==
    ASSUME LogInv, NEW w \in Writers, Log!Begin(w)
    PROVE  LogInv'
<1> USE DEF LogInv
<1> DEFINE p == [at |-> "check", row |-> rows + 1, fd |-> 0]
<1>0. /\ pen[w].at = "idle" /\ rows < MaxRows /\ rows' = rows + 1 /\ pen' = [pen EXCEPT ![w] = p]
      /\ UNCHANGED <<file, live, rotated, zipped, done, moved, failed, logKills>>
  BY DEF Log!Begin
<1>1. p \in Pens /\ p.at = "check" /\ p.row = rows + 1
  BY LogKnown DEF Pens
<1> HIDE DEF p
<1>2. /\ pen' \in [Writers -> Pens] /\ pen'[w] = p /\ \A v \in Writers : v # w => pen'[v] = pen[v]
  BY <1>0, <1>1 DEF LogTyped
<1>3. LogTyped'
  <2>1. rows \in Nat /\ done \in SUBSET (1 .. rows)
    BY LogKnown DEF LogTyped
  <2>2. rows' \in 0 .. MaxRows /\ done' \in SUBSET (1 .. rows')
    BY <1>0, <2>1, ProcessesAssumption
  <2> QED
    BY <1>0, <1>2, <2>2 DEF LogTyped
<1>4. LogPens'
  BY <1>0, <1>1, <1>2, LogKnown DEF LogPens
<1>5. LogLines'
  <2>1. /\ \A f \in 1 .. Len(file) : \A i \in 1 .. Len(file[f]) : file[f][i].row \in 1 .. rows'
        /\ \A f, g \in 1 .. Len(file) : \A i \in 1 .. Len(file[f]), j \in 1 .. Len(file[g]) :
              /\ file[f][i].row = file[g][j].row => f = g /\ i = j
              /\ (f < g \/ (f = g /\ i < j)) /\ file[f][i].by = file[g][j].by => file[f][i].row < file[g][j].row
    <3>1. rows \in Nat /\ \A r \in 1 .. rows : r \in 1 .. rows'
      BY <1>0, LogKnown
    <3>2. \A f \in 1 .. Len(file) : \A i \in 1 .. Len(file[f]) : file[f][i].row \in 1 .. rows'
      BY <3>1, LinesApart
    <3>3. \A f, g \in 1 .. Len(file) : \A i \in 1 .. Len(file[f]), j \in 1 .. Len(file[g]) :
              /\ file[f][i].row = file[g][j].row => f = g /\ i = j
              /\ (f < g \/ (f = g /\ i < j)) /\ file[f][i].by = file[g][j].by => file[f][i].row < file[g][j].row
      BY DEF LogLines
    <3> HIDE DEF LogInv
    <3> QED
      BY <3>2, <3>3
  <2>2. ASSUME NEW v \in Writers, pen'[v].at # "idle", NEW f \in 1 .. Len(file), NEW i \in 1 .. Len(file[f])
        PROVE  /\ file[f][i].row # pen'[v].row
               /\ file[f][i].by = v => file[f][i].row < pen'[v].row
               /\ pen'[v].at = "write" /\ file[f][i].by = v => f <= pen'[v].fd
    <3>1. CASE v = w
      <4>1. file[f][i].row \in 1 .. rows
        BY LinesApart
      <4> QED
        BY <1>1, <1>2, <3>1, <4>1, LogKnown
    <3>2. CASE v # w
      BY <1>2, <2>2, <3>2, LinesBehind
    <3> QED
      BY <3>1, <3>2
  <2>3. file' = file
    BY <1>0
  <2> QED
    BY <2>1, <2>2, <2>3 DEF LogLines
<1>6. LogCopies'
  BY <1>0 DEF LogCopies
<1>7. LogKilled'
  BY <1>0, KilledKept DEF Unended, LogTyped
<1>8. LogBounded'
  <2>1. \A f \in 1 .. Len(file) : Pending(f)' \subseteq Pending(f)
    BY <1>0, <1>1, <1>2 DEF Pending
  <2> QED
    BY <1>0, <2>1, PendingKept
<1>9. LogFew'
  <2>1. Opened \subseteq Opened'
    BY <1>0, <1>1, <1>2, LogKnown DEF Opened
  <2> QED
    BY <1>0, <1>3, <2>1, FewKept
<1> QED
  BY <1>3, <1>4, <1>5, <1>6, <1>7, <1>8, <1>9

LEMMA ZipKeeps ==
    ASSUME LogInv, NEW w \in Writers, Log!Zip(w)
    PROVE  LogInv'
<1> USE DEF LogInv
<1> DEFINE p == [pen[w] EXCEPT !.at = "unlink"]
           d == pen[w].fd
<1>0. /\ pen[w].at = "zip" /\ pen' = [pen EXCEPT ![w] = p] /\ pen[w] \in Pens
      /\ zipped' = [f \in DOMAIN zipped \union {d} |-> IF f = d THEN file[f] ELSE zipped[f]]
      /\ UNCHANGED <<file, live, rotated, rows, done, moved, failed, logKills>>
  BY LogKnown DEF Log!Zip, Log!Goto
<1>1. p \in Pens /\ p.at = "unlink" /\ p.row = pen[w].row /\ p.fd = d
  BY <1>0 DEF Pens
<1>2. d \in 1 .. Len(file) /\ d # live
  BY <1>0 DEF LogPens
<1> HIDE DEF p, d
<1>3. /\ pen' \in [Writers -> Pens] /\ pen'[w] = p /\ \A v \in Writers : v # w => pen'[v] = pen[v]
  BY <1>0, <1>1 DEF LogTyped
<1>4. /\ DOMAIN zipped' = DOMAIN zipped \cup {d} /\ zipped'[d] = file[d]
      /\ \A f \in DOMAIN zipped : f # d => zipped'[f] = zipped[f]
  BY <1>0
<1>5. LogTyped'
  <2>1. zipped' \in [DOMAIN zipped' -> Seq(Lines)]
    BY <1>0, <1>2, <1>4, LogKnown DEF LogTyped
  <2> QED
    BY <1>0, <1>2, <1>3, <1>4, <2>1 DEF LogTyped
<1>6. LogPens'
  <2>1. \A v \in Writers : pen'[v].at \in {"zip", "unlink", "write"} => pen'[v].fd \in 1 .. Len(file')
    BY <1>0, <1>1, <1>2, <1>3 DEF LogPens
  <2>2. \A v \in Writers : pen'[v].at \in {"zip", "unlink"} => pen'[v].fd # live'
    BY <1>0, <1>1, <1>2, <1>3 DEF LogPens
  <2>3. \A v \in Writers : pen'[v].at = "unlink" => pen'[v].fd \in DOMAIN zipped'
    BY <1>0, <1>1, <1>3, <1>4 DEF LogPens
  <2>4. \A v \in Writers : pen'[v].row = pen[v].row /\ (pen'[v].at # "idle" <=> pen[v].at # "idle")
    BY <1>0, <1>1, <1>3
  <2> QED
    BY <1>0, <2>1, <2>2, <2>3, <2>4 DEF LogPens
<1>7. LogLines'
  BY <1>0, <1>1, <1>3, LogKnown DEF LogLines
<1>8. LogCopies'
  <2>1. ASSUME NEW f \in DOMAIN zipped'
        PROVE  /\ f # live /\ Len(zipped'[f]) <= Len(file[f])
               /\ \A i \in 1 .. Len(zipped'[f]) : zipped'[f][i] = file[f][i]
               /\ \A i \in 1 .. Len(file[f]) : file[f][i].row \in done \ moved => i <= Len(zipped'[f])
    BY <1>2, <1>4, LogKnown DEF LogCopies
  <2>2. \A f \in 1 .. Len(file') : f = live' \/ f \in rotated' \/ f \in DOMAIN zipped'
    BY <1>0, <1>4 DEF LogCopies
  <2>3. \A r \in done' : \E f \in 1 .. Len(file') : \E i \in 1 .. Len(file'[f]) :
          file'[f][i].row = r /\ file'[f][i].whole /\ file'[f][i].ended
    BY <1>0 DEF LogCopies
  <2>4. \A f \in DOMAIN zipped' :
          /\ f # live' /\ Len(zipped'[f]) <= Len(file'[f])
          /\ \A i \in 1 .. Len(zipped'[f]) : zipped'[f][i] = file'[f][i]
          /\ \A i \in 1 .. Len(file'[f]) : file'[f][i].row \in done' \ moved' => i <= Len(zipped'[f])
    <3>1. file' = file /\ live' = live /\ done' = done /\ moved' = moved
      BY <1>0
    <3> QED
      BY <2>1, <3>1
  <2> QED
    BY <2>2, <2>3, <2>4 DEF LogCopies
<1>9. LogKilled'
  BY <1>0, KilledKept DEF Unended, LogTyped
<1>10. LogBounded'
  <2>1. \A f \in 1 .. Len(file) : Pending(f)' \subseteq Pending(f)
    BY <1>0, <1>1, <1>3 DEF Pending
  <2> QED
    BY <1>0, <2>1, PendingKept
<1>11. LogFew'
  <2>1. Opened \subseteq Opened'
    BY <1>0, <1>1, <1>3, LogKnown DEF Opened, Before
  <2> QED
    BY <1>0, <1>5, <2>1, FewKept
<1> QED
  BY <1>5, <1>6, <1>7, <1>8, <1>9, <1>10, <1>11

LEMMA OpenKeeps ==
    ASSUME LogInv, NEW w \in Writers, Log!Open(w)
    PROVE  LogInv'
<1> USE DEF LogInv
<1> DEFINE p == [pen[w] EXCEPT !.at = "write", !.fd = live']
<1>0. /\ pen[w].at = "open" /\ pen' = [pen EXCEPT ![w] = p] /\ pen[w] \in Pens
      /\ UNCHANGED <<rotated, zipped, rows, done, moved, failed, logKills>>
      /\ Len(file) \in Nat
  BY LogKnown DEF Log!Open
<1>1. /\ live = 0 => file' = Append(file, <<>>) /\ live' = Len(file) + 1
      /\ live # 0 => UNCHANGED <<file, live>>
      /\ live' \in Nat /\ live' # 0
  BY <1>0 DEF LogTyped, Log!Open
<1>2. p \in Pens /\ p.at = "write" /\ p.row = pen[w].row /\ p.fd = live'
  BY <1>0, <1>1 DEF Pens
<1> HIDE DEF p
<1>3. /\ pen' \in [Writers -> Pens] /\ pen'[w] = p /\ \A v \in Writers : v # w => pen'[v] = pen[v]
  BY <1>0, <1>2 DEF LogTyped
<1>4. /\ file' \in Seq(Seq(Lines)) /\ Len(file') \in Nat /\ Len(file) <= Len(file')
      /\ \A f \in 1 .. Len(file) : file'[f] = file[f]
      /\ \A f \in 1 .. Len(file') : f \in 1 .. Len(file) \/ (f = live' /\ live = 0 /\ Len(file'[f]) = 0)
      /\ live' = Len(file') /\ Len(file') <= Len(file) + 1
      /\ IF live = 0 THEN live' = Len(file) + 1 ELSE live' = live
  <2>1. file \in Seq(Seq(Lines)) /\ <<>> \in Seq(Lines) /\ Len(<<>>) = 0
    BY EmptySeq DEF LogTyped
  <2>2. CASE live = 0
    <3>1. /\ Append(file, <<>>) \in Seq(Seq(Lines)) /\ Len(Append(file, <<>>)) = Len(file) + 1
          /\ \A f \in 1 .. Len(file) : Append(file, <<>>)[f] = file[f]
          /\ Append(file, <<>>)[Len(file) + 1] = <<>>
      BY <2>1, AppendProperties
    <3>2. file' = Append(file, <<>>) /\ live' = Len(file) + 1
      BY <1>1, <2>2
    <3> DEFINE a == Append(file, <<>>)
    <3> HIDE DEF a
    <3>3. /\ a \in Seq(Seq(Lines)) /\ Len(a) = Len(file) + 1
          /\ \A f \in 1 .. Len(file) : a[f] = file[f]
          /\ Len(a[Len(file) + 1]) = 0
      BY <2>1, <3>1 DEF a
    <3>4. \A f \in 1 .. Len(a) : f \in 1 .. Len(file) \/ f = Len(file) + 1
      BY <1>0, <3>3
    <3>5. file' = a
      BY <3>2 DEF a
    <3>6. Len(file) \in Nat /\ live = 0
      BY <1>0, <2>2
    <3>7. \A f \in 1 .. Len(file') : f \in 1 .. Len(file) \/ (f = live' /\ live = 0 /\ Len(file'[f]) = 0)
      BY <3>2, <3>3, <3>4, <3>5, <3>6
    <3>8. live' = Len(file) + 1
      BY <3>2
    <3> QED
      BY <3>3, <3>5, <3>6, <3>7, <3>8
  <2>3. CASE live # 0
    BY <1>0, <1>1, <2>1, <2>3 DEF LogTyped
  <2> QED
    BY <2>2, <2>3
<1>5. LogTyped'
  <2>1. rotated' \in SUBSET (1 .. Len(file')) /\ DOMAIN zipped' \subseteq 1 .. Len(file')
    BY <1>0, <1>4 DEF LogTyped
  <2>2. live' \in {0, Len(file')} /\ live' \notin rotated'
    BY <1>0, <1>4 DEF LogTyped
  <2> QED
    BY <1>0, <1>3, <1>4, <2>1, <2>2 DEF LogTyped
<1>6. LogPens'
  <2>1. \A v \in Writers : pen'[v].at \in {"zip", "unlink", "write"} => pen'[v].fd \in 1 .. Len(file')
    BY <1>0, <1>2, <1>3, <1>4 DEF LogPens
  <2>2. \A v \in Writers : pen'[v].at \in {"zip", "unlink"} => pen'[v].fd # live'
    BY <1>0, <1>1, <1>2, <1>3, <1>4 DEF LogPens
  <2>3. \A v \in Writers : pen'[v].at = "unlink" => pen'[v].fd \in DOMAIN zipped'
    BY <1>0, <1>2, <1>3 DEF LogPens
  <2>4. \A v \in Writers : pen'[v].row = pen[v].row /\ (pen'[v].at # "idle" <=> pen[v].at # "idle")
    BY <1>0, <1>2, <1>3
  <2> QED
    BY <1>0, <2>1, <2>2, <2>3, <2>4 DEF LogPens
<1>7. LogLines'
  <2>1. \A f \in 1 .. Len(file') : \A i \in 1 .. Len(file'[f]) :
          f \in 1 .. Len(file) /\ file'[f] = file[f] /\ f <= live'
    BY <1>0, <1>4
  <2>2. \A v \in Writers :
          /\ pen'[v].row = pen[v].row /\ (pen'[v].at # "idle" <=> pen[v].at # "idle")
          /\ pen'[v].at = "write" => (v = w /\ pen'[v].fd = live') \/ (v # w /\ pen'[v] = pen[v])
    BY <1>0, <1>2, <1>3
  <2>3. /\ \A f \in 1 .. Len(file') : \A i \in 1 .. Len(file'[f]) : file'[f][i].row \in 1 .. rows'
        /\ \A f, g \in 1 .. Len(file') : \A i \in 1 .. Len(file'[f]), j \in 1 .. Len(file'[g]) :
              /\ file'[f][i].row = file'[g][j].row => f = g /\ i = j
              /\ (f < g \/ (f = g /\ i < j)) /\ file'[f][i].by = file'[g][j].by => file'[f][i].row < file'[g][j].row
    <3>1. rows' = rows
      BY <1>0
    <3>2. ASSUME NEW f \in 1 .. Len(file'), NEW i \in 1 .. Len(file'[f]),
                 NEW g \in 1 .. Len(file'), NEW j \in 1 .. Len(file'[g])
          PROVE  /\ file'[f][i].row \in 1 .. rows
                 /\ file'[f][i].row = file'[g][j].row => f = g /\ i = j
                 /\ (f < g \/ (f = g /\ i < j)) /\ file'[f][i].by = file'[g][j].by => file'[f][i].row < file'[g][j].row
      <4>1. /\ f \in 1 .. Len(file) /\ g \in 1 .. Len(file) /\ file'[f] = file[f] /\ file'[g] = file[g]
            /\ i \in 1 .. Len(file[f]) /\ j \in 1 .. Len(file[g])
        BY <2>1
      <4>2. /\ file[f][i].row \in 1 .. rows
            /\ file[f][i].row = file[g][j].row => f = g /\ i = j
            /\ (f < g \/ (f = g /\ i < j)) /\ file[f][i].by = file[g][j].by => file[f][i].row < file[g][j].row
        BY <4>1, LinesApart
      <4> QED
        BY <4>1, <4>2
    <3> QED
      BY <3>1, <3>2
  <2>4. ASSUME NEW v \in Writers, NEW f \in 1 .. Len(file'), NEW i \in 1 .. Len(file'[f])
        PROVE  /\ pen'[v].at # "idle" => file'[f][i].row # pen'[v].row
               /\ pen'[v].at # "idle" /\ file'[f][i].by = v => file'[f][i].row < pen'[v].row
               /\ pen'[v].at = "write" /\ file'[f][i].by = v => f <= pen'[v].fd
    <3>1. f \in 1 .. Len(file) /\ i \in 1 .. Len(file[f]) /\ file'[f][i] = file[f][i]
      BY <2>1
    <3>2. /\ pen[v].at # "idle" => file[f][i].row # pen[v].row
          /\ pen[v].at # "idle" /\ file[f][i].by = v => file[f][i].row < pen[v].row
          /\ pen[v].at = "write" /\ file[f][i].by = v => f <= pen[v].fd
      <4>1. CASE pen[v].at # "idle"
        BY <3>1, <4>1, LinesBehind
      <4> QED
        BY <4>1
    <3>3. f <= live'
      BY <2>1
    <3>4. pen'[v].at = "write" => (v = w /\ pen'[v].fd = live') \/ (v # w /\ pen'[v] = pen[v])
      BY <2>2
    <3>5. pen'[v].row = pen[v].row /\ (pen'[v].at # "idle" <=> pen[v].at # "idle")
      BY <2>2
    <3> QED
      BY <3>1, <3>2, <3>3, <3>4, <3>5
  <2> QED
    BY <2>3, <2>4 DEF LogLines
<1>8. LogCopies'
  <2>1. \A f \in DOMAIN zipped : f \in 1 .. Len(file) /\ file'[f] = file[f] /\ f # live'
    BY <1>0, <1>4 DEF LogCopies, LogTyped
  <2>2. \A f \in 1 .. Len(file') : f = live' \/ f \in rotated' \/ f \in DOMAIN zipped'
    BY <1>0, <1>4 DEF LogCopies
  <2>3. ASSUME NEW r \in done
        PROVE  \E f \in 1 .. Len(file') : \E i \in 1 .. Len(file'[f]) :
                   file'[f][i].row = r /\ file'[f][i].whole /\ file'[f][i].ended
    <3>1. PICK f \in 1 .. Len(file) : \E i \in 1 .. Len(file[f]) :
              file[f][i].row = r /\ file[f][i].whole /\ file[f][i].ended
      BY DEF LogCopies
    <3>2. f \in 1 .. Len(file') /\ file'[f] = file[f]
      BY <1>0, <1>4
    <3> QED
      BY <3>1, <3>2
  <2>4. \A f \in DOMAIN zipped' :
          /\ f # live' /\ Len(zipped'[f]) <= Len(file'[f])
          /\ \A i \in 1 .. Len(zipped'[f]) : zipped'[f][i] = file'[f][i]
          /\ \A i \in 1 .. Len(file'[f]) : file'[f][i].row \in done' \ moved' => i <= Len(zipped'[f])
    <3>1. zipped' = zipped /\ done' = done /\ moved' = moved
      BY <1>0
    <3> SUFFICES ASSUME NEW f \in DOMAIN zipped
                 PROVE  /\ f # live' /\ Len(zipped[f]) <= Len(file'[f])
                        /\ \A i \in 1 .. Len(zipped[f]) : zipped[f][i] = file'[f][i]
                        /\ \A i \in 1 .. Len(file'[f]) : file'[f][i].row \in done \ moved => i <= Len(zipped[f])
      BY <3>1
    <3>2. file'[f] = file[f] /\ f # live'
      BY <2>1
    <3>3. /\ Len(zipped[f]) <= Len(file[f])
          /\ \A i \in 1 .. Len(zipped[f]) : zipped[f][i] = file[f][i]
          /\ \A i \in 1 .. Len(file[f]) : file[f][i].row \in done \ moved => i <= Len(zipped[f])
      BY DEF LogCopies
    <3> QED
      BY <3>2, <3>3
  <2>5. done' = done
    BY <1>0
  <2> QED
    BY <2>2, <2>3, <2>4, <2>5 DEF LogCopies
<1>9. LogKilled'
  <2>1. \A f \in 1 .. Len(file') : \A i \in 1 .. Len(file'[f]) : f \in 1 .. Len(file) /\ file'[f] = file[f]
    BY <1>0, <1>4
  <2>2. Unended' \subseteq Unended
    BY <2>1 DEF Unended
  <2> QED
    BY <1>0, <2>2, KilledKept DEF LogTyped
<1>10. LogBounded'
  <2> SUFFICES ASSUME Limit > 0, ~failed, NEW f \in 1 .. Len(file')
               PROVE  Len(file'[f]) + Cardinality(Pending(f)') <= Limit + Cardinality(Writers) - 1
    BY <1>0 DEF LogBounded
  <2>1. Pending(f) \in SUBSET Writers /\ Pending(f)' \in SUBSET Writers
    BY DEF Pending
  <2>2. /\ Cardinality(Pending(f)') \in Nat /\ Cardinality(Writers) \in Nat
        /\ Cardinality(Pending(f)') <= Cardinality(Writers)
    BY <2>1, FS_Subset, FS_CardinalityType, ProcessesAssumption
  <2>3. CASE f \in 1 .. Len(file)
    <3>1. Pending(f)' = Pending(f)
      BY <1>0, <1>1, <1>2, <1>3, <1>4, <2>3 DEF Pending
    <3> QED
      BY <1>4, <2>3, <3>1 DEF LogBounded
  <2>4. CASE f \notin 1 .. Len(file)
    BY <1>4, <2>2, <2>4, ProcessesAssumption
  <2> QED
    BY <2>3, <2>4
<1>11. LogFew'
  <2>1. Opened \in SUBSET (1 .. rows) /\ Opened' \in SUBSET (1 .. rows') /\ rows \in Nat /\ rows' = rows
    BY <1>0, LogKnown DEF Opened
  <2>2. /\ IsFiniteSet(Opened) /\ IsFiniteSet(Opened') /\ Cardinality(Opened) \in Nat /\ Cardinality(Opened') \in Nat
    BY <2>1, UpTo
  <2>3. Opened \cup {pen[w].row} \subseteq Opened' /\ pen[w].row \notin Opened
    BY <1>0, <1>2, <1>3, LogKnown DEF Opened, Before, LogPens
  <2>4. Cardinality(Opened \cup {pen[w].row}) = Cardinality(Opened) + 1
    BY <2>2, <2>3, FS_AddElement
  <2>5. Cardinality(Opened \cup {pen[w].row}) <= Cardinality(Opened')
    BY <2>2, <2>3, FS_Subset
  <2> QED
    BY <1>0, <1>4, <2>2, <2>4, <2>5 DEF LogFew
<1> QED
  BY <1>5, <1>6, <1>7, <1>8, <1>9, <1>10, <1>11

(* A line is put at the end of the file that its writer opened. *)
Puts(w, line) ==
    /\ pen[w].at = "write" /\ file' = [file EXCEPT ![pen[w].fd] = Append(@, line)]
    /\ line \in Lines /\ line.row = pen[w].row /\ line.by = w
    /\ pen' = [pen EXCEPT ![w] = Log!Resting]
    /\ UNCHANGED <<live, rotated, zipped, rows, failed>>
    /\ IF line.ended
       THEN /\ line.whole /\ done' = done \cup {line.row} /\ logKills' = logKills
            /\ moved \subseteq moved' /\ (pen[w].fd # live => line.row \in moved')
       ELSE UNCHANGED <<done, moved>> /\ logKills' = logKills + 1

LEMMA PutKeeps ==
    ASSUME LogInv, NEW w \in Writers, NEW line, Puts(w, line)
    PROVE  LogInv'
<1> USE DEF LogInv
<1> DEFINE d == pen[w].fd
<1>0. /\ pen[w].at = "write" /\ pen[w] \in Pens /\ line \in Lines /\ line.row = pen[w].row /\ line.by = w
      /\ pen' = [pen EXCEPT ![w] = Log!Resting] /\ Log!Resting \in Pens /\ Log!Resting.at = "idle"
      /\ UNCHANGED <<live, rotated, zipped, rows, failed>>
      /\ line.ended => line.whole /\ done' = done \cup {line.row} /\ logKills' = logKills
                       /\ moved \subseteq moved' /\ (d # live => line.row \in moved')
      /\ ~line.ended => UNCHANGED <<done, moved>> /\ logKills' = logKills + 1
      /\ Len(file) \in Nat /\ logKills \in Nat
  BY LogKnown DEF Puts, Log!Resting, Pens, LogTyped
<1>1. d \in 1 .. Len(file) /\ file' = [file EXCEPT ![d] = Append(@, line)]
  BY <1>0 DEF LogPens, Puts
<1> HIDE DEF d
<1>2. /\ pen' \in [Writers -> Pens] /\ pen'[w].at = "idle" /\ \A v \in Writers : v # w => pen'[v] = pen[v]
  BY <1>0 DEF LogTyped
<1>3. /\ file' \in Seq(Seq(Lines)) /\ Len(file') = Len(file)
      /\ \A f \in 1 .. Len(file) : Len(file[f]) \in Nat /\ Len(file'[f]) = IF f = d THEN Len(file[f]) + 1 ELSE Len(file[f])
      /\ \A f \in 1 .. Len(file) : \A i \in 1 .. Len(file[f]) : i \in 1 .. Len(file'[f]) /\ file'[f][i] = file[f][i]
      /\ file'[d][Len(file[d]) + 1] = line
  <2>1. file \in Seq(Seq(Lines)) /\ file[d] \in Seq(Lines)
    BY <1>1, LogKnown DEF LogTyped
  <2> DEFINE old == file[d]
             new == Append(file[d], line)
  <2>2. /\ new \in Seq(Lines) /\ Len(old) \in Nat /\ Len(new) = Len(old) + 1
        /\ \A i \in 1 .. Len(old) : new[i] = old[i]
        /\ new[Len(old) + 1] = line
    BY <1>0, <2>1, AppendProperties, LenProperties
  <2>3. file' = [file EXCEPT ![d] = new]
    BY <1>1
  <2> HIDE DEF new
  <2>4. file' \in Seq(Seq(Lines)) /\ Len(file') = Len(file) /\ file'[d] = new
        /\ \A f \in 1 .. Len(file) : f # d => file'[f] = file[f]
    BY <1>1, <2>1, <2>2, <2>3, ExceptSeq
  <2>5. \A f \in 1 .. Len(file) : Len(file[f]) \in Nat
    BY LogKnown
  <2> HIDE DEF LogInv, old
  <2>6. file[d] = old
    BY DEF old
  <2>7. ASSUME NEW f \in 1 .. Len(file)
        PROVE  /\ Len(file'[f]) = IF f = d THEN Len(file[f]) + 1 ELSE Len(file[f])
               /\ \A i \in 1 .. Len(file[f]) : i \in 1 .. Len(file'[f]) /\ file'[f][i] = file[f][i]
    <3>1. CASE f = d
      BY <2>2, <2>4, <2>6, <3>1
    <3>2. CASE f # d
      BY <2>4, <3>2
    <3> QED
      BY <3>1, <3>2
  <2>8. file'[d][Len(file[d]) + 1] = line
    BY <2>2, <2>4, <2>6
  <2> QED
    BY <2>4, <2>5, <2>7, <2>8
<1>4. \A f \in 1 .. Len(file') : \A i \in 1 .. Len(file'[f]) :
         /\ f \in 1 .. Len(file)
         /\ \/ i \in 1 .. Len(file[f]) /\ file'[f][i] = file[f][i]
            \/ f = d /\ i = Len(file[d]) + 1 /\ file'[f][i] = line
  BY <1>1, <1>3
<1>5. LogTyped'
  <2>1. done' \in SUBSET (1 .. rows') /\ logKills' \in Nat
    BY <1>0, LogKnown DEF LogTyped, LogPens
  <2> QED
    BY <1>0, <1>2, <1>3, <2>1 DEF LogTyped
<1>6. LogPens'
  BY <1>0, <1>2, <1>3 DEF LogPens
<1>7. LogLines'
  <2>1. line.row \in 1 .. rows
    BY <1>0 DEF LogPens
  <2>2. ASSUME NEW f \in 1 .. Len(file'), NEW i \in 1 .. Len(file'[f])
        PROVE  file'[f][i].row \in 1 .. rows'
    BY <1>0, <1>4, <2>1 DEF LogLines
  <2>3. ASSUME NEW f \in 1 .. Len(file), NEW i \in 1 .. Len(file[f])
        PROVE  /\ file[f][i].row # line.row
               /\ file[f][i].by = line.by => file[f][i].row < line.row /\ f <= d
    BY <1>0, LinesBehind DEF d
  <2>4. ASSUME NEW f \in 1 .. Len(file'), NEW i \in 1 .. Len(file'[f]),
               NEW g \in 1 .. Len(file'), NEW j \in 1 .. Len(file'[g])
        PROVE  /\ file'[f][i].row = file'[g][j].row => f = g /\ i = j
               /\ (f < g \/ (f = g /\ i < j)) /\ file'[f][i].by = file'[g][j].by => file'[f][i].row < file'[g][j].row
    <3>1. /\ f \in 1 .. Len(file) /\ g \in 1 .. Len(file)
          /\ \/ i \in 1 .. Len(file[f]) /\ file'[f][i] = file[f][i]
             \/ f = d /\ i = Len(file[d]) + 1 /\ file'[f][i] = line
          /\ \/ j \in 1 .. Len(file[g]) /\ file'[g][j] = file[g][j]
             \/ g = d /\ j = Len(file[d]) + 1 /\ file'[g][j] = line
      BY <1>4
    <3>2. CASE i \in 1 .. Len(file[f]) /\ j \in 1 .. Len(file[g]) /\ file'[f][i] = file[f][i] /\ file'[g][j] = file[g][j]
      BY <3>1, <3>2, LinesApart
    <3>3. CASE i \in 1 .. Len(file[f]) /\ file'[f][i] = file[f][i] /\ g = d /\ j = Len(file[d]) + 1 /\ file'[g][j] = line
      BY <2>3, <3>1, <3>3
    <3>4. CASE j \in 1 .. Len(file[g]) /\ file'[g][j] = file[g][j] /\ f = d /\ i = Len(file[d]) + 1 /\ file'[f][i] = line
      <4>1. file[g][j].row # line.row /\ (file[g][j].by = line.by => g <= d)
        BY <2>3, <3>1, <3>4
      <4>2. Len(file[d]) \in Nat
        BY <1>1, <1>3
      <4> QED
        BY <1>0, <3>1, <3>4, <4>1, <4>2
    <3>5. CASE f = d /\ i = Len(file[d]) + 1 /\ g = d /\ j = Len(file[d]) + 1
      <4>1. Len(file[d]) \in Nat
        BY <1>1, <1>3
      <4> QED
        BY <3>5, <4>1
    <3> QED
      BY <3>1, <3>2, <3>3, <3>4, <3>5
  <2>5. ASSUME NEW v \in Writers, NEW f \in 1 .. Len(file'), NEW i \in 1 .. Len(file'[f])
        PROVE  /\ pen'[v].at # "idle" => file'[f][i].row # pen'[v].row
               /\ pen'[v].at # "idle" /\ file'[f][i].by = v => file'[f][i].row < pen'[v].row
               /\ pen'[v].at = "write" /\ file'[f][i].by = v => f <= pen'[v].fd
    <3> SUFFICES ASSUME v # w, pen'[v] = pen[v], pen[v].at # "idle"
                 PROVE  /\ file'[f][i].row # pen[v].row
                        /\ file'[f][i].by = v => file'[f][i].row < pen[v].row
                        /\ pen[v].at = "write" /\ file'[f][i].by = v => f <= pen[v].fd
      BY <1>2
    <3>1. pen[v].row # line.row /\ line.by # v
      BY <1>0 DEF LogPens
    <3>2. CASE i \in 1 .. Len(file[f]) /\ file'[f][i] = file[f][i]
      BY <1>3, <3>2, LinesBehind
    <3>3. CASE file'[f][i] = line
      BY <3>1, <3>3
    <3> QED
      BY <1>4, <3>2, <3>3
  <2> QED
    BY <2>2, <2>4, <2>5 DEF LogLines
<1>8. LogCopies'
  <2>1. \A f \in DOMAIN zipped : f \in 1 .. Len(file) /\ f # live
    BY DEF LogCopies, LogTyped
  <2>2. ASSUME line.row \in done PROVE FALSE
    <3>1. PICK f \in 1 .. Len(file) : \E i \in 1 .. Len(file[f]) : file[f][i].row = line.row
      BY <2>2 DEF LogCopies
    <3>2. PICK i \in 1 .. Len(file[f]) : file[f][i].row = line.row
      BY <3>1
    <3> QED
      BY <1>0, <3>2, LinesBehind
  <2>3. done' \subseteq done \cup {line.row} /\ moved \subseteq moved' /\ done \subseteq done'
    BY <1>0
  <2>4. ASSUME NEW f \in DOMAIN zipped
        PROVE  /\ Len(zipped[f]) <= Len(file'[f])
               /\ \A i \in 1 .. Len(zipped[f]) : zipped[f][i] = file'[f][i]
    <3>1. Len(zipped[f]) \in Nat /\ Len(file[f]) \in Nat /\ Len(zipped[f]) <= Len(file[f])
      <4>1. zipped[f] \in Seq(Lines)
        BY DEF LogTyped
      <4> QED
        BY <1>3, <2>1, <4>1, LenProperties DEF LogCopies
    <3>2. \A i \in 1 .. Len(zipped[f]) : i \in 1 .. Len(file[f]) /\ zipped[f][i] = file[f][i]
      BY <3>1 DEF LogCopies
    <3>3. /\ Len(file'[f]) \in {Len(file[f]), Len(file[f]) + 1}
          /\ \A i \in 1 .. Len(file[f]) : file'[f][i] = file[f][i]
      BY <1>3, <2>1
    <3> QED
      BY <3>1, <3>2, <3>3
  <2>5. ASSUME NEW f \in DOMAIN zipped, NEW i \in 1 .. Len(file'[f]), file'[f][i].row \in done' \ moved'
        PROVE  i <= Len(zipped[f])
    <3>1. f \in 1 .. Len(file')
      BY <1>3, <2>1
    <3>2. CASE i \in 1 .. Len(file[f]) /\ file'[f][i] = file[f][i]
      <4>1. file[f][i].row # line.row
        BY <1>0, <2>1, <3>2, LinesBehind
      <4>2. file[f][i].row \in done \ moved
        BY <2>3, <2>5, <3>2, <4>1
      <4> QED
        BY <3>2, <4>2 DEF LogCopies
    <3>3. CASE f = d /\ file'[f][i] = line
      <4>1. line.row \in done' /\ line.row \notin moved'
        BY <2>5, <3>3
      <4>2. line.ended
        BY <1>0, <2>2, <4>1 DEF Lines
      <4> QED
        BY <1>0, <2>1, <3>3, <4>1, <4>2
    <3> QED
      BY <1>4, <3>1, <3>2, <3>3
  <2>6. \A f \in 1 .. Len(file') : f = live' \/ f \in rotated' \/ f \in DOMAIN zipped'
    BY <1>0, <1>3 DEF LogCopies
  <2>7. ASSUME NEW r \in done'
        PROVE  \E f \in 1 .. Len(file') : \E i \in 1 .. Len(file'[f]) :
                   file'[f][i].row = r /\ file'[f][i].whole /\ file'[f][i].ended
    <3>1. CASE r \in done
      <4>1. PICK f \in 1 .. Len(file) : \E i \in 1 .. Len(file[f]) :
                file[f][i].row = r /\ file[f][i].whole /\ file[f][i].ended
        BY <3>1 DEF LogCopies
      <4>0. PICK i \in 1 .. Len(file[f]) : file[f][i].row = r /\ file[f][i].whole /\ file[f][i].ended
        BY <4>1
      <4>2. f \in 1 .. Len(file') /\ i \in 1 .. Len(file'[f]) /\ file'[f][i] = file[f][i]
        BY <1>3
      <4> QED
        BY <4>0, <4>2
    <3>2. CASE r \notin done
      <4>1. r = line.row /\ line.ended /\ line.whole
        BY <1>0, <3>2 DEF Lines
      <4>2. d \in 1 .. Len(file') /\ Len(file[d]) + 1 \in 1 .. Len(file'[d]) /\ file'[d][Len(file[d]) + 1] = line
        BY <1>1, <1>3
      <4> QED
        BY <4>1, <4>2
    <3> QED
      BY <3>1, <3>2
  <2>8. zipped' = zipped /\ live' = live
    BY <1>0
  <2>9. \A f \in DOMAIN zipped' :
          /\ f # live' /\ Len(zipped'[f]) <= Len(file'[f])
          /\ \A i \in 1 .. Len(zipped'[f]) : zipped'[f][i] = file'[f][i]
          /\ \A i \in 1 .. Len(file'[f]) : file'[f][i].row \in done' \ moved' => i <= Len(zipped'[f])
    BY <2>1, <2>4, <2>5, <2>8
  <2> QED
    BY <2>6, <2>7, <2>9 DEF LogCopies
<1>9. LogKilled'
  <2>1. Unended \in SUBSET (1 .. MaxRows) /\ Unended' \in SUBSET (1 .. MaxRows) /\ MaxRows \in Nat
    BY ProcessesAssumption DEF Unended
  <2>2. /\ IsFiniteSet(Unended) /\ IsFiniteSet(Unended') /\ Cardinality(Unended) \in Nat /\ Cardinality(Unended') \in Nat
    BY <2>1, UpTo
  <2>3. Unended' \subseteq Unended \cup {line.row} /\ (line.ended => Unended' \subseteq Unended)
    <3>1. ASSUME NEW r \in Unended' PROVE r \in Unended \/ (r = line.row /\ ~line.ended)
      <4>0. PICK f \in 1 .. Len(file') : \E i \in 1 .. Len(file'[f]) : file'[f][i].row = r /\ ~file'[f][i].ended
        BY <3>1 DEF Unended
      <4>1. PICK i \in 1 .. Len(file'[f]) : file'[f][i].row = r /\ ~file'[f][i].ended
        BY <4>0
      <4>2. r \in 1 .. MaxRows
        BY <2>1, <3>1
      <4> QED
        BY <1>4, <4>1, <4>2 DEF Unended
    <3> QED
      BY <3>1
  <2>4. CASE line.ended
    BY <1>0, <2>2, <2>3, <2>4, FS_Subset DEF LogKilled
  <2>5. CASE ~line.ended
    <3>1. /\ IsFiniteSet(Unended \cup {line.row})
          /\ Cardinality(Unended \cup {line.row}) = IF line.row \in Unended THEN Cardinality(Unended) ELSE Cardinality(Unended) + 1
      BY <2>2, FS_AddElement
    <3>2. Cardinality(Unended') <= Cardinality(Unended \cup {line.row})
      BY <2>3, <3>1, FS_Subset
    <3> QED
      BY <1>0, <2>2, <2>5, <3>1, <3>2 DEF LogKilled
  <2> QED
    BY <2>4, <2>5
<1>10. LogBounded'
  <2> SUFFICES ASSUME Limit > 0, ~failed, NEW f \in 1 .. Len(file)
               PROVE  Len(file'[f]) + Cardinality(Pending(f)') <= Limit + Cardinality(Writers) - 1
    BY <1>0, <1>3 DEF LogBounded
  <2>1. Pending(f) \in SUBSET Writers /\ Pending(f)' \subseteq Pending(f) /\ (f = d => w \in Pending(f) /\ w \notin Pending(f)')
    BY <1>0, <1>2 DEF Pending, d
  <2>2. IsFiniteSet(Pending(f)) /\ Cardinality(Pending(f)) \in Nat /\ Cardinality(Writers) \in Nat
    BY <2>1, FS_Subset, FS_CardinalityType, ProcessesAssumption
  <2>3. Len(file[f]) + Cardinality(Pending(f)) <= Limit + Cardinality(Writers) - 1
    BY DEF LogBounded
  <2>4. CASE f # d
    <3>1. Cardinality(Pending(f)') <= Cardinality(Pending(f)) /\ Cardinality(Pending(f)') \in Nat
      BY <2>1, <2>2, FS_Subset, FS_CardinalityType
    <3>2. Len(file'[f]) = Len(file[f]) /\ Len(file[f]) \in Nat
      BY <1>3, <2>4
    <3> QED
      BY <2>2, <2>3, <3>1, <3>2, ProcessesAssumption
  <2>5. CASE f = d
    <3>1. /\ IsFiniteSet(Pending(f) \ {w}) /\ Cardinality(Pending(f) \ {w}) = Cardinality(Pending(f)) - 1
      BY <2>1, <2>2, <2>5, FS_RemoveElement
    <3>2. Pending(f)' \subseteq Pending(f) \ {w}
      BY <2>1, <2>5
    <3>3. Cardinality(Pending(f)') <= Cardinality(Pending(f)) - 1 /\ Cardinality(Pending(f)') \in Nat
      BY <3>1, <3>2, FS_Subset, FS_CardinalityType
    <3>4. Len(file'[f]) = Len(file[f]) + 1 /\ Len(file[f]) \in Nat
      BY <1>3, <2>5
    <3> HIDE DEF LogInv
    <3> QED
      BY <2>2, <2>3, <3>3, <3>4, ProcessesAssumption
  <2> QED
    BY <2>4, <2>5
<1>11. LogFew'
  <2>1. Opened \subseteq Opened'
    BY <1>0, <1>2 DEF Opened, Before
  <2> QED
    BY <1>3, <1>5, <2>1, FewKept
<1> QED
  BY <1>5, <1>6, <1>7, <1>8, <1>9, <1>10, <1>11

LEMMA WriteKeeps ==
    ASSUME LogInv, NEW w \in Writers, Log!Write(w) \/ (Log!Kill(w) /\ ~UNCHANGED file)
    PROVE  LogInv'
<1>0. pen[w] \in Pens
  BY LogKnown DEF LogInv
<1>1. ASSUME NEW whole \in BOOLEAN, NEW ended \in BOOLEAN
      PROVE  LET line == [row |-> pen[w].row, by |-> w, whole |-> whole, ended |-> ended]
             IN  /\ line \in Lines /\ line.row = pen[w].row /\ line.by = w
                 /\ line.whole = whole /\ line.ended = ended
                 /\ (Log!Put(w, whole, ended) => file' = [file EXCEPT ![pen[w].fd] = Append(@, line)])
  BY <1>0 DEF Pens, Lines, Log!Put
<1>2. CASE Log!Write(w)
  <2> DEFINE line == [row |-> pen[w].row, by |-> w, whole |-> TRUE, ended |-> TRUE]
  <2>1. /\ pen[w].at = "write" /\ Log!Put(w, TRUE, TRUE)
        /\ done' = done \union {pen[w].row}
        /\ moved' = IF pen[w].fd # live THEN moved \union {pen[w].row} ELSE moved
        /\ pen' = [pen EXCEPT ![w] = Log!Resting]
        /\ UNCHANGED <<live, rotated, zipped, rows, failed, logKills>>
    BY <1>2 DEF Log!Write
  <2>2. /\ line \in Lines /\ line.row = pen[w].row /\ line.by = w /\ line.whole /\ line.ended
        /\ file' = [file EXCEPT ![pen[w].fd] = Append(@, line)]
    BY <1>1, <2>1
  <2> HIDE DEF line
  <2>3. Puts(w, line)
    BY <2>1, <2>2 DEF Puts
  <2> QED
    BY <2>3, PutKeeps
<1>3. CASE Log!Kill(w) /\ ~UNCHANGED file
  <2>1. PICK whole \in BOOLEAN : Log!Put(w, whole, FALSE)
    BY <1>3 DEF Log!Kill
  <2> DEFINE line == [row |-> pen[w].row, by |-> w, whole |-> whole, ended |-> FALSE]
  <2>2. /\ pen[w].at = "write" /\ logKills' = logKills + 1
        /\ pen' = [pen EXCEPT ![w] = Log!Resting]
        /\ UNCHANGED <<live, rotated, zipped, rows, done, moved, failed>>
    BY <1>3 DEF Log!Kill
  <2>3. /\ line \in Lines /\ line.row = pen[w].row /\ line.by = w /\ ~line.ended
        /\ file' = [file EXCEPT ![pen[w].fd] = Append(@, line)]
    BY <1>1, <2>1
  <2> HIDE DEF line
  <2>4. Puts(w, line)
    BY <2>2, <2>3 DEF Puts
  <2> QED
    BY <2>4, PutKeeps
<1> QED
  BY <1>2, <1>3

LEMMA LogInvariant == Log!Spec => []LogInv
<1>1. LogInv /\ [Log!Next]_(Log!vars) => LogInv'
  <2> SUFFICES ASSUME LogInv, [Log!Next]_(Log!vars) PROVE LogInv'
    OBVIOUS
  <2>1. CASE UNCHANGED Log!vars
    <3>1. UNCHANGED <<file, live, rotated, zipped, pen, rows, done, moved, failed, logKills>>
      BY <2>1 DEF Log!vars
    <3>2. LogTyped' /\ LogPens' /\ LogCopies'
      BY <3>1 DEF LogInv, LogTyped, LogPens, LogCopies
    <3>3. LogLines'
      BY <3>1 DEF LogInv, LogLines
    <3>4. LogKilled' /\ LogFew'
      BY <3>1 DEF LogInv, LogKilled, Unended, LogFew, Opened
    <3>5. LogBounded'
      BY <3>1 DEF LogInv, LogBounded, Pending
    <3> QED
      BY <3>2, <3>3, <3>4, <3>5 DEF LogInv
  <2> QED
    BY <2>1, BeginKeepsLog, QuietKeeps, ZipKeeps, OpenKeeps, WriteKeeps DEF Log!Next
<1> QED
  BY <1>1, LogStart, PTL DEF Log!Spec

LEMMA LogCount == ASSUME NEW S PROVE Log!Cardinality(S) = Cardinality(S)
BY Zenon DEF Log!Cardinality, Cardinality

(* A line is lost to a reader only if the line before it is not ended. *)
LEMMA LostAfterUnended ==
    ASSUME LogInv, NEW r \in Log!Lost \ moved
    PROVE  \E f \in 1 .. Len(file) : \E i \in 1 .. Len(file[f]) :
               i > 1 /\ file[f][i].row = r /\ ~file[f][i - 1].ended
<1> USE DEF LogInv
<1>1. r \in done /\ r \notin moved /\ r \notin Log!Found
  BY DEF Log!Lost
<1>2. PICK f \in 1 .. Len(file) : \E i \in 1 .. Len(file[f]) :
          file[f][i].row = r /\ file[f][i].whole /\ file[f][i].ended
  BY <1>1 DEF LogCopies
<1>3. PICK i \in 1 .. Len(file[f]) : file[f][i].row = r /\ file[f][i].whole /\ file[f][i].ended
  BY <1>2
<1> SUFFICES ASSUME ~(i > 1 /\ ~file[f][i - 1].ended) PROVE FALSE
  BY <1>3
<1>4. i = 1 \/ file[f][i - 1].ended
  OBVIOUS
<1>5. CASE f = live \/ f \in rotated
  <2>1. DOMAIN file[f] = 1 .. Len(file[f])
    BY LogKnown, LenProperties
  <2>2. r \in Log!Parsed(file[f])
    BY <1>3, <1>4, <2>1 DEF Log!Parsed
  <2>3. Log!Parsed(file[f]) \subseteq Log!Found
    BY <1>5 DEF Log!Found
  <2> QED
    BY <1>1, <2>2, <2>3
<1>6. CASE f \in DOMAIN zipped
  <2>1. zipped[f] \in Seq(Lines)
    BY <1>6 DEF LogTyped
  <2>2. /\ i <= Len(zipped[f]) /\ DOMAIN zipped[f] = 1 .. Len(zipped[f]) /\ Len(zipped[f]) \in Nat
        /\ \A j \in 1 .. Len(zipped[f]) : zipped[f][j] = file[f][j]
    BY <1>1, <1>3, <1>6, <2>1, LenProperties DEF LogCopies
  <2>3. /\ i \in DOMAIN zipped[f] /\ zipped[f][i] = file[f][i]
        /\ i = 1 \/ zipped[f][i - 1] = file[f][i - 1]
    BY <2>2
  <2>4. r \in Log!Parsed(zipped[f])
    BY <1>3, <1>4, <2>3 DEF Log!Parsed
  <2>5. Log!Parsed(zipped[f]) \subseteq Log!Found
    BY <1>6 DEF Log!Found
  <2> QED
    BY <1>1, <2>4, <2>5
<1> QED
  BY <1>5, <1>6 DEF LogCopies

LEMMA LossBounded ==
    ASSUME LogInv
    PROVE  Log!LossIsBounded
<1> USE DEF LogInv
<1> DEFINE Losses == Log!Lost \ moved
           After(r, q) == \E f \in 1 .. Len(file) : \E i \in 1 .. Len(file[f]) :
                              i > 1 /\ file[f][i].row = r /\ file[f][i - 1].row = q /\ ~file[f][i - 1].ended
           before == [r \in Losses |-> CHOOSE q \in Unended : After(r, q)]
<1>1. ASSUME NEW r \in Losses PROVE \E q \in Unended : After(r, q)
  <2>1. PICK f \in 1 .. Len(file) : \E i \in 1 .. Len(file[f]) :
            i > 1 /\ file[f][i].row = r /\ ~file[f][i - 1].ended
    BY <1>1, LostAfterUnended
  <2>2. PICK i \in 1 .. Len(file[f]) : i > 1 /\ file[f][i].row = r /\ ~file[f][i - 1].ended
    BY <2>1
  <2>3. i - 1 \in 1 .. Len(file[f]) /\ file[f][i - 1].row \in 1 .. rows
    BY <2>2 DEF LogLines
  <2>4. file[f][i - 1].row \in Unended
    BY <2>2, <2>3, LogKnown, ProcessesAssumption DEF Unended
  <2> QED
    BY <2>2, <2>4
<1>2. ASSUME NEW q, NEW r, NEW s, After(r, q), After(s, q) PROVE r = s
  <2>1. PICK f \in 1 .. Len(file) : \E i \in 1 .. Len(file[f]) :
            i > 1 /\ file[f][i].row = r /\ file[f][i - 1].row = q
    BY <1>2
  <2>2. PICK i \in 1 .. Len(file[f]) : i > 1 /\ file[f][i].row = r /\ file[f][i - 1].row = q
    BY <2>1
  <2>3. PICK g \in 1 .. Len(file) : \E j \in 1 .. Len(file[g]) :
            j > 1 /\ file[g][j].row = s /\ file[g][j - 1].row = q
    BY <1>2
  <2>4. PICK j \in 1 .. Len(file[g]) : j > 1 /\ file[g][j].row = s /\ file[g][j - 1].row = q
    BY <2>3
  <2>5. i - 1 \in 1 .. Len(file[f]) /\ j - 1 \in 1 .. Len(file[g])
    BY <2>2, <2>4
  <2>6. f = g /\ i - 1 = j - 1
    <3>1. file[f][i - 1].row = file[g][j - 1].row
      BY <2>2, <2>4
    <3>2. ASSUME NEW k \in 1 .. Len(file[f]), NEW l \in 1 .. Len(file[g]), file[f][k].row = file[g][l].row
          PROVE  f = g /\ k = l
      BY <3>2, LinesApart
    <3> DEFINE k == i - 1
               l == j - 1
    <3> HIDE DEF k, l
    <3>3. k \in 1 .. Len(file[f]) /\ l \in 1 .. Len(file[g]) /\ file[f][k].row = file[g][l].row
      BY <2>5, <3>1 DEF k, l
    <3>4. f = g /\ k = l
      BY <3>2, <3>3
    <3> QED
      BY <3>4 DEF k, l
  <2> QED
    BY <2>2, <2>4, <2>6
<1> HIDE DEF Losses, After
<1>3. /\ \A r \in Losses : before[r] \in Unended /\ After(r, before[r])
      /\ before \in [Losses -> Unended]
  BY <1>1
<1>4. \A r, s \in Losses : before[r] = before[s] => r = s
  BY <1>2, <1>3
<1> HIDE DEF before
<1>5. before \in Injection(Losses, Unended)
  BY <1>3, <1>4 DEF Injection, IsInjective
<1>6. IsFiniteSet(Unended) /\ Cardinality(Unended) \in Nat
  <2>1. Unended \in SUBSET (1 .. MaxRows) /\ MaxRows \in Nat
    BY ProcessesAssumption DEF Unended
  <2> QED
    BY <2>1, UpTo
<1>7. IsFiniteSet(Losses) /\ Cardinality(Losses) <= Cardinality(Unended)
  BY <1>5, <1>6, FS_Injection
<1>8. Cardinality(Losses) \in Nat
  BY <1>7, FS_CardinalityType
<1> QED
  <2>1. Cardinality(Losses) <= logKills
    BY <1>6, <1>7, <1>8 DEF LogKilled, LogTyped
  <2> QED
    BY <2>1, LogCount DEF Log!LossIsBounded, Losses

(* RowsAreKept: each file has one name at the most and each copy is a part  *)
(* of its file; a killed process costs one row beside its own, at the most; *)
(* no file outgrows the limit by more than a row of each other writer, but  *)
(* where a rotation failed; and a process's rows are in the order it wrote  *)
(* them: whatever the writers, the limit and the number of rows.            *)
THEOREM LogsKeepRows == Log!Spec => []RowsAreKept
<1>1. LogInv => RowsAreKept
  <2> SUFFICES ASSUME LogInv PROVE RowsAreKept
    OBVIOUS
  <2> USE DEF LogInv
  <2>0. /\ DOMAIN file = 1 .. Len(file) /\ Len(file) \in Nat
        /\ \A f \in 1 .. Len(file) : DOMAIN file[f] = 1 .. Len(file[f]) /\ Len(file[f]) \in Nat
    BY LogKnown, LenProperties DEF LogTyped
  <2>1. Log!TypeOK
    <3>1. Len(file) <= MaxRows
      <4>1. Opened \in SUBSET (1 .. rows) /\ rows \in Nat /\ rows <= MaxRows
        BY LogKnown DEF Opened
      <4>2. Cardinality(Opened) \in Nat /\ Cardinality(Opened) <= rows
        BY <4>1, UpTo
      <4> QED
        BY <2>0, <4>1, <4>2, ProcessesAssumption DEF LogFew
    <3>2. live \in 0 .. Len(file) /\ live \notin rotated /\ DOMAIN file \subseteq Log!Files
      <4>1. live \in {0, Len(file)} /\ live \notin rotated
        BY DEF LogTyped
      <4>2. 1 .. Len(file) \subseteq 1 .. MaxRows + 1
        BY <2>0, <3>1, ProcessesAssumption
      <4>3. DOMAIN file \subseteq Log!Files
        BY <2>0, <4>2 DEF Log!Files
      <4>4. live \in 0 .. Len(file)
        BY <2>0, <4>1
      <4> QED
        BY <4>1, <4>3, <4>4
    <3>3. ASSUME NEW f \in DOMAIN zipped
          PROVE  Len(zipped[f]) <= Len(file[f]) /\ zipped[f] = SubSeq(file[f], 1, Len(zipped[f]))
      <4>1. zipped[f] \in Seq(Lines) /\ f \in 1 .. Len(file) /\ file[f] \in Seq(Lines)
        BY LogKnown DEF LogTyped
      <4>2. /\ Len(zipped[f]) \in Nat /\ Len(zipped[f]) <= Len(file[f])
            /\ \A i \in 1 .. Len(zipped[f]) : zipped[f][i] = file[f][i]
        BY <4>1, LenProperties DEF LogCopies
      <4> DEFINE n == Len(zipped[f])
                 old == file[f]
      <4> HIDE DEF n, old
      <4>3. old \in Seq(Lines) /\ n \in Nat /\ n <= Len(old) /\ Len(old) \in Nat
        BY <2>0, <4>1, <4>2 DEF n, old
      <4>4. \A i \in 1 .. n : old[i] \in Lines
        BY <4>3, ElementOfSeq
      <4>5. /\ SubSeq(old, 1, n) \in Seq(Lines) /\ Len(SubSeq(old, 1, n)) = n
            /\ \A i \in 1 .. n : SubSeq(old, 1, n)[i] = old[i]
        BY <4>3, <4>4, SubSeqProperties
      <4>6. zipped[f] = SubSeq(old, 1, n)
        BY <4>1, <4>2, <4>5, SeqEqual DEF n, old
      <4> QED
        BY <4>2, <4>6 DEF n, old
    <3> QED
      BY <3>2, <3>3 DEF Log!TypeOK
  <2>2. Log!LossIsBounded
    BY LossBounded
  <2>3. Log!FilesAreBounded
    <3> SUFFICES ASSUME Limit > 0, ~failed, NEW f \in 1 .. Len(file)
                 PROVE  Len(file[f]) <= Limit + Cardinality(Writers) - 1
      BY <2>0, LogCount DEF Log!FilesAreBounded
    <3>1. Pending(f) \in SUBSET Writers
      BY DEF Pending
    <3>2. Cardinality(Pending(f)) \in Nat /\ Cardinality(Writers) \in Nat
      BY <3>1, FS_Subset, FS_CardinalityType, ProcessesAssumption
    <3>3. Len(file[f]) + Cardinality(Pending(f)) <= Limit + Cardinality(Writers) - 1
      BY DEF LogBounded
    <3> QED
      BY <2>0, <3>2, <3>3, ProcessesAssumption
  <2>4. Log!InOrder
    <3> SUFFICES ASSUME NEW f \in 1 .. Len(file), NEW g \in 1 .. Len(file),
                        NEW i \in 1 .. Len(file[f]), NEW j \in 1 .. Len(file[g]),
                        f < g \/ (f = g /\ i < j), file[f][i].by = file[g][j].by
                 PROVE  file[f][i].row < file[g][j].row
      BY <2>0 DEF Log!InOrder
    <3> QED
      BY LinesApart
  <2> QED
    BY <2>1, <2>2, <2>3, <2>4 DEF RowsAreKept, Log!RowsAreKept
<1> QED
  BY <1>1, LogInvariant, PTL

-----------------------------------------------------------------------------
(* The frames of the 3D tab. *)

FramesTyped ==
    /\ tab \in {"3D", "list"} /\ opens \in 0 .. MaxOpens /\ reopened \in 0 .. opens
    /\ driver \in 0 .. MaxOpens /\ backend \in 0 .. MaxOpens /\ bound \in 0 .. MaxOpens
    /\ pumping = (driver # 0) /\ framesFailed \in BOOLEAN
    /\ timers \in SUBSET Frames!Timers /\ named \in Frames!Timers \cup {0}
    /\ framesQueue \in Seq(Frames!Event) /\ held \in SUBSET Keys /\ down \in SUBSET Keys
    /\ lastPress \in 0 .. Frames!Never /\ gravity \in {"world", "free"}
    /\ clock \in 0 .. MaxClock /\ taps \in 0 .. 2

(* The shell knows whose window is open, unless an opening failed; and the  *)
(* pumps that nobody can cancel are as many as the tab was opened again.    *)
FramesShell ==
    /\ ~framesFailed => bound = backend /\ backend = driver /\ (driver # 0 => tab = "3D")
    /\ driver # 0 => bound # 0
    /\ driver = 0 => named = 0
    /\ driver # 0 /\ backend # 0 => named \in timers
    /\ Cardinality(timers \ {named}) <= reopened

(* What will be held once the events are taken is down; the events of a key *)
(* have a last one.                                                         *)
FramesKeys ==
    /\ driver # 0 /\ backend = bound => \A k \in Keys :
          /\ Frames!Of(k) = {} /\ k \in held => k \in down
          /\ \A i \in Frames!Presses(k) : (\A j \in Frames!Of(k) : j <= i) => k \in down
    /\ \A k \in Keys \cup {"space"} :
          /\ Frames!Of(k) # {} => \E i \in Frames!Of(k) : \A j \in Frames!Of(k) : j <= i
          /\ Frames!Presses(k) # {} => \E i \in Frames!Presses(k) : \A j \in Frames!Presses(k) : j <= i

FramesInv == FramesTyped /\ FramesShell /\ FramesKeys

LEMMA NoEvents ==
    ASSUME framesQueue = <<>>, NEW k
    PROVE  Frames!Of(k) = {} /\ Frames!Presses(k) = {}
BY DEF Frames!Of, Frames!Presses

LEMMA NoEventsLeft ==
    ASSUME framesQueue' = <<>>, NEW k
    PROVE  Frames!Of(k)' = {} /\ Frames!Presses(k)' = {}
BY DEF Frames!Of, Frames!Presses

LEMMA EventJoins ==
    ASSUME framesQueue \in Seq(Frames!Event), NEW e \in Frames!Event, NEW k,
           framesQueue' = Append(framesQueue, e)
    PROVE  LET last == Len(framesQueue) + 1
           IN  /\ last \in Nat /\ \A i \in Frames!Of(k) : i \in Nat /\ i < last
               /\ Frames!Of(k)' = IF e.key = k THEN Frames!Of(k) \cup {last} ELSE Frames!Of(k)
               /\ Frames!Presses(k) \subseteq Frames!Of(k)
               /\ Frames!Presses(k)' = IF e.key = k /\ e.kind = "key_down"
                                       THEN Frames!Presses(k) \cup {last} ELSE Frames!Presses(k)
<1> DEFINE n == Len(framesQueue)
           q == framesQueue'
<1>1. /\ n \in Nat /\ DOMAIN framesQueue = 1 .. n /\ DOMAIN q = 1 .. n + 1
      /\ \A i \in 1 .. n : q[i] = framesQueue[i]
      /\ q[n + 1] = e
  BY AppendProperties, LenProperties
<1> HIDE DEF n
<1>2. \A i \in 1 .. n + 1 : i \in 1 .. n \/ i = n + 1
  BY <1>1
<1>3. \A i \in 1 .. n : i \in Nat /\ i < n + 1 /\ i \in 1 .. n + 1
  BY <1>1
<1>4. n + 1 \in 1 .. n + 1 /\ n + 1 \in Nat
  BY <1>1
<1>5. /\ Frames!Of(k) = {i \in 1 .. n : framesQueue[i].key = k}
      /\ Frames!Of(k)' = {i \in 1 .. n + 1 : q[i].key = k}
      /\ Frames!Presses(k) = {i \in Frames!Of(k) : framesQueue[i].kind = "key_down"}
      /\ Frames!Presses(k)' = {i \in Frames!Of(k)' : q[i].kind = "key_down"}
  BY <1>1 DEF Frames!Of, Frames!Presses
<1> HIDE DEF q
<1>6. Frames!Of(k)' = IF e.key = k THEN Frames!Of(k) \cup {n + 1} ELSE Frames!Of(k)
  BY <1>1, <1>2, <1>3, <1>4, <1>5
<1>7. Frames!Presses(k)' = IF e.key = k /\ e.kind = "key_down" THEN Frames!Presses(k) \cup {n + 1} ELSE Frames!Presses(k)
  BY <1>1, <1>2, <1>3, <1>4, <1>5, <1>6
<1> QED
  BY <1>3, <1>4, <1>5, <1>6, <1>7 DEF n

LEMMA TimersFinite ==
    ASSUME NEW S \in SUBSET Frames!Timers
    PROVE  IsFiniteSet(S) /\ Cardinality(S) \in Nat
<1>1. MaxOpens + 1 \in Nat /\ Frames!Timers = 1 .. MaxOpens + 1
  BY ProcessesAssumption DEF Frames!Timers
<1> QED
  BY <1>1, UpTo

LEMMA FramesStart == Frames!Init => FramesInv
<1> SUFFICES ASSUME Frames!Init PROVE FramesInv
  OBVIOUS
<1>1. /\ tab = "list" /\ driver = 0 /\ backend = 0 /\ bound = 0 /\ pumping = FALSE /\ timers = {} /\ named = 0
      /\ framesQueue = <<>> /\ held = {} /\ lastPress = Frames!Never /\ gravity = "world" /\ down = {} /\ clock = 0
      /\ opens = 0 /\ reopened = 0 /\ framesFailed = FALSE /\ taps = 0
  BY DEF Frames!Init
<1>2. Frames!Never \in Nat
  BY ProcessesAssumption DEF Frames!Never
<1>3. FramesTyped
  <2>1. pumping = (driver # 0) /\ framesFailed \in BOOLEAN
    BY <1>1
  <2>2. /\ opens \in 0 .. MaxOpens /\ reopened \in 0 .. opens /\ driver \in 0 .. MaxOpens /\ backend \in 0 .. MaxOpens
        /\ bound \in 0 .. MaxOpens /\ lastPress \in 0 .. Frames!Never /\ clock \in 0 .. MaxClock /\ taps \in 0 .. 2
    BY <1>1, <1>2, ProcessesAssumption
  <2>3. framesQueue \in Seq(Frames!Event)
    BY <1>1, EmptySeq
  <2> QED
    BY <1>1, <2>1, <2>2, <2>3 DEF FramesTyped
<1>4. FramesShell
  <2>1. timers \ {named} = {} /\ Cardinality({}) = 0
    BY <1>1, FS_EmptySet
  <2> QED
    BY <1>1, <2>1 DEF FramesShell
<1>5. FramesKeys
  BY <1>1, NoEvents DEF FramesKeys
<1> QED
  BY <1>3, <1>4, <1>5 DEF FramesInv

(* Steps of the keyboard and the clock. *)
LEMMA KeyKeeps ==
    ASSUME FramesInv, NEW k \in Keys, Frames!Press(k) \/ Frames!Lift(k)
    PROVE  FramesInv'
<1> USE DEF FramesInv
<1> DEFINE kind == IF k \in down THEN "key_up" ELSE "key_down"
           e == [kind |-> kind, key |-> k, at |-> clock]
<1>1. /\ down' = IF kind = "key_down" THEN down \cup {k} ELSE down \ {k}
      /\ IF bound # 0 /\ bound = backend THEN framesQueue' = Append(framesQueue, e) ELSE framesQueue' = framesQueue
      /\ taps' \in {taps} \cup (IF taps < 2 THEN {taps + 1} ELSE {})
      /\ UNCHANGED <<tab, driver, backend, bound, pumping, timers, named, held, lastPress, gravity, clock,
                     opens, reopened, framesFailed>>
  <2>1. CASE Frames!Press(k)
    BY <2>1 DEF Frames!Press, Frames!Delivered, Frames!shell
  <2>2. CASE Frames!Lift(k)
    BY <2>2 DEF Frames!Lift, Frames!Delivered, Frames!shell
  <2> QED
    BY <2>1, <2>2
<1>2. e \in Frames!Event /\ e.key = k /\ e.kind = kind
  BY DEF FramesTyped, Frames!Event
<1>3. kind \in {"key_down", "key_up"}
  OBVIOUS
<1> HIDE DEF e, kind
<1>4. FramesTyped'
  <2>1. framesQueue' \in Seq(Frames!Event)
    <3>1. framesQueue \in Seq(Frames!Event) /\ e \in Frames!Event
      BY <1>2 DEF FramesTyped
    <3>2. Append(framesQueue, e) \in Seq(Frames!Event)
      BY <3>1, AppendProperties
    <3> QED
      BY <1>1, <3>1, <3>2
  <2>2. taps' \in 0 .. 2
    BY <1>1 DEF FramesTyped
  <2>3. down' \in SUBSET Keys
    BY <1>1 DEF FramesTyped
  <2> QED
    BY <1>1, <2>1, <2>2, <2>3 DEF FramesTyped
<1>5. FramesShell'
  BY <1>1 DEF FramesShell
<1>6. FramesKeys'
  <2>1. CASE bound # 0 /\ bound = backend
    <3> DEFINE last == Len(framesQueue) + 1
    <3>1. \A l : /\ last \in Nat /\ \A i \in Frames!Of(l) : i \in Nat /\ i < last
                 /\ Frames!Of(l)' = IF k = l THEN Frames!Of(l) \cup {last} ELSE Frames!Of(l)
                 /\ Frames!Presses(l) \subseteq Frames!Of(l)
                 /\ Frames!Presses(l)' = IF k = l /\ kind = "key_down"
                                         THEN Frames!Presses(l) \cup {last} ELSE Frames!Presses(l)
      BY <1>1, <1>2, <2>1, EventJoins DEF FramesTyped
    <3> HIDE DEF last
    <3>2. ASSUME NEW l \in Keys, driver # 0
          PROVE  /\ Frames!Of(l)' = {} /\ l \in held' => l \in down'
                 /\ \A i \in Frames!Presses(l)' : (\A j \in Frames!Of(l)' : j <= i) => l \in down'
      <4>1. /\ Frames!Of(l) = {} /\ l \in held => l \in down
            /\ \A i \in Frames!Presses(l) : (\A j \in Frames!Of(l) : j <= i) => l \in down
        BY <2>1, <3>2 DEF FramesKeys
      <4>2. CASE l # k
        BY <1>1, <3>1, <4>1, <4>2
      <4>3. CASE l = k /\ kind = "key_down"
        BY <1>1, <4>3
      <4>4. CASE l = k /\ kind # "key_down"
        <5>1. last \in Frames!Of(l)' /\ Frames!Presses(l)' = Frames!Presses(l)
          BY <3>1, <4>4
        <5>2. \A i \in Frames!Presses(l) : i \in Nat /\ ~(last <= i)
          BY <3>1
        <5> QED
          BY <5>1, <5>2
      <4> QED
        BY <4>2, <4>3, <4>4
    <3>3. ASSUME NEW l \in Keys \cup {"space"}
          PROVE  /\ Frames!Of(l)' # {} => \E i \in Frames!Of(l)' : \A j \in Frames!Of(l)' : j <= i
                 /\ Frames!Presses(l)' # {} => \E i \in Frames!Presses(l)' : \A j \in Frames!Presses(l)' : j <= i
      <4>1. /\ Frames!Of(l) # {} => \E i \in Frames!Of(l) : \A j \in Frames!Of(l) : j <= i
            /\ Frames!Presses(l) # {} => \E i \in Frames!Presses(l) : \A j \in Frames!Presses(l) : j <= i
        BY DEF FramesKeys
      <4>2. last \in Nat /\ \A i \in Frames!Of(l) : i <= last
        BY <3>1
      <4>3. last <= last /\ \A i \in Frames!Presses(l) : i <= last
        BY <3>1, <4>2
      <4> QED
        BY <3>1, <4>1, <4>2, <4>3
    <3> QED
      BY <1>1, <3>2, <3>3 DEF FramesKeys
  <2>2. CASE ~(bound # 0 /\ bound = backend)
    <3>1. \A l : Frames!Of(l)' = Frames!Of(l) /\ Frames!Presses(l)' = Frames!Presses(l)
      BY <1>1, <2>2 DEF Frames!Of, Frames!Presses
    <3>2. ~(driver # 0 /\ backend = bound)
      BY <2>2 DEF FramesShell
    <3> QED
      BY <1>1, <3>1, <3>2 DEF FramesKeys
  <2> QED
    BY <2>1, <2>2
<1> QED
  BY <1>4, <1>5, <1>6

LEMMA Fewer ==
    ASSUME NEW S, NEW T \in SUBSET Frames!Timers, S \subseteq T
    PROVE  IsFiniteSet(S) /\ Cardinality(S) <= Cardinality(T)
BY TimersFinite, FS_Subset

(* The driver goes, with its window, its events and the callback it named. *)
LEMMA TearDownKeeps ==
    ASSUME FramesInv, NEW pending \in SUBSET timers, Frames!TornDown(pending),
           framesQueue' = <<>>, held' = {}, lastPress' = Frames!Never, gravity' = "world", taps' = 0,
           tab' \in {"3D", "list"}, UNCHANGED <<down, clock, opens, reopened, framesFailed>>
    PROVE  FramesInv'
<1> USE DEF FramesInv
<1>1. /\ pumping' = FALSE /\ timers' = pending \ {named} /\ named' = 0 /\ driver' = 0 /\ backend' = 0
      /\ bound' = IF backend # 0 THEN 0 ELSE bound
  BY DEF Frames!TornDown
<1>2. FramesTyped'
  <2>1. Frames!Never \in Nat /\ 0 \in 0 .. MaxOpens
    BY ProcessesAssumption DEF Frames!Never
  <2>2. framesQueue' \in Seq(Frames!Event)
    BY EmptySeq
  <2>3. pumping' = (driver' # 0)
    BY <1>1
  <2>4. bound' \in 0 .. MaxOpens /\ timers' \in SUBSET Frames!Timers
    BY <1>1, <2>1 DEF FramesTyped
  <2> QED
    BY <1>1, <2>1, <2>2, <2>3, <2>4 DEF FramesTyped
<1>3. FramesShell'
  <2>1. timers' \ {named'} \subseteq timers \ {named}
    BY <1>1
  <2>2. timers \ {named} \in SUBSET Frames!Timers /\ reopened \in Nat
    BY DEF FramesTyped
  <2>3. Cardinality(timers' \ {named'}) <= Cardinality(timers \ {named})
        /\ Cardinality(timers' \ {named'}) \in Nat /\ Cardinality(timers \ {named}) \in Nat
    BY <2>1, <2>2, Fewer, FS_CardinalityType
  <2>4. Cardinality(timers' \ {named'}) <= reopened'
    BY <2>2, <2>3 DEF FramesShell
  <2> QED
    BY <1>1, <2>4 DEF FramesShell
<1>4. FramesKeys'
  BY <1>1, NoEventsLeft DEF FramesKeys
<1> QED
  BY <1>2, <1>3, <1>4

LEMMA KeysRest ==
    ASSUME FramesKeys, UNCHANGED <<driver, backend, bound, framesQueue, held, down>>
    PROVE  FramesKeys'
<1>1. \A l : Frames!Of(l)' = Frames!Of(l) /\ Frames!Presses(l)' = Frames!Presses(l)
  BY DEF Frames!Of, Frames!Presses
<1> QED
  BY <1>1 DEF FramesKeys

LEMMA SelectKeeps ==
    ASSUME FramesInv, Frames!Tick \/ Frames!SelectList \/ Frames!SelectUnreadable \/ Frames!SelectFails
    PROVE  FramesInv'
<1>1. CASE Frames!SelectList /\ driver # 0
  BY <1>1, TearDownKeeps DEF Frames!SelectList, Frames!Forgotten
<1> USE DEF FramesInv
<1>2. CASE Frames!SelectList /\ driver = 0
  <2>1. /\ tab' = "list"
        /\ UNCHANGED <<driver, backend, bound, pumping, timers, named, framesQueue, held, lastPress, gravity,
                       down, clock, opens, reopened, framesFailed, taps>>
    BY <1>2 DEF Frames!SelectList, Frames!shell, Frames!input
  <2> QED
    <3>1. FramesTyped'
      BY <2>1 DEF FramesTyped
    <3>2. FramesShell'
      BY <1>2, <2>1 DEF FramesShell
    <3> QED
      BY <2>1, <3>1, <3>2, KeysRest
<1>3. CASE Frames!SelectUnreadable \/ Frames!Tick
  <2>1. /\ tab' \in {tab, "3D"} /\ clock' \in 0 .. MaxClock
        /\ UNCHANGED <<driver, backend, bound, pumping, timers, named, framesQueue, held, lastPress, gravity,
                       down, opens, reopened, framesFailed, taps>>
    BY <1>3, ProcessesAssumption DEF Frames!SelectUnreadable, Frames!Tick, Frames!shell, Frames!input, FramesTyped
  <2> QED
    <3>1. FramesTyped'
      BY <2>1 DEF FramesTyped
    <3>2. FramesShell'
      BY <2>1 DEF FramesShell
    <3> QED
      BY <2>1, <3>1, <3>2, KeysRest
<1>4. CASE Frames!SelectFails
  <2>1. /\ opens < MaxOpens /\ opens' = opens + 1 /\ tab' = "3D" /\ framesFailed' = TRUE /\ backend' = 0
        /\ bound' \in {bound, opens + 1} /\ framesQueue' = <<>>
        /\ UNCHANGED <<driver, pumping, timers, named, held, lastPress, gravity, down, clock, reopened, taps>>
    BY <1>4 DEF Frames!SelectFails
  <2>2. framesQueue' \in Seq(Frames!Event)
    BY <2>1, EmptySeq
  <2>3. opens' \in 0 .. MaxOpens /\ reopened' \in 0 .. opens' /\ bound' \in 0 .. MaxOpens /\ 0 \in 0 .. MaxOpens
    BY <2>1, ProcessesAssumption DEF FramesTyped
  <2>4. framesFailed' \in BOOLEAN
    BY <2>1
  <2>5. FramesTyped'
    BY <2>1, <2>2, <2>3, <2>4 DEF FramesTyped
  <2>6. bound' # 0 \/ driver = 0
    BY <2>1, ProcessesAssumption DEF FramesTyped, FramesShell
  <2>7. FramesShell'
    BY <2>1, <2>6 DEF FramesShell
  <2>8. FramesKeys'
    BY <2>1, <2>6, NoEventsLeft DEF FramesKeys
  <2> QED
    BY <2>5, <2>7, <2>8
<1> QED
  BY <1>1, <1>2, <1>3, <1>4

LEMMA OpensKeeps ==
    ASSUME FramesInv, Frames!SelectOpens
    PROVE  FramesInv'
<1> USE DEF FramesInv
<1>1. /\ opens < MaxOpens /\ opens' = opens + 1 /\ tab' = "3D"
      /\ reopened' = IF driver = 0 THEN reopened ELSE reopened + 1
      /\ driver' = opens + 1 /\ backend' = opens + 1 /\ bound' = opens + 1
      /\ pumping' = TRUE
      /\ framesQueue' = <<>> /\ held' = {} /\ lastPress' = Frames!Never /\ gravity' = "world" /\ taps' = 0
      /\ UNCHANGED <<down, clock, framesFailed>>
  BY DEF Frames!SelectOpens, Frames!Forgotten
<1>2. PICK id \in Frames!Timers \ timers : timers' = timers \cup {id} /\ named' = id
  BY DEF Frames!SelectOpens, Frames!Scheduled
<1>3. opens \in Nat /\ opens' \in 0 .. MaxOpens /\ opens' # 0 /\ reopened \in Nat /\ reopened' \in 0 .. opens'
  BY <1>1, ProcessesAssumption DEF FramesTyped
<1>4. FramesTyped'
  <2>1. Frames!Never \in Nat
    BY ProcessesAssumption DEF Frames!Never
  <2>2. framesQueue' \in Seq(Frames!Event)
    BY <1>1, EmptySeq
  <2>3. pumping' = (driver' # 0)
    BY <1>1, <1>3
  <2>4. timers' \in SUBSET Frames!Timers /\ named' \in Frames!Timers
    BY <1>2 DEF FramesTyped
  <2> QED
    BY <1>1, <1>3, <2>1, <2>2, <2>3, <2>4 DEF FramesTyped
<1>5. FramesShell'
  <2>1. timers' \ {named'} = timers /\ timers \in SUBSET Frames!Timers
    BY <1>2 DEF FramesTyped
  <2>2. IsFiniteSet(timers \ {named}) /\ Cardinality(timers \ {named}) \in Nat /\ Cardinality(timers) \in Nat
    <3>1. timers \ {named} \in SUBSET Frames!Timers
      BY <2>1
    <3> QED
      BY <2>1, <3>1, TimersFinite
  <2>3. Cardinality(timers) <= reopened'
    <3>1. CASE driver = 0
      <4>1. named = 0 /\ 0 \notin timers
        BY <3>1, ProcessesAssumption DEF FramesShell, FramesTyped, Frames!Timers
      <4>2. timers \ {named} = timers
        BY <4>1
      <4> QED
        BY <1>1, <3>1, <4>2 DEF FramesShell
    <3>2. CASE driver # 0
      <4>1. timers \subseteq (timers \ {named}) \cup {named}
        OBVIOUS
      <4>2. /\ IsFiniteSet((timers \ {named}) \cup {named})
            /\ Cardinality((timers \ {named}) \cup {named}) = Cardinality(timers \ {named}) + 1
        BY <2>2, FS_AddElement
      <4>3. Cardinality(timers) <= Cardinality(timers \ {named}) + 1
        BY <4>1, <4>2, FS_Subset
      <4> QED
        BY <1>1, <1>3, <2>2, <3>2, <4>3 DEF FramesShell
    <3> QED
      BY <3>1, <3>2
  <2> QED
    BY <1>1, <1>2, <1>3, <2>1, <2>3 DEF FramesShell
<1>6. FramesKeys'
  BY <1>1, NoEventsLeft DEF FramesKeys
<1> QED
  BY <1>4, <1>5, <1>6

LEMMA LatestIsLast ==
    ASSUME NEW S, \E i \in S : \A j \in S : j <= i
    PROVE  Frames!Latest(S) \in S /\ \A j \in S : j <= Frames!Latest(S)
BY DEF Frames!Latest

(* A frame that does not quit takes the events and schedules the next one. *)
LEMMA FrameGoesOn ==
    ASSUME FramesInv, NEW id \in timers, driver # 0,
           framesQueue' = <<>>, held' = Frames!HeldAfter, lastPress' = Frames!PressAfter,
           gravity' \in {"world", "free"}, Frames!Scheduled(timers \ {id}),
           UNCHANGED <<driver, backend, bound, pumping, taps, tab, down, clock, opens, reopened, framesFailed>>
    PROVE  FramesInv'
<1> USE DEF FramesInv
<1>1. PICK new \in Frames!Timers \ (timers \ {id}) : timers' = (timers \ {id}) \cup {new} /\ named' = new
  BY DEF Frames!Scheduled
<1>2. FramesTyped'
  <2>1. framesQueue' \in Seq(Frames!Event)
    BY EmptySeq
  <2>2. timers' \in SUBSET Frames!Timers /\ named' \in Frames!Timers
    BY <1>1 DEF FramesTyped
  <2>3. held' \in SUBSET Keys
    BY DEF Frames!HeldAfter
  <2>4. lastPress' \in 0 .. Frames!Never
    <3>1. CASE Frames!Presses("space") = {}
      BY <3>1 DEF Frames!PressAfter, FramesTyped
    <3>2. CASE Frames!Presses("space") # {}
      <4>1. \E i \in Frames!Presses("space") : \A j \in Frames!Presses("space") : j <= i
        BY <3>2 DEF FramesKeys
      <4> DEFINE p == Frames!Latest(Frames!Presses("space"))
      <4>2. p \in Frames!Presses("space")
        BY <4>1, LatestIsLast
      <4> HIDE DEF p
      <4>3. p \in DOMAIN framesQueue
        BY <4>2 DEF Frames!Presses, Frames!Of
      <4>4. framesQueue[p] \in Frames!Event
        BY <4>3 DEF FramesTyped
      <4>5. framesQueue[p].at \in 0 .. MaxClock
        BY <4>4 DEF Frames!Event
      <4>6. lastPress' = framesQueue[p].at
        BY <3>2 DEF Frames!PressAfter, p
      <4> QED
        BY <4>5, <4>6, ProcessesAssumption DEF Frames!Never
    <3> QED
      BY <3>1, <3>2
  <2> QED
    BY <2>1, <2>2, <2>3, <2>4 DEF FramesTyped
<1>3. FramesShell'
  <2>1. timers' \ {named'} = timers \ {id} /\ named' \in timers'
    BY <1>1
  <2>2. Cardinality(timers \ {id}) <= reopened
    <3>1. CASE id = named
      BY <3>1 DEF FramesShell
    <3>2. CASE id # named
      <4>1. timers \in SUBSET Frames!Timers /\ timers \ {named} \in SUBSET Frames!Timers
            /\ timers \ {id} \in SUBSET Frames!Timers /\ reopened \in Nat
        BY DEF FramesTyped
      <4>2. timers \subseteq (timers \ {named}) \cup {named}
        OBVIOUS
      <4>3. /\ IsFiniteSet(timers \ {named}) /\ IsFiniteSet(timers) /\ IsFiniteSet(timers \ {id})
            /\ Cardinality(timers \ {named}) \in Nat /\ Cardinality(timers) \in Nat
            /\ Cardinality(timers \ {id}) \in Nat
        BY <4>1, TimersFinite
      <4>4. Cardinality((timers \ {named}) \cup {named}) = Cardinality(timers \ {named}) + 1
            /\ IsFiniteSet((timers \ {named}) \cup {named})
        BY <4>3, FS_AddElement
      <4>5. Cardinality(timers) <= Cardinality(timers \ {named}) + 1
        BY <4>2, <4>4, FS_Subset
      <4>6. Cardinality(timers \ {id}) = Cardinality(timers) - 1
        BY <4>3, FS_RemoveElement
      <4> QED
        BY <4>1, <4>3, <4>5, <4>6 DEF FramesShell
    <3> QED
      BY <3>1, <3>2
  <2> QED
    BY <2>1, <2>2 DEF FramesShell
<1>4. FramesKeys'
  <2>1. \A k \in Keys : Frames!Of(k)' = {} /\ Frames!Presses(k)' = {}
    BY NoEventsLeft
  <2>2. \A k \in Keys \cup {"space"} : Frames!Of(k)' = {} /\ Frames!Presses(k)' = {}
    BY NoEventsLeft
  <2>3. ASSUME NEW k \in Keys, backend = bound, k \in Frames!HeldAfter
        PROVE  k \in down
    <3>1. CASE Frames!Of(k) = {}
      BY <2>3, <3>1 DEF FramesKeys, Frames!HeldAfter
    <3>2. CASE Frames!Of(k) # {}
      <4>1. \E i \in Frames!Of(k) : \A j \in Frames!Of(k) : j <= i
        BY <3>2 DEF FramesKeys
      <4>2. \A j \in Frames!Of(k) : j <= Frames!Latest(Frames!Of(k))
        BY <4>1, LatestIsLast
      <4>3. Frames!Latest(Frames!Of(k)) \in Frames!Presses(k)
        BY <2>3, <3>2 DEF Frames!HeldAfter
      <4> QED
        BY <2>3, <4>2, <4>3 DEF FramesKeys
    <3> QED
      BY <3>1, <3>2
  <2> QED
    BY <2>1, <2>2, <2>3 DEF FramesKeys
<1> QED
  BY <1>2, <1>3, <1>4

LEMMA FireKeeps ==
    ASSUME FramesInv, NEW id \in Frames!Timers, Frames!Fire(id)
    PROVE  FramesInv'
<1>1. id \in timers /\ UNCHANGED <<tab, down, clock, opens, reopened, framesFailed>> /\ tab' \in {"3D", "list"}
  BY DEF Frames!Fire, FramesInv, FramesTyped
<1>2. CASE pumping /\ driver # 0 /\ backend # 0
  <2>1. Frames!Frame(timers \ {id}) \/ Frames!FrameRaises(timers \ {id})
    BY <1>2 DEF Frames!Fire
  <2>2. CASE Frames!FrameRaises(timers \ {id})
    BY <1>1, <2>2, TearDownKeeps DEF Frames!FrameRaises, Frames!Forgotten
  <2>3. CASE Frames!Frame(timers \ {id}) /\ Frames!Presses("escape") # {}
    BY <1>1, <2>3, TearDownKeeps DEF Frames!Frame
  <2>4. CASE Frames!Frame(timers \ {id}) /\ Frames!Presses("escape") = {}
    <3>1. /\ framesQueue' = <<>> /\ held' = Frames!HeldAfter /\ lastPress' = Frames!PressAfter
          /\ Frames!Scheduled(timers \ {id}) /\ UNCHANGED <<driver, backend, bound, pumping, taps>>
          /\ gravity' = IF ~Frames!Toggles THEN gravity ELSE IF gravity = "world" THEN "free" ELSE "world"
      BY <2>4 DEF Frames!Frame
    <3>2. gravity' \in {"world", "free"}
      BY <3>1 DEF FramesInv, FramesTyped
    <3> QED
      BY <1>1, <1>2, <3>1, <3>2, FrameGoesOn
  <2> QED
    BY <2>1, <2>2, <2>3, <2>4
<1>3. CASE ~(pumping /\ driver # 0 /\ backend # 0)
  <2> USE DEF FramesInv
  <2>1. /\ timers' = timers \ {id}
        /\ UNCHANGED <<tab, driver, backend, bound, pumping, named, framesQueue, held, lastPress, gravity,
                       down, clock, opens, reopened, framesFailed, taps>>
    BY <1>1, <1>3 DEF Frames!Fire, Frames!input
  <2>2. FramesTyped'
    BY <2>1 DEF FramesTyped
  <2>3. ~(driver # 0 /\ backend # 0)
    BY <1>3 DEF FramesTyped
  <2>4. timers' \ {named'} \subseteq timers \ {named}
    BY <2>1
  <2>5. timers \ {named} \in SUBSET Frames!Timers /\ reopened \in Nat
    BY DEF FramesTyped
  <2>6. Cardinality(timers' \ {named'}) <= Cardinality(timers \ {named})
        /\ Cardinality(timers' \ {named'}) \in Nat /\ Cardinality(timers \ {named}) \in Nat
    BY <2>4, <2>5, Fewer, FS_CardinalityType
  <2>7. Cardinality(timers' \ {named'}) <= reopened'
    BY <2>1, <2>5, <2>6 DEF FramesShell
  <2>8. FramesShell'
    BY <2>1, <2>3, <2>7 DEF FramesShell
  <2> QED
    BY <2>1, <2>2, <2>8, KeysRest
<1> QED
  BY <1>2, <1>3

LEMMA FramesStep == FramesInv /\ [Frames!Next]_(Frames!vars) => FramesInv'
<1> SUFFICES ASSUME FramesInv, [Frames!Next]_(Frames!vars) PROVE FramesInv'
  OBVIOUS
<1>1. CASE UNCHANGED Frames!vars
  <2>1. UNCHANGED <<tab, driver, backend, bound, pumping, timers, named, framesQueue, held, lastPress, gravity,
                    down, clock, opens, reopened, framesFailed, taps>>
    BY <1>1 DEF Frames!vars, Frames!shell, Frames!input
  <2>2. FramesTyped'
    BY <2>1 DEF FramesInv, FramesTyped
  <2>3. FramesShell'
    BY <2>1 DEF FramesInv, FramesShell
  <2> QED
    BY <2>1, <2>2, <2>3, KeysRest DEF FramesInv
<1>2. CASE \E k \in Keys : Frames!Press(k) \/ Frames!Lift(k)
  BY <1>2, KeyKeeps
<1>3. CASE Frames!Tick \/ Frames!SelectList \/ Frames!SelectUnreadable \/ Frames!SelectFails
  BY <1>3, SelectKeeps
<1>4. CASE Frames!SelectOpens
  BY <1>4, OpensKeeps
<1>5. CASE \E id \in Frames!Timers : Frames!Fire(id)
  BY <1>5, FireKeeps
<1> QED
  BY <1>1, <1>2, <1>3, <1>4, <1>5 DEF Frames!Next

LEMMA FramesCount == ASSUME NEW S PROVE Frames!Cardinality(S) = Cardinality(S)
BY Zenon DEF Frames!Cardinality, Cardinality

LEMMA FramesSound == FramesInv => FramesAreKept
<1> SUFFICES ASSUME FramesInv PROVE FramesAreKept
  OBVIOUS
<1> USE DEF FramesInv
<1>1. Frames!TypeOK
  <2>1. opens \in Nat /\ reopened \in 0 .. MaxOpens
    BY ProcessesAssumption DEF FramesTyped
  <2> QED
    BY <2>1 DEF FramesTyped, Frames!TypeOK
<1>2. Frames!KeysStayIn3D
  BY DEF FramesShell, Frames!KeysStayIn3D
<1>3. Frames!FramesGoOn
  BY DEF FramesTyped, FramesShell, Frames!FramesGoOn
<1>4. Frames!PumpsAreReopenings
  <2>1. timers \in SUBSET Frames!Timers /\ timers \ {named} \in SUBSET Frames!Timers /\ reopened \in Nat
    BY DEF FramesTyped
  <2>2. IsFiniteSet(timers \ {named}) /\ Cardinality(timers \ {named}) \in Nat /\ Cardinality(timers) \in Nat
    BY <2>1, TimersFinite
  <2>3. IsFiniteSet((timers \ {named}) \cup {named})
        /\ Cardinality((timers \ {named}) \cup {named}) = Cardinality(timers \ {named}) + 1
    BY <2>2, FS_AddElement
  <2>4. timers \subseteq (timers \ {named}) \cup {named}
    OBVIOUS
  <2>5. Cardinality(timers) <= Cardinality(timers \ {named}) + 1
    BY <2>3, <2>4, FS_Subset
  <2>6. Cardinality(timers) <= 1 + reopened
    BY <2>1, <2>2, <2>5 DEF FramesShell
  <2> QED
    BY <2>6, FramesCount DEF Frames!PumpsAreReopenings
<1>5. Frames!HeldIsDown
  <2>1. ASSUME framesQueue = <<>>, driver # 0, backend = bound, NEW k \in held PROVE k \in down
    <3>1. k \in Keys /\ Frames!Of(k) = {}
      BY <2>1, NoEvents DEF FramesTyped
    <3> QED
      BY <2>1, <3>1 DEF FramesKeys
  <2> QED
    BY <2>1 DEF Frames!HeldIsDown
<1> QED
  BY <1>1, <1>2, <1>3, <1>4, <1>5 DEF FramesAreKept, Frames!FramesAreKept

(***************************************************************************)
(* In every run of the 3D tab, with any keys and any number of openings,   *)
(* keys reach only the window in use, its frames go on, the pumps are no   *)
(* more than the tab was reopened, and no key sticks (gui_shell.py's pump  *)
(* and engine/input.py).                                                   *)
(***************************************************************************)
THEOREM FramesKeep == Frames!Spec => []FramesAreKept
<1>1. Frames!Init => FramesInv
  BY FramesStart
<1>2. FramesInv /\ [Frames!Next]_(Frames!vars) => FramesInv'
  BY FramesStep
<1>3. FramesInv => FramesAreKept
  BY FramesSound
<1> QED
  BY <1>1, <1>2, <1>3, PTL DEF Frames!Spec

=============================================================================
