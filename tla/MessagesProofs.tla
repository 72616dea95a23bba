----------------------------- MODULE MessagesProofs -----------------------------
(***************************************************************************)
(* Proofs about the messages of the program: forwarded once, as far as the *)
(* pump can; ideas kept while commands do not overlap; mails accounted     *)
(* for.  Each component has its inductive invariant and one lemma for each *)
(* group of its actions.                                                   *)
(***************************************************************************)
EXTENDS Messages, FiniteSets, Sequences, FiniteSetTheorems, SequenceTheorems, TLAPS

-----------------------------------------------------------------------------
(* The inbox and its pump. *)

Positions == {"idle", "echo", "send"}
NotOf(n) == ~(typed.at # "idle" /\ typed.note = n)

MailTyped ==
    /\ note \in [Notes -> {"none", "blank", "whole"}]
    /\ addressee \in [Notes -> Mail!Sessions \cup {Mail!Display}]
    /\ got \in [Notes -> Nat] /\ crashes \in Nat
    /\ echoed \in SUBSET Notes /\ forwarded \in SUBSET Notes /\ unsaved \in SUBSET Notes
    /\ pump \in [at : {"rest", "scan"}, todo : SUBSET Notes, half : SUBSET Notes, work : SUBSET Notes]
    /\ typed \in [at : Positions, note : Notes \cup {Mail!NotTyped.note}]
    /\ typed.at # "idle" => typed.note \in Notes

SessionsTyped ==
    /\ spawned \in 0 .. MaxSessions /\ marker \in 0 .. spawned
    /\ known \in SUBSET (1 .. spawned) /\ recorded \in SUBSET (1 .. spawned)
    /\ ensure \in [at : {"check", "mark", "idle"}, sid : 0 .. spawned]

(* What the pump has settled it will not consider again, and whatever it or *)
(* the chat has touched has been posted, so its addressee stands.           *)
PumpKeeps ==
    /\ pump.at = "rest" => pump.todo = {} /\ pump.work = {}
    /\ pump.at = "scan" => forwarded \subseteq pump.work
    /\ pump.todo \cap pump.work = {}
    /\ \A n \in echoed \cup forwarded \cup pump.todo \cup pump.work : note[n] # "none"
    /\ typed.at # "idle" => typed.note \in echoed

(* What each delivery of a message is accounted to: the chat's own send,    *)
(* once it has been made; the tick that settled it; a tick that was killed. *)
BySend(n) == IF n \in echoed /\ NotOf(n) THEN 1 ELSE 0
ByTick(n) == IF n \in forwarded \cup pump.work THEN 1 ELSE 0
ByCrash(n) == IF n \in unsaved THEN crashes ELSE 0
DeliveriesAreAccounted == \A n \in Notes : got[n] <= BySend(n) + ByTick(n) + ByCrash(n)

MailInv == MailTyped /\ SessionsTyped /\ PumpKeeps /\ Mail!NeverSkipped /\ DeliveriesAreAccounted

LEMMA MailStart == Mail!Init => MailInv
<1> SUFFICES ASSUME Mail!Init PROVE MailInv
  OBVIOUS
<1> USE DEF Mail!Init
<1>1. MailTyped
  BY DEF MailTyped, Positions, Mail!Resting, Mail!NotTyped
<1>2. SessionsTyped
  BY MessagesAssumption DEF SessionsTyped, Mail!Asked, Mail!NoMarker
<1>3. PumpKeeps
  BY DEF PumpKeeps, Mail!Resting, Mail!NotTyped
<1>4. Mail!NeverSkipped
  BY DEF Mail!NeverSkipped, Mail!Resting
<1>5. DeliveriesAreAccounted
  <2>1. ASSUME NEW n \in Notes PROVE got[n] <= BySend(n) + ByTick(n) + ByCrash(n)
    <3>1. got[n] = 0 /\ BySend(n) = 0 /\ ByTick(n) = 0 /\ ByCrash(n) = 0
      BY DEF BySend, ByTick, ByCrash, Mail!Resting
    <3> QED
      BY <3>1
  <2> QED
    BY <2>1 DEF DeliveriesAreAccounted
<1> QED
  BY <1>1, <1>2, <1>3, <1>4, <1>5 DEF MailInv

(* Messages appear and are written; what has been posted keeps its address. *)
LEMMA PostsKeep ==
    ASSUME MailInv, UNCHANGED <<forwarded, pump, got, unsaved, crashes, halfRead, strangers>>,
           MailTyped', SessionsTyped',
           \A m \in Notes : note[m] # "none" => note'[m] # "none" /\ addressee'[m] = addressee[m],
           echoed \subseteq echoed', \A m \in echoed' : note'[m] # "none",
           typed'.at # "idle" => typed'.note \in echoed',
           \A m \in echoed : NotOf(m) => NotOf(m)'
    PROVE  MailInv'
<1> USE DEF MailInv
<1>1. PumpKeeps'
  BY DEF PumpKeeps, MailTyped
<1>2. \A m \in forwarded \cup pump.work : addressee'[m] = addressee[m]
  BY DEF PumpKeeps, MailTyped
<1>3. Mail!NeverSkipped'
  BY <1>2 DEF Mail!NeverSkipped
<1>4. DeliveriesAreAccounted'
  <2>1. ASSUME NEW n \in Notes PROVE got'[n] <= BySend(n)' + ByTick(n)' + ByCrash(n)'
    <3>1. got[n] <= BySend(n) + ByTick(n) + ByCrash(n)
      BY DEF DeliveriesAreAccounted
    <3>2. got'[n] = got[n] /\ ByTick(n)' = ByTick(n) /\ ByCrash(n)' = ByCrash(n)
      BY DEF ByTick, ByCrash
    <3>3. BySend(n) \in 0 .. 1 /\ BySend(n)' \in 0 .. 1 /\ BySend(n) <= BySend(n)'
      BY DEF BySend
    <3>4. got[n] \in Nat /\ ByTick(n) \in 0 .. 1 /\ ByCrash(n) \in Nat
      BY DEF MailTyped, ByTick, ByCrash
    <3> QED
      BY <3>1, <3>2, <3>3, <3>4
  <2> QED
    BY <2>1 DEF DeliveriesAreAccounted
<1> QED
  BY <1>1, <1>3, <1>4

LEMMA PostStep ==
    ASSUME MailInv, NEW n \in Notes, NEW to \in Mail!Sessions \cup {Mail!Display},
           Mail!Post(n, to) \/ Mail!Written(n) \/ Mail!Type(n, to)
    PROVE  MailInv'
<1> USE DEF MailInv
<1>1. CASE Mail!Post(n, to)
  <2>1. /\ note[n] = "none" /\ note' = [note EXCEPT ![n] = "blank"]
        /\ addressee' = [addressee EXCEPT ![n] = to]
        /\ UNCHANGED <<echoed, forwarded, pump, got, unsaved, crashes, halfRead, strangers, typed,
                       known, recorded, spawned, marker, ensure>>
    BY <1>1 DEF Mail!Post, Mail!Created, Mail!pumpVars, Mail!sessions, Mail!default
  <2>2. MailTyped'
    BY <2>1 DEF MailTyped
  <2>3. SessionsTyped'
    BY <2>1 DEF SessionsTyped
  <2>4. \A m \in Notes : note[m] # "none" => note'[m] # "none" /\ addressee'[m] = addressee[m]
    BY <2>1 DEF MailTyped
  <2>5. \A m \in echoed' : note'[m] # "none"
    BY <2>1, <2>4 DEF PumpKeeps, MailTyped
  <2>6. \A m \in echoed : NotOf(m) => NotOf(m)'
    BY <2>1 DEF NotOf
  <2> QED
    BY <2>1, <2>2, <2>3, <2>4, <2>5, <2>6, PostsKeep DEF PumpKeeps
<1>2. CASE Mail!Written(n)
  <2>1. /\ note' = [note EXCEPT ![n] = "whole"]
        /\ UNCHANGED <<addressee, echoed, forwarded, pump, got, unsaved, crashes, halfRead, strangers, typed,
                       known, recorded, spawned, marker, ensure>>
    BY <1>2 DEF Mail!Written, Mail!pumpVars, Mail!sessions, Mail!default
  <2>2. MailTyped'
    BY <2>1 DEF MailTyped
  <2>3. SessionsTyped'
    BY <2>1 DEF SessionsTyped
  <2>4. \A m \in Notes : note[m] # "none" => note'[m] # "none" /\ addressee'[m] = addressee[m]
    BY <2>1 DEF MailTyped
  <2>5. \A m \in echoed' : note'[m] # "none"
    BY <2>1, <2>4 DEF PumpKeeps, MailTyped
  <2>6. \A m \in echoed : NotOf(m) => NotOf(m)'
    BY <2>1 DEF NotOf
  <2> QED
    BY <2>1, <2>2, <2>3, <2>4, <2>5, <2>6, PostsKeep DEF PumpKeeps
<1>3. CASE Mail!Type(n, to)
  <2>1. /\ typed.at = "idle" /\ note[n] = "none" /\ note' = [note EXCEPT ![n] = "blank"]
        /\ addressee' = [addressee EXCEPT ![n] = to]
        /\ echoed' = echoed \cup {n} /\ typed' = [at |-> "echo", note |-> n]
        /\ known' \in {known, known \cup recorded}
        /\ UNCHANGED <<forwarded, pump, got, unsaved, crashes, halfRead, strangers,
                       recorded, spawned, marker, ensure>>
    BY <1>3 DEF Mail!Type, Mail!Created, Mail!Hydrated, Mail!pumpVars, Mail!sessions, Mail!default
  <2>2. MailTyped'
    BY <2>1 DEF MailTyped, Positions
  <2>3. SessionsTyped'
    BY <2>1 DEF SessionsTyped
  <2>4. \A m \in Notes : note[m] # "none" => note'[m] # "none" /\ addressee'[m] = addressee[m]
    BY <2>1 DEF MailTyped
  <2>5. \A m \in echoed' : note'[m] # "none"
    BY <2>1, <2>4 DEF PumpKeeps, MailTyped
  <2>6. n \notin echoed
    BY <2>1 DEF PumpKeeps
  <2>7. \A m \in echoed : NotOf(m)'
    BY <2>1, <2>6 DEF NotOf
  <2> QED
    BY <2>1, <2>2, <2>3, <2>4, <2>5, <2>7, PostsKeep
<1> QED
  BY <1>1, <1>2, <1>3

LEMMA EchoStep ==
    ASSUME MailInv, Mail!Echoed
    PROVE  MailInv'
<1> USE DEF MailInv
<1> DEFINE n == typed.note
<1>1. /\ typed.at = "echo" /\ note' = [note EXCEPT ![n] = "whole"]
      /\ typed' = IF addressee[n] = Mail!Display THEN Mail!NotTyped ELSE [typed EXCEPT !.at = "send"]
      /\ UNCHANGED <<addressee, echoed, forwarded, pump, got, unsaved, crashes, halfRead, strangers,
                     known, recorded, spawned, marker, ensure>>
  BY DEF Mail!Echoed, Mail!pumpVars, Mail!sessions, Mail!default
<1>2. n \in Notes /\ n \in echoed
  BY <1>1 DEF MailTyped, PumpKeeps
<1>3. /\ typed' \in [at : Positions, note : Notes \cup {Mail!NotTyped.note}]
      /\ typed'.at # "idle" => typed'.note = n
  BY <1>1 DEF MailTyped, Positions, Mail!NotTyped
<1> HIDE DEF n
<1>4. MailTyped'
  BY <1>1, <1>2, <1>3 DEF MailTyped
<1>5. SessionsTyped'
  BY <1>1 DEF SessionsTyped
<1>6. \A m \in Notes : note[m] # "none" => note'[m] # "none" /\ addressee'[m] = addressee[m]
  BY <1>1 DEF MailTyped
<1>7. \A m \in echoed' : note'[m] # "none"
  BY <1>1, <1>6 DEF PumpKeeps, MailTyped
<1>8. \A m \in echoed : NotOf(m) => NotOf(m)'
  BY <1>1, <1>3 DEF NotOf, n
<1> QED
  BY <1>1, <1>2, <1>3, <1>4, <1>5, <1>6, <1>7, <1>8, PostsKeep

(* Steps that touch no message. *)
LEMMA SessionStep ==
    ASSUME MailInv,
           Mail!List \/ Mail!SpawnElsewhere \/ (\E s \in Mail!Sessions : Mail!Archive(s))
             \/ Mail!EnsureReturns \/ Mail!EnsureSpawns \/ Mail!Mark
    PROVE  MailInv'
<1> USE DEF MailInv
<1>1. UNCHANGED <<note, addressee, echoed, forwarded, pump, halfRead, strangers, typed, got, unsaved, crashes>>
  BY DEF Mail!List, Mail!SpawnElsewhere, Mail!Archive, Mail!EnsureReturns, Mail!EnsureSpawns, Mail!Mark,
         Mail!mail, Mail!pumpVars
<1>2. MailTyped'
  BY <1>1 DEF MailTyped
<1>3. SessionsTyped'
  <2>1. CASE Mail!List \/ (\E s \in Mail!Sessions : Mail!Archive(s)) \/ Mail!EnsureReturns \/ Mail!Mark
    <3>1. /\ known' \in SUBSET (known \cup recorded) /\ recorded' \in SUBSET recorded /\ spawned' = spawned
          /\ marker' \in {marker, ensure.sid} /\ ensure' \in {ensure, Mail!NotAsked}
      BY <2>1 DEF Mail!List, Mail!Archive, Mail!EnsureReturns, Mail!Mark, Mail!Hydrated, Mail!sessions, Mail!default
    <3>2. marker' \in 0 .. spawned /\ ensure' \in [at : {"check", "mark", "idle"}, sid : 0 .. spawned]
      BY <3>1 DEF SessionsTyped, Mail!NotAsked, Mail!NoMarker
    <3> QED
      BY <3>1, <3>2 DEF SessionsTyped
  <2>2. CASE Mail!SpawnElsewhere \/ Mail!EnsureSpawns
    <3>1. /\ spawned < MaxSessions /\ spawned' = spawned + 1 /\ recorded' = recorded \cup {spawned + 1}
          /\ known' \in SUBSET (known \cup recorded') /\ marker' = marker
          /\ ensure' \in {ensure, [at |-> "mark", sid |-> spawned + 1]}
      BY <2>2 DEF Mail!SpawnElsewhere, Mail!EnsureSpawns, Mail!default
    <3>2. /\ spawned' \in 0 .. MaxSessions /\ \A i \in 0 .. spawned : i \in 0 .. spawned'
          /\ \A i \in 1 .. spawned : i \in 1 .. spawned' /\ spawned + 1 \in 0 .. spawned'
          /\ spawned + 1 \in 1 .. spawned'
      BY <3>1, MessagesAssumption DEF SessionsTyped
    <3>3. ensure' \in [at : {"check", "mark", "idle"}, sid : 0 .. spawned']
      BY <3>1, <3>2 DEF SessionsTyped
    <3>4. recorded' \in SUBSET (1 .. spawned') /\ known' \in SUBSET (1 .. spawned')
      BY <3>1, <3>2 DEF SessionsTyped
    <3> QED
      BY <3>1, <3>2, <3>3, <3>4 DEF SessionsTyped
  <2> QED
    BY <2>1, <2>2
<1>4. PumpKeeps'
  BY <1>1 DEF PumpKeeps
<1>5. Mail!NeverSkipped'
  BY <1>1 DEF Mail!NeverSkipped
<1>6. DeliveriesAreAccounted'
  BY <1>1 DEF DeliveriesAreAccounted, BySend, ByTick, ByCrash, NotOf
<1> QED
  BY <1>2, <1>3, <1>4, <1>5, <1>6

(* The tick: messages are considered, one at a time. *)
LEMMA TickStart ==
    ASSUME MailInv, Mail!TickStarts
    PROVE  MailInv'
<1> USE DEF MailInv
<1> DEFINE listed == {n \in Notes : note[n] # "none"}
           half == {n \in listed : note[n] = "blank"}
<1>1. /\ pump.at = "rest"
      /\ pump' = [at |-> "scan", todo |-> listed \ forwarded, half |-> half, work |-> forwarded]
      /\ UNCHANGED <<note, addressee, echoed, forwarded, halfRead, strangers, typed, got, unsaved, crashes,
                     known, recorded, spawned, marker, ensure>>
  BY DEF Mail!TickStarts, Mail!mail, Mail!sessions, Mail!default
<1>2. half \in SUBSET Notes /\ listed \in SUBSET Notes /\ \A n \in listed : note[n] # "none"
  OBVIOUS
<1> HIDE DEF half, listed
<1>3. pump'.at = "scan" /\ pump'.todo = listed \ forwarded /\ pump'.work = forwarded /\ pump.work = {}
  BY <1>1 DEF PumpKeeps
<1>4. MailTyped'
  BY <1>1, <1>2 DEF MailTyped
<1>5. SessionsTyped'
  BY <1>1 DEF SessionsTyped
<1>6. PumpKeeps'
  BY <1>1, <1>2, <1>3 DEF PumpKeeps
<1>7. Mail!NeverSkipped'
  BY <1>1, <1>3 DEF Mail!NeverSkipped
<1>8. DeliveriesAreAccounted'
  BY <1>1, <1>3 DEF DeliveriesAreAccounted, BySend, ByTick, ByCrash, NotOf
<1> QED
  BY <1>4, <1>5, <1>6, <1>7, <1>8

LEMMA SettleStep ==
    ASSUME MailInv, NEW n \in Notes, Mail!Considering(n), Mail!Settle(n),
           got' \in [Notes -> Nat],
           \A m \in Notes : got'[m] = IF m = n THEN got'[n] ELSE got[m],
           got'[n] \in {got[n], got[n] + 1},
           halfRead \subseteq halfRead', strangers \subseteq strangers',
           addressee[n] = Mail!Display \/ got'[n] > 0 \/ n \in halfRead' \cup strangers',
           UNCHANGED <<note, addressee, echoed, forwarded, typed, unsaved, crashes, spawned, marker, ensure>>,
           known' \in SUBSET (known \cup recorded), recorded' \in SUBSET (1 .. spawned)
    PROVE  MailInv'
<1> USE DEF MailInv
<1>1. pump.at = "scan" /\ n \in pump.todo /\ pump' = [pump EXCEPT !.todo = @ \ {n}, !.work = @ \cup {n}]
  BY DEF Mail!Considering, Mail!Settle
<1>2. pump'.at = "scan" /\ pump'.todo = pump.todo \ {n} /\ pump'.work = pump.work \cup {n} /\ pump'.half = pump.half
  BY <1>1 DEF MailTyped
<1>3. n \notin pump.work /\ n \notin forwarded
  BY <1>1 DEF PumpKeeps
<1>4. MailTyped'
  BY <1>1 DEF MailTyped
<1>5. SessionsTyped'
  BY DEF SessionsTyped
<1>6. PumpKeeps'
  BY <1>1, <1>2 DEF PumpKeeps
<1>7. \A m \in forwarded \cup pump.work : m \in Notes /\ got'[m] = got[m]
  BY <1>3 DEF MailTyped
<1>8. Mail!NeverSkipped'
  <2>1. ASSUME NEW m \in forwarded \cup pump'.work
        PROVE  addressee'[m] = Mail!Display \/ got'[m] > 0 \/ m \in halfRead' \cup strangers'
    <3>1. CASE m = n
      BY <3>1
    <3>2. CASE m # n
      <4>1. m \in forwarded \cup pump.work
        BY <1>2, <2>1, <3>2
      <4> QED
        BY <1>7, <4>1 DEF Mail!NeverSkipped
    <3> QED
      BY <3>1, <3>2
  <2> QED
    BY <2>1 DEF Mail!NeverSkipped
<1>9. DeliveriesAreAccounted'
  <2>1. ASSUME NEW m \in Notes PROVE got'[m] <= BySend(m)' + ByTick(m)' + ByCrash(m)'
    <3>1. got[m] <= BySend(m) + ByTick(m) + ByCrash(m)
      BY DEF DeliveriesAreAccounted
    <3>2. BySend(m)' = BySend(m) /\ ByCrash(m)' = ByCrash(m)
      BY DEF BySend, ByCrash, NotOf
    <3>3. got[m] \in Nat /\ BySend(m) \in 0 .. 1 /\ ByCrash(m) \in Nat
      BY DEF MailTyped, BySend, ByCrash
    <3>4. CASE m = n
      <4>1. ByTick(m) = 0 /\ ByTick(m)' = 1
        BY <1>2, <1>3, <3>4 DEF ByTick
      <4>2. got'[m] <= got[m] + 1
        BY <3>3, <3>4
      <4>3. got'[m] \in Nat
        BY <3>4
      <4> QED
        BY <3>1, <3>2, <3>3, <4>1, <4>2, <4>3
    <3>5. CASE m # n
      <4>1. ByTick(m)' = ByTick(m) /\ got'[m] = got[m]
        BY <1>2, <3>5 DEF ByTick
      <4> QED
        BY <3>1, <3>2, <4>1
    <3> QED
      BY <3>4, <3>5
  <2> QED
    BY <2>1 DEF DeliveriesAreAccounted
<1> QED
  BY <1>4, <1>5, <1>6, <1>8, <1>9

LEMMA Delivered ==
    ASSUME MailInv, NEW n \in Notes, Mail!Deliver(n)
    PROVE  /\ got' \in [Notes -> Nat] /\ got'[n] = got[n] + 1 /\ got'[n] > 0
           /\ \A m \in Notes : got'[m] = IF m = n THEN got'[n] ELSE got[m]
           /\ known' \in SUBSET (known \cup recorded) /\ recorded' \in SUBSET (1 .. spawned)
<1> USE DEF MailInv
<1>1. /\ addressee[n] \in known \cup recorded /\ known' = known \cup recorded
      /\ recorded' = recorded \cup {addressee[n]} /\ got' = [got EXCEPT ![n] = got[n] + 1]
  BY DEF Mail!Deliver, Mail!Hydrated
<1>2. got[n] \in Nat /\ got \in [Notes -> Nat]
  BY DEF MailTyped
<1>3. got' \in [Notes -> Nat] /\ got'[n] = got[n] + 1 /\ \A m \in Notes : m # n => got'[m] = got[m]
  BY <1>1, <1>2
<1>4. got'[n] > 0
  BY <1>2, <1>3
<1>5. known' \in SUBSET (known \cup recorded) /\ recorded' \in SUBSET (1 .. spawned)
  BY <1>1 DEF SessionsTyped
<1> QED
  BY <1>3, <1>4, <1>5

LEMMA ConsiderStep ==
    ASSUME MailInv, NEW n \in Notes, Mail!Consider(n)
    PROVE  MailInv'
<1>1. CASE Mail!SkipDisplay(n)
  <2>1. /\ Mail!Considering(n) /\ Mail!Settle(n) /\ ~Mail!ForSession(n)
        /\ halfRead' = IF n \in pump.half THEN halfRead \cup {n} ELSE halfRead
        /\ UNCHANGED <<note, addressee, echoed, forwarded, strangers, known, recorded, spawned, marker, ensure,
                       typed, got, unsaved, crashes>>
    BY <1>1 DEF Mail!SkipDisplay, Mail!mail, Mail!sessions, Mail!default
  <2>2. addressee[n] = Mail!Display \/ n \in halfRead'
    BY <2>1 DEF Mail!ForSession
  <2>3. got \in [Notes -> Nat] /\ recorded \in SUBSET (1 .. spawned) /\ known \in SUBSET (known \cup recorded)
    BY DEF MailInv, MailTyped, SessionsTyped
  <2>4. halfRead \subseteq halfRead'
    BY <2>1
  <2> QED
    BY <2>1, <2>2, <2>3, <2>4, SettleStep
<1>2. CASE Mail!DropStranger(n)
  <2>1. /\ Mail!Considering(n) /\ Mail!Settle(n) /\ strangers' = strangers \cup {n}
        /\ UNCHANGED <<note, addressee, echoed, forwarded, halfRead, known, recorded, spawned, marker, ensure,
                       typed, got, unsaved, crashes>>
    BY <1>2 DEF Mail!DropStranger, Mail!mail, Mail!sessions, Mail!default
  <2>2. got \in [Notes -> Nat] /\ recorded \in SUBSET (1 .. spawned) /\ known \in SUBSET (known \cup recorded)
    BY DEF MailInv, MailTyped, SessionsTyped
  <2> QED
    BY <2>1, <2>2, SettleStep
<1>3. CASE Mail!Forward(n)
  <2>1. /\ Mail!Considering(n) /\ Mail!Settle(n) /\ Mail!Deliver(n)
        /\ UNCHANGED <<note, addressee, echoed, forwarded, halfRead, strangers, spawned, marker, ensure,
                       typed, unsaved, crashes>>
    BY <1>3 DEF Mail!Forward, Mail!mail, Mail!default
  <2> QED
    BY <2>1, Delivered, SettleStep
<1>4. CASE Mail!ForwardFails(n)
  <2> USE DEF MailInv
  <2>1. /\ pump' = [pump EXCEPT !.todo = @ \ {n}]
        /\ known' = known \cup recorded
        /\ UNCHANGED <<note, addressee, echoed, forwarded, halfRead, strangers, recorded, spawned, marker, ensure,
                       typed, got, unsaved, crashes>>
    BY <1>4 DEF Mail!ForwardFails, Mail!DeliverFails, Mail!Hydrated, Mail!mail, Mail!default
  <2>2. pump'.at = pump.at /\ pump'.todo = pump.todo \ {n} /\ pump'.work = pump.work
    BY <2>1 DEF MailTyped
  <2>3. MailTyped'
    BY <2>1 DEF MailTyped
  <2>4. SessionsTyped'
    BY <2>1 DEF SessionsTyped
  <2>5. PumpKeeps'
    BY <2>1, <2>2 DEF PumpKeeps
  <2>6. Mail!NeverSkipped'
    BY <2>1, <2>2 DEF Mail!NeverSkipped
  <2>7. DeliveriesAreAccounted'
    BY <2>1, <2>2 DEF DeliveriesAreAccounted, BySend, ByTick, ByCrash, NotOf
  <2> QED
    BY <2>3, <2>4, <2>5, <2>6, <2>7
<1> QED
  BY <1>1, <1>2, <1>3, <1>4 DEF Mail!Consider

LEMMA SaveStep ==
    ASSUME MailInv, Mail!TickSaves
    PROVE  MailInv'
<1> USE DEF MailInv
<1>1. /\ pump.at = "scan" /\ pump' = Mail!Resting /\ forwarded' = pump.work
      /\ UNCHANGED <<note, addressee, echoed, halfRead, strangers, known, recorded, spawned, marker, ensure,
                     typed, got, unsaved, crashes>>
  BY DEF Mail!TickSaves, Mail!mail, Mail!sessions, Mail!default
<1>2. pump'.at = "rest" /\ pump'.todo = {} /\ pump'.work = {} /\ forwarded' \cup pump'.work = forwarded \cup pump.work
  BY <1>1 DEF Mail!Resting, PumpKeeps
<1>3. MailTyped'
  BY <1>1 DEF MailTyped, Mail!Resting
<1>4. SessionsTyped'
  BY <1>1 DEF SessionsTyped
<1>5. PumpKeeps'
  BY <1>1, <1>2 DEF PumpKeeps
<1>6. Mail!NeverSkipped'
  BY <1>1, <1>2 DEF Mail!NeverSkipped
<1>7. DeliveriesAreAccounted'
  BY <1>1, <1>2 DEF DeliveriesAreAccounted, BySend, ByTick, ByCrash, NotOf
<1> QED
  BY <1>3, <1>4, <1>5, <1>6, <1>7

LEMMA SendStep ==
    ASSUME MailInv, Mail!Send
    PROVE  MailInv'
<1> USE DEF MailInv
<1> DEFINE n == typed.note
<1>1. /\ typed.at = "send" /\ typed' = Mail!NotTyped
      /\ UNCHANGED <<note, addressee, echoed, forwarded, pump, halfRead, strangers, spawned, marker, ensure,
                     unsaved, crashes>>
      /\ Mail!Deliver(n) \/ Mail!DeliverFails
  BY DEF Mail!Send, Mail!mail, Mail!pumpVars, Mail!default
<1>2. n \in Notes /\ n \in echoed /\ ~NotOf(n) /\ \A m : NotOf(m)'
  BY <1>1 DEF MailTyped, PumpKeeps, NotOf, Mail!NotTyped
<1> HIDE DEF n
<1>3. /\ got' \in [Notes -> Nat] /\ got'[n] \in {got[n], got[n] + 1}
      /\ \A m \in Notes : got'[m] = IF m = n THEN got'[n] ELSE got[m]
      /\ known' \in SUBSET (known \cup recorded) /\ recorded' \in SUBSET (1 .. spawned)
  <2>1. CASE Mail!Deliver(n)
    BY <1>2, <2>1, Delivered
  <2>2. CASE Mail!DeliverFails
    BY <1>2, <2>2 DEF Mail!DeliverFails, Mail!Hydrated, MailTyped, SessionsTyped
  <2> QED
    BY <1>1, <2>1, <2>2
<1>4. MailTyped'
  BY <1>1, <1>3 DEF MailTyped, Mail!NotTyped, Positions
<1>5. SessionsTyped'
  BY <1>1, <1>3 DEF SessionsTyped
<1>6. PumpKeeps'
  BY <1>1 DEF PumpKeeps, Mail!NotTyped
<1>7. \A m \in Notes : got[m] \in Nat /\ got'[m] \in Nat /\ got[m] <= got'[m]
  BY <1>2, <1>3 DEF MailTyped
<1>8. Mail!NeverSkipped'
  <2>1. \A m \in forwarded \cup pump.work : m \in Notes
    BY DEF MailTyped
  <2> QED
    BY <1>1, <1>7, <2>1 DEF Mail!NeverSkipped
<1>9. DeliveriesAreAccounted'
  <2>1. ASSUME NEW m \in Notes PROVE got'[m] <= BySend(m)' + ByTick(m)' + ByCrash(m)'
    <3>1. got[m] <= BySend(m) + ByTick(m) + ByCrash(m)
      BY DEF DeliveriesAreAccounted
    <3>2. ByTick(m)' = ByTick(m) /\ ByCrash(m)' = ByCrash(m) /\ ByTick(m) \in Nat /\ ByCrash(m) \in Nat
      BY <1>1 DEF ByTick, ByCrash, MailTyped
    <3>3. BySend(m) \in 0 .. 1 /\ BySend(m)' \in 0 .. 1 /\ BySend(m) <= BySend(m)'
      BY <1>1, <1>2 DEF BySend
    <3>4. m = n => BySend(m) = 0 /\ BySend(m)' = 1
      BY <1>1, <1>2 DEF BySend
    <3>5. CASE m = n
      <4>1. got'[m] <= got[m] + 1
        BY <1>3, <1>7, <3>5
      <4> QED
        BY <1>7, <3>1, <3>2, <3>4, <3>5, <4>1
    <3>6. CASE m # n
      <4>1. got'[m] = got[m]
        BY <1>3, <3>6
      <4> QED
        BY <1>7, <3>1, <3>2, <3>3, <4>1
    <3> QED
      BY <3>5, <3>6
  <2> QED
    BY <2>1 DEF DeliveriesAreAccounted
<1> QED
  BY <1>4, <1>5, <1>6, <1>8, <1>9

LEMMA CrashStep ==
    ASSUME MailInv, Mail!Crash
    PROVE  MailInv'
<1> USE DEF MailInv
<1>1. /\ crashes' = crashes + 1 /\ known' = {} /\ ensure' = Mail!Asked
      /\ typed' = Mail!NotTyped /\ pump' = Mail!Resting
      /\ UNCHANGED <<note, addressee, echoed, halfRead, strangers, recorded, spawned, marker, got>>
      /\ \/ forwarded' = forwarded /\ unsaved' = unsaved \cup (pump.work \ forwarded)
         \/ /\ pump.at = "scan" /\ forwarded' \in SUBSET pump.work /\ unsaved' = unsaved \cup pump.work
  BY DEF Mail!Crash, Mail!mail
<1>2. /\ forwarded' \subseteq forwarded \cup pump.work
      /\ forwarded \cup pump.work \subseteq forwarded' \cup unsaved'
      /\ unsaved' \in SUBSET Notes /\ unsaved \subseteq unsaved'
  BY <1>1 DEF PumpKeeps, MailTyped
<1>3. pump'.at = "rest" /\ pump'.todo = {} /\ pump'.work = {} /\ \A m : NotOf(m)'
  BY <1>1 DEF Mail!Resting, Mail!NotTyped, NotOf
<1>4. MailTyped'
  BY <1>1, <1>2 DEF MailTyped, Mail!Resting, Mail!NotTyped, Positions
<1>5. SessionsTyped'
  BY <1>1 DEF SessionsTyped, Mail!Asked, Mail!NoMarker
<1>6. PumpKeeps'
  BY <1>1, <1>2, <1>3 DEF PumpKeeps, Mail!NotTyped
<1>7. Mail!NeverSkipped'
  BY <1>1, <1>2, <1>3 DEF Mail!NeverSkipped
<1>8. DeliveriesAreAccounted'
  <2>1. ASSUME NEW m \in Notes PROVE got'[m] <= BySend(m)' + ByTick(m)' + ByCrash(m)'
    <3>1. got[m] <= BySend(m) + ByTick(m) + ByCrash(m) /\ got'[m] = got[m] /\ got[m] \in Nat /\ crashes \in Nat
      BY <1>1 DEF DeliveriesAreAccounted, MailTyped
    <3>2. BySend(m) \in 0 .. 1 /\ BySend(m)' \in 0 .. 1 /\ BySend(m) <= BySend(m)'
      BY <1>1, <1>3 DEF BySend
    <3>3. ByTick(m) \in 0 .. 1 /\ ByTick(m)' \in 0 .. 1
      BY DEF ByTick
    <3>4. CASE m \in unsaved'
      <4>1. ByCrash(m)' = crashes + 1 /\ ByCrash(m) \in Nat /\ ByCrash(m) <= crashes
        BY <1>1, <3>1, <3>4 DEF ByCrash
      <4> QED
        BY <3>1, <3>2, <3>3, <4>1
    <3>5. CASE m \notin unsaved'
      <4>1. ByCrash(m)' = 0 /\ ByCrash(m) = 0
        BY <1>2, <3>5 DEF ByCrash
      <4>2. ByTick(m) <= ByTick(m)'
        BY <1>2, <3>5 DEF ByTick
      <4> QED
        BY <3>1, <3>2, <3>3, <4>1, <4>2
    <3> QED
      BY <3>4, <3>5
  <2> QED
    BY <2>1 DEF DeliveriesAreAccounted
<1> QED
  BY <1>4, <1>5, <1>6, <1>7, <1>8

LEMMA MailStep == MailInv /\ [Mail!Next]_(Mail!vars) => MailInv'
<1> SUFFICES ASSUME MailInv, [Mail!Next]_(Mail!vars) PROVE MailInv'
  OBVIOUS
<1>1. CASE UNCHANGED Mail!vars
  <2>1. UNCHANGED <<note, addressee, echoed, forwarded, pump, halfRead, strangers, known, recorded, spawned,
                    marker, ensure, typed, got, unsaved, crashes>>
    BY <1>1 DEF Mail!vars, Mail!mail, Mail!pumpVars, Mail!sessions, Mail!default
  <2> USE DEF MailInv
  <2>2. MailTyped'
    BY <2>1 DEF MailTyped
  <2>3. SessionsTyped'
    BY <2>1 DEF SessionsTyped
  <2>4. PumpKeeps'
    BY <2>1 DEF PumpKeeps
  <2>5. Mail!NeverSkipped'
    BY <2>1 DEF Mail!NeverSkipped
  <2>6. DeliveriesAreAccounted'
    BY <2>1 DEF DeliveriesAreAccounted, BySend, ByTick, ByCrash, NotOf
  <2> QED
    BY <2>2, <2>3, <2>4, <2>5, <2>6
<1>2. CASE \E n \in Notes, to \in Mail!Sessions \cup {Mail!Display} : Mail!Post(n, to) \/ Mail!Type(n, to)
  BY <1>2, PostStep
<1>3. CASE \E n \in Notes : Mail!Written(n) \/ Mail!Consider(n)
  <2>1. PICK n \in Notes : Mail!Written(n) \/ Mail!Consider(n)
    BY <1>3
  <2>2. Mail!Display \in Mail!Sessions \cup {Mail!Display}
    OBVIOUS
  <2> QED
    BY <2>1, <2>2, PostStep, ConsiderStep
<1>4. CASE Mail!List \/ Mail!SpawnElsewhere \/ (\E s \in Mail!Sessions : Mail!Archive(s))
             \/ Mail!EnsureReturns \/ Mail!EnsureSpawns \/ Mail!Mark
  BY <1>4, SessionStep
<1>5. CASE Mail!TickStarts \/ Mail!TickSaves
  BY <1>5, TickStart, SaveStep
<1>6. CASE Mail!Echoed \/ Mail!Send
  BY <1>6, EchoStep, SendStep
<1>7. CASE Mail!Crash
  BY <1>7, CrashStep
<1> QED
  BY <1>1, <1>2, <1>3, <1>4, <1>5, <1>6, <1>7 DEF Mail!Next

LEMMA MailSound == MailInv => Mail!TypeOK /\ Mail!NeverSkipped /\ Mail!OnceUnlessExplained
<1> SUFFICES ASSUME MailInv PROVE Mail!TypeOK /\ Mail!NeverSkipped /\ Mail!OnceUnlessExplained
  OBVIOUS
<1> USE DEF MailInv
<1>1. Mail!TypeOK
  BY DEF MailTyped, SessionsTyped, Mail!TypeOK
<1>2. Mail!OnceUnlessExplained
  <2>1. ASSUME NEW n \in Notes
        PROVE  got[n] <= 1 + (IF n \in echoed THEN 1 ELSE 0) + (IF n \in unsaved THEN crashes ELSE 0)
    <3>1. got[n] <= BySend(n) + ByTick(n) + ByCrash(n) /\ got[n] \in Nat /\ ByCrash(n) \in Nat
      BY DEF DeliveriesAreAccounted, MailTyped, ByCrash
    <3>2. BySend(n) \in 0 .. 1 /\ BySend(n) <= (IF n \in echoed THEN 1 ELSE 0) /\ ByTick(n) \in 0 .. 1
      BY DEF BySend, ByTick
    <3> QED
      BY <3>1, <3>2 DEF ByCrash
  <2> QED
    BY <2>1 DEF Mail!OnceUnlessExplained
<1> QED
  BY <1>1, <1>2

(***************************************************************************)
(* For any number of messages, sessions and deaths of the process: what    *)
(* the pump has marked forwarded has reached its session or has a recorded *)
(* reason not to, and no message reached its session more often than its   *)
(* chat's send, one tick, and the ticks that died unsaved explain          *)
(* (tools/workflow/inbox_pump.py, node_types/chat_router.py).              *)
(***************************************************************************)
THEOREM ForwardingIsExact ==
    Mail!Spec => [](Mail!TypeOK /\ Mail!NeverSkipped /\ Mail!OnceUnlessExplained)
<1>1. Mail!Init => MailInv
  BY MailStart
<1>2. MailInv /\ [Mail!Next]_(Mail!vars) => MailInv'
  BY MailStep
<1>3. MailInv => Mail!TypeOK /\ Mail!NeverSkipped /\ Mail!OnceUnlessExplained
  BY MailSound
<1> QED
  BY <1>1, <1>2, <1>3, PTL DEF Mail!Spec

-----------------------------------------------------------------------------
(* The queue of ideas. *)

Reports == {Idea!Nothing} \cup {Idea!Report(cmd, list) : cmd \in Idea!Commands, list \in Seq(Ideas)}
Calls == [at : {"idle", "open", "write", "report", "answer"}, cmd : Idea!Commands, loaded : Seq(Ideas),
          told : Reports, own : Reports]

IdeaTyped ==
    /\ queue \in Seq(Ideas) /\ ideal \in Seq(Ideas) /\ mixed \in BOOLEAN
    /\ call \in [Idea!Callers -> Calls]
    /\ \A c \in Idea!Callers : call[c].at \in {"open", "write"} => Idea!Applies(call[c].cmd, call[c].loaded)
    /\ view \in [Idea!Engines -> [Idea!Verbs -> Reports]]

(* While commands come one after another, one caller is busy at the most,   *)
(* what it works with is the queue as it should be, and it will read what   *)
(* it has reported.                                                         *)
OneByOne ==
    ~mixed =>
      /\ \A c, d \in Idea!Busy : c = d
      /\ \A c \in Idea!Callers :
            /\ call[c].at = "idle" => call[c].told = call[c].own
            /\ call[c].at \in {"open", "write"} => call[c].loaded = ideal
            /\ call[c].at = "write" => queue = <<>>
            /\ call[c].at = "answer" => view[Idea!Engine(c)][call[c].cmd.verb] = call[c].own
      /\ (\A c \in Idea!Callers : call[c].at # "write") => queue = ideal

IdeaInv == IdeaTyped /\ OneByOne

(* What a command makes of a queue of ideas is one. *)
LEMMA ChangedIsQueue ==
    ASSUME NEW cmd \in Idea!Commands, NEW list \in Seq(Ideas)
    PROVE  Idea!Changed(cmd, list) \in Seq(Ideas)
<1>0. CASE ~Idea!Applies(cmd, list)
  BY <1>0 DEF Idea!Changed
<1> USE DEF Idea!Applies
<1>1. CASE Idea!Applies(cmd, list) /\ cmd.verb = "add"
  <2>1. cmd.idea \in Ideas
    BY <1>1 DEF Idea!Commands
  <2> QED
    BY <1>1, <2>1, AppendProperties DEF Idea!Changed
<1>2. CASE Idea!Applies(cmd, list) /\ cmd.verb = "delete"
  <2>1. cmd.at \in 1 .. Len(list) /\ Len(list) \in Nat
    BY <1>2, LenProperties DEF Idea!Applies
  <2>2. SubSeq(list, 1, cmd.at - 1) \in Seq(Ideas) /\ SubSeq(list, cmd.at + 1, Len(list)) \in Seq(Ideas)
    BY <2>1, SubSeqProperties
  <2>3. Idea!Changed(cmd, list) = SubSeq(list, 1, cmd.at - 1) \o SubSeq(list, cmd.at + 1, Len(list))
    BY <1>2 DEF Idea!Changed, Idea!RemoveAt
  <2> QED
    BY <2>2, <2>3, ConcatProperties
<1>3. CASE Idea!Applies(cmd, list) /\ cmd.verb \in {"up", "down"}
  <2>1. cmd.at \in DOMAIN list /\ Idea!Other(cmd) \in DOMAIN list
    BY <1>3 DEF Idea!Applies
  <2>2. Idea!Changed(cmd, list) = [list EXCEPT ![cmd.at] = list[Idea!Other(cmd)], ![Idea!Other(cmd)] = list[cmd.at]]
    BY <1>3 DEF Idea!Changed
  <2>3. \A i \in DOMAIN list : list[i] \in Ideas
    BY ElementOfSeq, LenProperties
  <2> DEFINE one == [list EXCEPT ![cmd.at] = list[Idea!Other(cmd)]]
  <2>4. one \in Seq(Ideas) /\ DOMAIN one = DOMAIN list
    BY <2>1, <2>3, ExceptSeq
  <2>5. [one EXCEPT ![Idea!Other(cmd)] = list[cmd.at]] \in Seq(Ideas)
    BY <2>1, <2>3, <2>4, ExceptSeq
  <2> QED
    BY <2>2, <2>5
<1> QED
  BY <1>0, <1>1, <1>2, <1>3 DEF Idea!Commands

LEMMA OverNothing ==
    ASSUME NEW new \in Seq(Ideas)
    PROVE  Idea!Over(new, <<>>) = new
<1>1. Len(new) \in Nat /\ Len(<<>>) = 0
  BY LenProperties
<1>2. SubSeq(<<>>, Len(new) + 1, 0) = <<>>
  BY <1>1
<1> QED
  BY <1>1, <1>2, ConcatEmptySeq DEF Idea!Over

LEMMA OverIsQueue ==
    ASSUME NEW new \in Seq(Ideas), NEW old \in Seq(Ideas)
    PROVE  Idea!Over(new, old) \in Seq(Ideas)
<1>1. Len(new) \in Nat /\ Len(old) \in Nat
  BY LenProperties
<1>2. SubSeq(old, Len(new) + 1, Len(old)) \in Seq(Ideas)
  BY <1>1, SubSeqProperties
<1> QED
  BY <1>2, ConcatProperties DEF Idea!Over

LEMMA CommandsExist == Idea!AnyCommand \in Idea!Commands
<1>1. [verb |-> "delete", at |-> 1] \in Idea!Commands
  BY DEF Idea!Commands
<1> QED
  BY <1>1 DEF Idea!AnyCommand

LEMMA IdeaStart == Idea!Init => IdeaInv
<1> SUFFICES ASSUME Idea!Init PROVE IdeaInv
  OBVIOUS
<1>1. /\ queue = <<>> /\ ideal = <<>> /\ call = [c \in Idea!Callers |-> Idea!Idle]
      /\ view = [e \in Idea!Engines |-> [v \in Idea!Verbs |-> Idea!Nothing]] /\ mixed = FALSE
  BY DEF Idea!Init
<1>2. Idea!AnyCommand \in Idea!Commands
  BY CommandsExist
<1>3. Idea!Nothing \in Reports /\ <<>> \in Seq(Ideas)
  BY EmptySeq DEF Reports
<1>4. Idea!Idle \in Calls /\ Idea!Idle.at = "idle" /\ Idea!Idle.told = Idea!Idle.own
  BY <1>2, <1>3 DEF Idea!Idle, Calls
<1>5. IdeaTyped
  BY <1>1, <1>3, <1>4 DEF IdeaTyped
<1>6. OneByOne
  BY <1>1, <1>4 DEF OneByOne, Idea!Busy
<1> QED
  BY <1>5, <1>6 DEF IdeaInv

LEMMA LoadStep ==
    ASSUME IdeaInv, NEW c \in Idea!Callers, NEW cmd \in Idea!Commands, Idea!Load(c, cmd)
    PROVE  IdeaInv'
<1> USE DEF IdeaInv
<1> DEFINE at == IF Idea!Applies(cmd, queue) THEN "open" ELSE "report"
           own == Idea!Report(cmd, queue)
<1>1. /\ call[c].at = "idle" /\ mixed' = (mixed \/ Idea!Busy # {})
      /\ call' = [call EXCEPT ![c] = [at |-> at, cmd |-> cmd, loaded |-> queue, told |-> call[c].told, own |-> own]]
      /\ UNCHANGED <<queue, view, ideal>>
  BY DEF Idea!Load
<1>2. own \in Reports /\ at \in {"open", "report"} /\ (at = "open" => Idea!Applies(cmd, queue))
  BY DEF Reports, IdeaTyped
<1> HIDE DEF own, at
<1>3. /\ \A d \in Idea!Callers : d # c => call'[d] = call[d]
      /\ call'[c].at = at /\ call'[c].cmd = cmd /\ call'[c].loaded = queue
      /\ call'[c] \in Calls
  BY <1>1, <1>2 DEF IdeaTyped, Calls
<1>4. IdeaTyped'
  <2>1. mixed' \in BOOLEAN
    BY <1>1 DEF IdeaTyped
  <2>2. call' \in [Idea!Callers -> Calls]
    BY <1>1, <1>3 DEF IdeaTyped
  <2>3. \A d \in Idea!Callers : call'[d].at \in {"open", "write"} => Idea!Applies(call'[d].cmd, call'[d].loaded)
    BY <1>2, <1>3 DEF IdeaTyped
  <2> QED
    BY <1>1, <2>1, <2>2, <2>3 DEF IdeaTyped
<1>5. OneByOne'
  <2> SUFFICES ASSUME ~mixed'
               PROVE  OneByOne'
    BY DEF OneByOne
  <2>1. ~mixed /\ \A d \in Idea!Callers : call[d].at = "idle"
    BY <1>1 DEF Idea!Busy
  <2>2. queue = ideal
    BY <2>1 DEF OneByOne
  <2> QED
    BY <1>1, <1>2, <1>3, <2>1, <2>2 DEF OneByOne, Idea!Busy
<1> QED
  BY <1>4, <1>5

(* A step of a caller that is busy: the others are where they were, and if  *)
(* commands have come one by one, they are idle.                            *)
LEMMA Alone ==
    ASSUME IdeaInv, ~mixed, NEW c \in Idea!Callers, call[c].at # "idle"
    PROVE  \A d \in Idea!Callers : d # c => call[d].at = "idle" /\ call[d].told = call[d].own
BY DEF IdeaInv, OneByOne, Idea!Busy

LEMMA WriteSteps ==
    ASSUME IdeaInv, NEW c \in Idea!Callers, Idea!Open(c) \/ Idea!Write(c)
    PROVE  IdeaInv'
<1> USE DEF IdeaInv
<1>1. CASE Idea!Open(c)
  <2>1. /\ call[c].at = "open" /\ queue' = <<>> /\ call' = [call EXCEPT ![c].at = "write"]
        /\ UNCHANGED <<view, ideal, mixed>>
    BY <1>1 DEF Idea!Open
  <2>2. /\ \A d \in Idea!Callers : d # c => call'[d] = call[d]
        /\ call'[c].at = "write" /\ call'[c].cmd = call[c].cmd /\ call'[c].loaded = call[c].loaded
        /\ call'[c] \in Calls
    BY <2>1 DEF IdeaTyped, Calls
  <2>3. IdeaTyped'
    <3>1. call' \in [Idea!Callers -> Calls]
      BY <2>1, <2>2 DEF IdeaTyped
    <3>2. \A d \in Idea!Callers : call'[d].at \in {"open", "write"} => Idea!Applies(call'[d].cmd, call'[d].loaded)
      BY <2>1, <2>2 DEF IdeaTyped
    <3> QED
      BY <2>1, <3>1, <3>2, EmptySeq DEF IdeaTyped
  <2>4. OneByOne'
    <3> SUFFICES ASSUME ~mixed' PROVE OneByOne'
      BY DEF OneByOne
    <3>1. ~mixed /\ call[c].loaded = ideal
      BY <2>1 DEF OneByOne
    <3>2. \A d \in Idea!Callers : d # c => call[d].at = "idle" /\ call[d].told = call[d].own
      BY <2>1, <3>1, Alone
    <3> QED
      BY <2>1, <2>2, <3>1, <3>2 DEF OneByOne, Idea!Busy
  <2> QED
    BY <2>3, <2>4
<1>2. CASE Idea!Write(c)
  <2> DEFINE new == Idea!Changed(call[c].cmd, call[c].loaded)
  <2>1. /\ call[c].at = "write" /\ queue' = Idea!Over(new, queue) /\ ideal' = Idea!Changed(call[c].cmd, ideal)
        /\ call' = [call EXCEPT ![c].at = "report"]
        /\ UNCHANGED <<view, mixed>>
    BY <1>2 DEF Idea!Write
  <2>2. /\ \A d \in Idea!Callers : d # c => call'[d] = call[d]
        /\ call'[c].at = "report" /\ call'[c].cmd = call[c].cmd /\ call'[c].loaded = call[c].loaded
        /\ call'[c] \in Calls
    BY <2>1 DEF IdeaTyped, Calls
  <2>3. new \in Seq(Ideas)
    BY <2>1, ChangedIsQueue DEF IdeaTyped, Calls
  <2>4. queue' \in Seq(Ideas)
    BY <2>1, <2>3, OverIsQueue DEF IdeaTyped
  <2> HIDE DEF new
  <2>5. IdeaTyped'
    <3>1. call' \in [Idea!Callers -> Calls]
      BY <2>1, <2>2 DEF IdeaTyped
    <3>2. \A d \in Idea!Callers : call'[d].at \in {"open", "write"} => Idea!Applies(call'[d].cmd, call'[d].loaded)
      BY <2>1, <2>2 DEF IdeaTyped
    <3>3. ideal' \in Seq(Ideas)
      BY <2>1, ChangedIsQueue DEF IdeaTyped, Calls
    <3> QED
      BY <2>1, <2>4, <3>1, <3>2, <3>3 DEF IdeaTyped
  <2>6. OneByOne'
    <3> SUFFICES ASSUME ~mixed' PROVE OneByOne'
      BY DEF OneByOne
    <3>1. ~mixed /\ call[c].loaded = ideal /\ queue = <<>>
      BY <2>1 DEF OneByOne
    <3>2. queue' = ideal'
      BY <2>1, <2>3, <3>1, OverNothing DEF new
    <3>3. \A d \in Idea!Callers : d # c => call[d].at = "idle" /\ call[d].told = call[d].own
      BY <2>1, <3>1, Alone
    <3> QED
      BY <2>1, <2>2, <3>1, <3>2, <3>3 DEF OneByOne, Idea!Busy
  <2> QED
    BY <2>5, <2>6
<1> QED
  BY <1>1, <1>2

LEMMA AnswerSteps ==
    ASSUME IdeaInv, NEW c \in Idea!Callers, Idea!ReportTo(c) \/ Idea!Answer(c)
    PROVE  IdeaInv'
<1> USE DEF IdeaInv
<1> DEFINE e == Idea!Engine(c)
           verb == call[c].cmd.verb
<1>0. e \in Idea!Engines /\ verb \in Idea!Verbs
  BY DEF Idea!Engines, IdeaTyped, Calls, Idea!Commands, Idea!Verbs
<1>1. CASE Idea!ReportTo(c)
  <2>1. /\ call[c].at = "report" /\ view' = [view EXCEPT ![e][verb] = call[c].own]
        /\ call' = [call EXCEPT ![c].at = "answer"]
        /\ UNCHANGED <<queue, ideal, mixed>>
    BY <1>1 DEF Idea!ReportTo
  <2>2. /\ \A d \in Idea!Callers : d # c => call'[d] = call[d]
        /\ call'[c].at = "answer" /\ call'[c].cmd = call[c].cmd /\ call'[c].own = call[c].own
        /\ call'[c] \in Calls /\ call[c].own \in Reports
    BY <2>1 DEF IdeaTyped, Calls
  <2> HIDE DEF e, verb
  <2>3. view' \in [Idea!Engines -> [Idea!Verbs -> Reports]] /\ view'[e][verb] = call[c].own
    BY <1>0, <2>1, <2>2 DEF IdeaTyped
  <2>4. IdeaTyped'
    <3>1. call' \in [Idea!Callers -> Calls]
      BY <2>1, <2>2 DEF IdeaTyped
    <3>2. \A d \in Idea!Callers : call'[d].at \in {"open", "write"} => Idea!Applies(call'[d].cmd, call'[d].loaded)
      BY <2>1, <2>2 DEF IdeaTyped
    <3> QED
      BY <2>1, <2>3, <3>1, <3>2 DEF IdeaTyped
  <2>5. OneByOne'
    <3> SUFFICES ASSUME ~mixed' PROVE OneByOne'
      BY DEF OneByOne
    <3>1. \A d \in Idea!Callers : d # c => call[d].at = "idle" /\ call[d].told = call[d].own
      BY <2>1, Alone
    <3>2. queue = ideal
      BY <2>1, <3>1 DEF OneByOne
    <3> QED
      BY <2>1, <2>2, <2>3, <3>1, <3>2 DEF OneByOne, Idea!Busy, e, verb
  <2> QED
    BY <2>4, <2>5
<1>2. CASE Idea!Answer(c)
  <2>1. /\ call[c].at = "answer"
        /\ call' = [call EXCEPT ![c].at = "idle", ![c].told = view[e][verb]]
        /\ UNCHANGED <<queue, view, ideal, mixed>>
    BY <1>2 DEF Idea!Answer
  <2> HIDE DEF e, verb
  <2>2. view[e][verb] \in Reports
    BY <1>0 DEF IdeaTyped
  <2>3. /\ \A d \in Idea!Callers : d # c => call'[d] = call[d]
        /\ call'[c].at = "idle" /\ call'[c].told = view[e][verb] /\ call'[c].own = call[c].own
        /\ call'[c] \in Calls
    BY <2>1, <2>2 DEF IdeaTyped, Calls
  <2>4. IdeaTyped'
    <3>1. call' \in [Idea!Callers -> Calls]
      BY <2>1, <2>3 DEF IdeaTyped
    <3>2. \A d \in Idea!Callers : call'[d].at \in {"open", "write"} => Idea!Applies(call'[d].cmd, call'[d].loaded)
      BY <2>1, <2>3 DEF IdeaTyped
    <3> QED
      BY <2>1, <3>1, <3>2 DEF IdeaTyped
  <2>5. OneByOne'
    <3> SUFFICES ASSUME ~mixed' PROVE OneByOne'
      BY DEF OneByOne
    <3>1. \A d \in Idea!Callers : d # c => call[d].at = "idle" /\ call[d].told = call[d].own
      BY <2>1, Alone
    <3>2. queue = ideal /\ view[e][verb] = call[c].own
      BY <2>1, <3>1 DEF OneByOne, e, verb
    <3> QED
      BY <2>1, <2>3, <3>1, <3>2 DEF OneByOne, Idea!Busy
  <2> QED
    BY <2>4, <2>5
<1> QED
  BY <1>1, <1>2

LEMMA BreakSteps ==
    ASSUME IdeaInv, NEW c \in Idea!Callers, Idea!Fail(c) \/ Idea!Kill(c)
    PROVE  IdeaInv'
<1> USE DEF IdeaInv
<1>1. mixed' = TRUE
  BY DEF Idea!Fail, Idea!Kill
<1>2. OneByOne'
  BY <1>1 DEF OneByOne
<1>3. Idea!Nothing \in Reports
  BY DEF Reports
<1>4. CASE Idea!Fail(c)
  <2>1. /\ call' = [call EXCEPT ![c].at = "answer", ![c].own = Idea!Nothing]
        /\ UNCHANGED <<queue, view, ideal>>
    BY <1>4 DEF Idea!Fail
  <2>2. /\ \A d \in Idea!Callers : d # c => call'[d] = call[d]
        /\ call'[c].at = "answer" /\ call'[c] \in Calls
    BY <1>3, <2>1 DEF IdeaTyped, Calls
  <2>3. call' \in [Idea!Callers -> Calls]
    BY <2>1, <2>2 DEF IdeaTyped
  <2>4. \A d \in Idea!Callers : call'[d].at \in {"open", "write"} => Idea!Applies(call'[d].cmd, call'[d].loaded)
    BY <2>1, <2>2 DEF IdeaTyped
  <2>5. IdeaTyped'
    BY <1>1, <2>1, <2>3, <2>4 DEF IdeaTyped
  <2> QED
    BY <1>2, <2>5
<1>5. CASE Idea!Kill(c)
  <2>1. /\ call' = [call EXCEPT ![c] = Idea!Idle]
        /\ view' = [view EXCEPT ![c] = [v \in Idea!Verbs |-> Idea!Nothing]]
        /\ UNCHANGED <<queue, ideal>>
    BY <1>5 DEF Idea!Kill
  <2>2. Idea!AnyCommand \in Idea!Commands
    BY CommandsExist
  <2>3. Idea!Idle \in Calls /\ Idea!Idle.at = "idle"
    BY <1>3, <2>2, EmptySeq DEF Idea!Idle, Calls
  <2>4. call' \in [Idea!Callers -> Calls]
    BY <2>1, <2>3 DEF IdeaTyped
  <2>5. \A d \in Idea!Callers : call'[d].at \in {"open", "write"} => Idea!Applies(call'[d].cmd, call'[d].loaded)
    BY <2>1, <2>3 DEF IdeaTyped
  <2>6. view' \in [Idea!Engines -> [Idea!Verbs -> Reports]]
    BY <1>3, <2>1 DEF IdeaTyped
  <2>7. IdeaTyped'
    BY <1>1, <2>1, <2>4, <2>5, <2>6 DEF IdeaTyped
  <2> QED
    BY <1>2, <2>7
<1> QED
  BY <1>4, <1>5

LEMMA IdeaStep == IdeaInv /\ [Idea!Next]_(Idea!vars) => IdeaInv'
<1> SUFFICES ASSUME IdeaInv, [Idea!Next]_(Idea!vars) PROVE IdeaInv'
  OBVIOUS
<1>1. CASE UNCHANGED Idea!vars
  <2>1. UNCHANGED <<queue, call, view, ideal, mixed>>
    BY <1>1 DEF Idea!vars
  <2>2. IdeaTyped'
    BY <2>1 DEF IdeaInv, IdeaTyped
  <2>3. OneByOne'
    BY <2>1 DEF IdeaInv, OneByOne, Idea!Busy
  <2> QED
    BY <2>2, <2>3 DEF IdeaInv
<1>2. CASE Idea!Next
  BY <1>2, LoadStep, WriteSteps, AnswerSteps, BreakSteps DEF Idea!Next
<1> QED
  BY <1>1, <1>2

LEMMA IdeaSound == IdeaInv => IdeasAreKept
<1> SUFFICES ASSUME IdeaInv PROVE IdeasAreKept
  OBVIOUS
<1> USE DEF IdeaInv
<1>1. Idea!TypeOK
  <2>1. DOMAIN view = Idea!Engines
    BY DEF IdeaTyped
  <2>2. \A c \in Idea!Callers :
           /\ call[c].at \in {"idle", "open", "write", "report", "answer"}
           /\ call[c].cmd \in Idea!Commands /\ call[c].loaded \in Seq(Ideas)
           /\ call[c].at \in {"open", "write"} => Idea!Applies(call[c].cmd, call[c].loaded)
    BY DEF IdeaTyped, Calls
  <2> QED
    BY <2>1, <2>2 DEF IdeaTyped, Idea!TypeOK
<1>2. Idea!SerialIsExact
  BY DEF OneByOne, Idea!SerialIsExact, Idea!Settled
<1>3. Idea!AnswersAreOwn
  BY DEF OneByOne, Idea!AnswersAreOwn
<1> QED
  BY <1>1, <1>2, <1>3 DEF IdeasAreKept, Idea!IdeasAreKept

(***************************************************************************)
(* For any tabs, processes, ideas and number of commands: as long as none  *)
(* overlapped and none failed, the file is the queue those commands make   *)
(* of a list, and each was told what became of it                          *)
(* (node_types/idea_queue.py under tools/workflow_streamlit/commands.py).  *)
(***************************************************************************)
THEOREM IdeasKeep == Idea!Spec => []IdeasAreKept
<1>1. Idea!Init => IdeaInv
  BY IdeaStart
<1>2. IdeaInv /\ [Idea!Next]_(Idea!vars) => IdeaInv'
  BY IdeaStep
<1>3. IdeaInv => IdeasAreKept
  BY IdeaSound
<1> QED
  BY <1>1, <1>2, <1>3, PTL DEF Idea!Spec

-----------------------------------------------------------------------------
(* The mail notifier. *)

Places == {"unraised", "gate", "connect", "hand over", "quit", "quit dry", "pend", "log",
           "returned", "raised", "killed"}
Rows == Sends \cup {Mailer!Cut}

MailerTyped ==
    /\ config \in Mailer!Configs /\ kills \in Nat /\ faults \in Nat
    /\ pending \in Seq(Rows) /\ sendlog \in Seq([trigger : Sends, sent : BOOLEAN])
    /\ mailbox \in [Sends -> {0, 1}]
    /\ send \in [Sends -> [at : Places, dry : BOOLEAN, cfg : Mailer!Configs, sent : BOOLEAN]]

Pended(k) == \E i \in DOMAIN pending : pending[i] = k
Wants(r) == r.cfg.enabled /\ r.cfg.complete /\ r.cfg.valid /\ ~r.dry

(* Where a call is says what has become of its trigger. *)
CallIsTrue(k) ==
    /\ mailbox[k] = 1 => send[k].at \in {"quit", "log", "returned", "raised", "killed"} /\ Wants(send[k])
    /\ send[k].at \in {"gate", "connect", "hand over", "quit", "quit dry"} => send[k].cfg.valid
    /\ send[k].at \in {"connect", "hand over", "quit", "quit dry"} =>
          send[k].cfg.complete /\ (send[k].cfg.enabled \/ send[k].dry)
    /\ send[k].at \in {"hand over", "quit"} => ~send[k].dry
    /\ send[k].at = "quit" => mailbox[k] = 1
    /\ send[k].at \in {"gate", "connect", "hand over", "quit", "quit dry", "pend"} => ~send[k].sent
    /\ send[k].at \in {"log", "returned"} =>
          (send[k].sent <=> mailbox[k] = 1) /\ (mailbox[k] = 0 => Pended(k))
    /\ Pended(k) => mailbox[k] = 0 /\ send[k].at \in {"log", "returned", "killed"}
CallsAreTrue == \A k \in Sends : CallIsTrue(k)

(* A row of the log is one of a call that has returned; cut rows are left   *)
(* by killed processes only.                                                *)
RowIsTrue(i) ==
    /\ sendlog[i].trigger \in Sends /\ send[sendlog[i].trigger].at = "returned"
    /\ sendlog[i].sent <=> mailbox[sendlog[i].trigger] = 1
LogIsTrue == \A i \in DOMAIN sendlog : RowIsTrue(i)
Cuts == {i \in DOMAIN pending : pending[i] = Mailer!Cut}
CutsAreKills == Cardinality(Cuts) <= kills

MailerInv == MailerTyped /\ CallsAreTrue /\ LogIsTrue /\ CutsAreKills

LEMMA MailerStart == Mailer!Init => MailerInv
<1> SUFFICES ASSUME Mailer!Init PROVE MailerInv
  OBVIOUS
<1>1. /\ config = Mailer!Default /\ pending = <<>> /\ sendlog = <<>>
      /\ mailbox = [k \in Sends |-> 0] /\ send = [k \in Sends |-> Mailer!Unraised] /\ faults = 0 /\ kills = 0
  BY DEF Mailer!Init
<1>2. Mailer!Default \in Mailer!Configs
  BY DEF Mailer!Default, Mailer!Configs
<1>3. Mailer!Unraised \in [at : Places, dry : BOOLEAN, cfg : Mailer!Configs, sent : BOOLEAN]
      /\ Mailer!Unraised.at = "unraised"
  BY <1>2 DEF Mailer!Unraised, Places
<1>4. MailerTyped
  BY <1>1, <1>2, <1>3, EmptySeq DEF MailerTyped
<1>5. CallsAreTrue
  <2>1. ASSUME NEW k \in Sends PROVE CallIsTrue(k)
    <3>1. mailbox[k] = 0 /\ send[k].at = "unraised" /\ ~Pended(k)
      BY <1>1, <1>3 DEF Pended
    <3> QED
      BY <3>1 DEF CallIsTrue
  <2> QED
    BY <2>1 DEF CallsAreTrue
<1>6. LogIsTrue
  BY <1>1 DEF LogIsTrue
<1>7. CutsAreKills
  <2>1. Cuts = {} /\ Cardinality({}) = 0
    BY <1>1, FS_EmptySet DEF Cuts
  <2> QED
    BY <1>1, <2>1 DEF CutsAreKills
<1> QED
  BY <1>4, <1>5, <1>6, <1>7 DEF MailerInv

LEMMA CutsFinite ==
    ASSUME MailerTyped
    PROVE  IsFiniteSet(Cuts) /\ Cardinality(Cuts) \in Nat
<1>1. Len(pending) \in Nat /\ DOMAIN pending = 1 .. Len(pending)
  BY LenProperties DEF MailerTyped
<1>2. IsFiniteSet(1 .. Len(pending))
  BY <1>1, FS_Interval
<1>3. Cuts \subseteq 1 .. Len(pending)
  BY <1>1 DEF Cuts
<1> QED
  BY <1>2, <1>3, FS_Subset, FS_CardinalityType

(* A step of one call that writes neither triggers nor log. *)
LEMMA QuietStep ==
    ASSUME MailerInv, NEW k \in Sends, NEW r \in [at : Places, dry : BOOLEAN, cfg : Mailer!Configs, sent : BOOLEAN],
           send' = [send EXCEPT ![k] = r], send[k].at # "returned",
           mailbox' \in [Sends -> {0, 1}], \A j \in Sends : j # k => mailbox'[j] = mailbox[j],
           CallIsTrue(k)', config' \in Mailer!Configs, faults' \in Nat,
           UNCHANGED <<pending, sendlog, kills>>
    PROVE  MailerInv'
<1> USE DEF MailerInv
<1>1. MailerTyped'
  BY DEF MailerTyped
<1>2. CallsAreTrue'
  <2>1. ASSUME NEW j \in Sends, j # k PROVE CallIsTrue(j)'
    <3>1. CallIsTrue(j) /\ send'[j] = send[j] /\ mailbox'[j] = mailbox[j] /\ Pended(j)' = Pended(j)
      BY <2>1 DEF CallsAreTrue, MailerTyped, Pended
    <3> QED
      BY <3>1 DEF CallIsTrue
  <2> QED
    BY <2>1 DEF CallsAreTrue
<1>3. LogIsTrue'
  <2>1. ASSUME NEW i \in DOMAIN sendlog PROVE RowIsTrue(i)'
    <3> DEFINE j == sendlog[i].trigger
    <3>1. j \in Sends /\ send[j].at = "returned" /\ (sendlog[i].sent <=> mailbox[j] = 1)
      BY DEF LogIsTrue, RowIsTrue
    <3>2. j # k
      BY <3>1
    <3>3. send'[j] = send[j] /\ mailbox'[j] = mailbox[j]
      BY <3>1, <3>2 DEF MailerTyped
    <3> QED
      BY <3>1, <3>3 DEF RowIsTrue
  <2> QED
    BY <2>1 DEF LogIsTrue
<1>4. CutsAreKills'
  BY DEF CutsAreKills, Cuts
<1> QED
  BY <1>1, <1>2, <1>3, <1>4

LEMMA TalkSteps ==
    ASSUME MailerInv, NEW k \in Sends,
           (\E dry \in BOOLEAN : Mailer!Raise(k, dry)) \/ Mailer!Gate(k) \/ Mailer!Connect(k)
             \/ Mailer!HandOver(k) \/ Mailer!SmtpFails(k) \/ Mailer!Quit(k) \/ Mailer!PendFails(k)
    PROVE  MailerInv'
<1> USE DEF MailerInv
<1> DEFINE Record == [at : Places, dry : BOOLEAN, cfg : Mailer!Configs, sent : BOOLEAN]
<1>0. /\ send[k] \in Record /\ mailbox \in [Sends -> {0, 1}] /\ config \in Mailer!Configs /\ faults \in Nat
      /\ mailbox[k] \in {0, 1} /\ CallIsTrue(k)
  BY DEF MailerTyped, CallsAreTrue
<1>p. pending' = pending => (Pended(k)' <=> Pended(k))
  BY DEF Pended
<1>1. CASE \E dry \in BOOLEAN : Mailer!Raise(k, dry)
  <2>1. PICK dry \in BOOLEAN : Mailer!Raise(k, dry)
    BY <1>1
  <2> DEFINE r == [at |-> IF config.valid THEN "gate" ELSE "raised", dry |-> dry, cfg |-> config, sent |-> FALSE]
  <2>2. /\ send[k].at = "unraised" /\ send' = [send EXCEPT ![k] = r]
        /\ UNCHANGED <<config, pending, sendlog, mailbox, faults, kills>>
    BY <2>1 DEF Mailer!Raise, Mailer!At
  <2>3. r \in Record
    BY <1>0 DEF Places
  <2>4. CallIsTrue(k)'
    BY <1>0, <1>p, <2>2 DEF CallIsTrue, MailerTyped
  <2> QED
    BY <1>0, <2>2, <2>3, <2>4, QuietStep
<1>2. CASE Mailer!Gate(k) \/ Mailer!Connect(k) \/ Mailer!SmtpFails(k) \/ Mailer!PendFails(k)
  <2>1. PICK where \in Places :
           /\ send' = [send EXCEPT ![k].at = where]
           /\ \/ send[k].at = "gate" /\ where \in {"pend", "raised"}
              \/ /\ send[k].at = "gate" /\ where = "connect"
                 /\ send[k].cfg.complete /\ (send[k].cfg.enabled \/ send[k].dry)
              \/ send[k].at = "connect" /\ where = IF send[k].dry THEN "quit dry" ELSE "hand over"
              \/ send[k].at \in {"connect", "hand over", "quit", "quit dry", "pend"} /\ where = "raised"
    <3>1. CASE Mailer!Gate(k)
      BY <3>1 DEF Mailer!Gate, Mailer!At, Mailer!Goto, Places
    <3>2. CASE Mailer!Connect(k)
      BY <3>2 DEF Mailer!Connect, Mailer!At, Mailer!Goto, Places
    <3>3. CASE Mailer!SmtpFails(k)
      BY <3>3 DEF Mailer!SmtpFails, Mailer!At, Mailer!Goto, Places
    <3>4. CASE Mailer!PendFails(k)
      BY <3>4 DEF Mailer!PendFails, Mailer!At, Mailer!Goto, Places
    <3> QED
      BY <1>2, <3>1, <3>2, <3>3, <3>4
  <2>2. UNCHANGED <<config, pending, sendlog, mailbox, kills>> /\ faults' \in Nat
    <3>1. CASE Mailer!Gate(k) \/ Mailer!Connect(k)
      BY <1>0, <3>1 DEF Mailer!Gate, Mailer!Connect
    <3>2. CASE Mailer!SmtpFails(k) \/ Mailer!PendFails(k)
      <4>1. faults' = faults + 1 /\ UNCHANGED <<config, pending, sendlog, mailbox, kills>>
        BY <3>2 DEF Mailer!SmtpFails, Mailer!PendFails, Mailer!Faulty
      <4> QED
        BY <1>0, <4>1
    <3> QED
      BY <1>2, <3>1, <3>2
  <2> DEFINE r == [send[k] EXCEPT !.at = where]
  <2>3. send' = [send EXCEPT ![k] = r] /\ r \in Record
    BY <1>0, <2>1
  <2>4. /\ send'[k].at = where /\ send'[k].dry = send[k].dry /\ send'[k].cfg = send[k].cfg
        /\ send'[k].sent = send[k].sent
    BY <1>0, <2>3 DEF MailerTyped
  <2>5. CallIsTrue(k)'
    BY <1>0, <1>p, <2>1, <2>2, <2>4 DEF CallIsTrue, Wants
  <2>6. send[k].at # "returned"
    BY <2>1
  <2> QED
    BY <1>0, <2>2, <2>3, <2>5, <2>6, QuietStep
<1>3. CASE Mailer!HandOver(k)
  <2>1. /\ send[k].at = "hand over" /\ mailbox' = [mailbox EXCEPT ![k] = mailbox[k] + 1]
        /\ send' = [send EXCEPT ![k].at = "quit"] /\ UNCHANGED <<config, pending, sendlog, faults, kills>>
    BY <1>3 DEF Mailer!HandOver, Mailer!At, Mailer!Goto
  <2>2. mailbox[k] = 0
    BY <1>0, <2>1 DEF CallIsTrue
  <2>3. mailbox' \in [Sends -> {0, 1}] /\ mailbox'[k] = 1 /\ \A j \in Sends : j # k => mailbox'[j] = mailbox[j]
    <3>1. mailbox[k] + 1 = 1
      BY <2>2
    <3> QED
      BY <1>0, <2>1, <3>1
  <2> DEFINE r == [send[k] EXCEPT !.at = "quit"]
  <2>4. send' = [send EXCEPT ![k] = r] /\ r \in Record
    BY <1>0, <2>1 DEF Places
  <2>5. /\ send'[k].at = "quit" /\ send'[k].dry = send[k].dry /\ send'[k].cfg = send[k].cfg
        /\ send'[k].sent = send[k].sent
    BY <1>0, <2>4 DEF MailerTyped
  <2>6. CallIsTrue(k)'
    BY <1>0, <1>p, <2>1, <2>3, <2>5 DEF CallIsTrue, Wants
  <2> QED
    BY <1>0, <2>1, <2>3, <2>4, <2>6, QuietStep
<1>4. CASE Mailer!Quit(k) /\ send[k].at = "quit"
  <2> DEFINE r == [send[k] EXCEPT !.at = "log", !.sent = TRUE]
  <2>1. send' = [send EXCEPT ![k] = r] /\ UNCHANGED <<config, pending, sendlog, mailbox, faults, kills>>
    BY <1>0, <1>4 DEF Mailer!Quit
  <2>2. r \in Record
    BY <1>0 DEF Places
  <2>3. send'[k].at = "log" /\ send'[k].dry = send[k].dry /\ send'[k].cfg = send[k].cfg
    BY <1>0, <2>1 DEF MailerTyped
  <2> HIDE DEF r
  <2>4. mailbox[k] = 1 /\ mailbox' = mailbox
    BY <1>0, <1>4, <2>1 DEF CallIsTrue
  <2>5. send'[k].sent <=> mailbox'[k] = 1
    <3>1. send'[k].sent
      BY <1>0, <2>1 DEF MailerTyped, r
    <3> QED
      BY <2>4, <3>1
  <2>6. CallIsTrue(k)'
    <3>1. ~Pended(k) /\ ~Pended(k)'
      <4>1. Pended(k) => mailbox[k] = 0
        BY <1>0, Zenon DEF CallIsTrue
      <4>2. pending' = pending
        BY <2>1
      <4> QED
        BY <1>p, <2>4, <4>1, <4>2
    <3>2. Wants(send[k])
      BY <1>0, <2>4 DEF CallIsTrue
    <3>3. Wants(send'[k])
      BY <2>3, <3>2 DEF Wants
    <3> QED
      BY <2>3, <2>4, <2>5, <3>1, <3>3 DEF CallIsTrue
  <2> QED
    BY <1>0, <1>4, <2>1, <2>2, <2>6, QuietStep
<1>5. CASE Mailer!Quit(k) /\ send[k].at = "quit dry"
  <2> DEFINE r == [send[k] EXCEPT !.at = "pend", !.sent = FALSE]
  <2>1. send' = [send EXCEPT ![k] = r] /\ UNCHANGED <<config, pending, sendlog, mailbox, faults, kills>>
    BY <1>0, <1>5 DEF Mailer!Quit
  <2>2. r \in Record
    BY <1>0 DEF Places
  <2>3. send'[k].at = "pend" /\ send'[k].dry = send[k].dry /\ send'[k].cfg = send[k].cfg
    BY <1>0, <2>1 DEF MailerTyped
  <2> HIDE DEF r
  <2>4. CallIsTrue(k)'
    <3>1. ~Pended(k)' /\ mailbox'[k] # 1 /\ send'[k].at = "pend"
      <4>1. ~Pended(k) /\ mailbox[k] # 1
        BY <1>0, <1>5 DEF CallIsTrue
      <4> QED
        BY <1>p, <2>1, <2>3, <4>1
    <3>2. ~send'[k].sent
      BY <1>0, <2>1 DEF MailerTyped, r
    <3> QED
      BY <3>1, <3>2 DEF CallIsTrue
  <2> QED
    BY <1>0, <1>5, <2>1, <2>2, <2>4, QuietStep
<1> QED
  BY <1>1, <1>2, <1>3, <1>4, <1>5 DEF Mailer!Quit

(* The trigger is recorded, or its row is cut. *)
LEMMA RowJoins ==
    ASSUME MailerTyped, NEW x \in Rows, pending' = Append(pending, x)
    PROVE  /\ pending' \in Seq(Rows)
           /\ \A j \in Sends : Pended(j)' <=> Pended(j) \/ x = j
           /\ Cuts' = IF x = Mailer!Cut THEN Cuts \cup {Len(pending) + 1} ELSE Cuts
           /\ Len(pending) + 1 \notin Cuts
<1> DEFINE n == Len(pending)
<1>1. /\ n \in Nat /\ DOMAIN pending = 1 .. n /\ DOMAIN pending' = 1 .. n + 1 /\ pending' \in Seq(Rows)
      /\ \A i \in 1 .. n : pending'[i] = pending[i]
      /\ pending'[n + 1] = x
  BY AppendProperties, LenProperties DEF MailerTyped
<1> HIDE DEF n
<1>2. /\ \A i \in 1 .. n + 1 : i \in 1 .. n \/ i = n + 1
      /\ \A i \in 1 .. n : i \in 1 .. n + 1
      /\ n + 1 \in 1 .. n + 1 /\ n + 1 \notin 1 .. n
  BY <1>1
<1>3. \A j \in Sends : Pended(j)' <=> Pended(j) \/ x = j
  BY <1>1, <1>2 DEF Pended
<1>4. Cuts' = IF x = Mailer!Cut THEN Cuts \cup {n + 1} ELSE Cuts
  BY <1>1, <1>2 DEF Cuts
<1>5. n + 1 \notin Cuts
  BY <1>1, <1>2 DEF Cuts
<1> QED
  BY <1>1, <1>3, <1>4, <1>5 DEF n

LEMMA PendStep ==
    ASSUME MailerInv, NEW k \in Sends, Mailer!Pend(k)
    PROVE  MailerInv'
<1> USE DEF MailerInv
<1>1. /\ send[k].at = "pend" /\ pending' = Append(pending, k) /\ send' = [send EXCEPT ![k].at = "log"]
      /\ UNCHANGED <<config, sendlog, mailbox, faults, kills>>
  BY DEF Mailer!Pend, Mailer!At, Mailer!Goto
<1>2. k \in Rows /\ k # Mailer!Cut
  BY MessagesAssumption DEF Rows, Mailer!Cut
<1>3. /\ pending' \in Seq(Rows) /\ \A j \in Sends : Pended(j)' <=> Pended(j) \/ k = j
      /\ Cuts' = Cuts
  BY <1>1, <1>2, RowJoins
<1>4. /\ \A j \in Sends : j # k => send'[j] = send[j]
      /\ send'[k].at = "log" /\ send'[k].dry = send[k].dry /\ send'[k].cfg = send[k].cfg
      /\ send'[k].sent = send[k].sent
  BY <1>1 DEF MailerTyped
<1>5. MailerTyped'
  BY <1>1, <1>3 DEF MailerTyped, Places
<1>6. mailbox[k] = 0 /\ ~send[k].sent
  <2>1. mailbox[k] \in {0, 1} /\ CallIsTrue(k)
    BY DEF CallsAreTrue, MailerTyped
  <2> QED
    BY <1>1, <2>1 DEF CallIsTrue
<1>7. CallsAreTrue'
  <2>1. ASSUME NEW j \in Sends, j # k PROVE CallIsTrue(j)'
    <3>1. CallIsTrue(j) /\ send'[j] = send[j] /\ mailbox'[j] = mailbox[j] /\ (Pended(j)' <=> Pended(j))
      BY <1>1, <1>3, <1>4, <2>1 DEF CallsAreTrue
    <3> QED
      BY <3>1 DEF CallIsTrue
  <2>2. CallIsTrue(k)'
    <3>1. ~send'[k].sent /\ mailbox'[k] = 0 /\ Pended(k)' /\ send'[k].at = "log"
      BY <1>1, <1>3, <1>4, <1>6
    <3> QED
      BY <3>1 DEF CallIsTrue
  <2> QED
    BY <2>1, <2>2 DEF CallsAreTrue
<1>8. LogIsTrue'
  BY <1>1, <1>4 DEF LogIsTrue, RowIsTrue
<1>9. CutsAreKills'
  BY <1>1, <1>3 DEF CutsAreKills
<1> QED
  BY <1>5, <1>7, <1>8, <1>9

LEMMA LogStep ==
    ASSUME MailerInv, NEW k \in Sends, Mailer!Log(k)
    PROVE  MailerInv'
<1> USE DEF MailerInv
<1> DEFINE row == [trigger |-> k, sent |-> send[k].sent]
<1>1. /\ send[k].at = "log" /\ send' = [send EXCEPT ![k].at = "returned"]
      /\ UNCHANGED <<config, pending, mailbox, kills>>
      /\ sendlog' = Append(sendlog, row) \/ sendlog' = sendlog
  BY DEF Mailer!Log, Mailer!At, Mailer!Goto
<1>2. faults' \in Nat
  <2>1. faults' \in {faults, faults + 1}
    BY DEF Mailer!Log, Mailer!Faulty
  <2> QED
    BY <2>1 DEF MailerTyped
<1>3. /\ \A j \in Sends : j # k => send'[j] = send[j]
      /\ send'[k].at = "returned" /\ send'[k].dry = send[k].dry /\ send'[k].cfg = send[k].cfg
      /\ send'[k].sent = send[k].sent
  BY <1>1 DEF MailerTyped
<1>4. row \in [trigger : Sends, sent : BOOLEAN] /\ row.trigger = k
  BY DEF MailerTyped
<1>r. row.sent <=> send[k].sent
  OBVIOUS
<1> HIDE DEF row
<1>5. MailerTyped'
  <2>1. sendlog' \in Seq([trigger : Sends, sent : BOOLEAN])
    <3>1. Append(sendlog, row) \in Seq([trigger : Sends, sent : BOOLEAN])
      BY <1>4, AppendProperties DEF MailerTyped
    <3> QED
      BY <1>1, <3>1 DEF MailerTyped
  <2> QED
    BY <1>1, <1>2, <2>1 DEF MailerTyped, Places
<1>6. \A j : Pended(j)' <=> Pended(j)
  BY <1>1 DEF Pended
<1>7. CallsAreTrue'
  <2>1. ASSUME NEW j \in Sends, j # k PROVE CallIsTrue(j)'
    <3>1. CallIsTrue(j) /\ send'[j] = send[j] /\ mailbox'[j] = mailbox[j] /\ (Pended(j)' <=> Pended(j))
      BY <1>1, <1>3, <1>6, <2>1 DEF CallsAreTrue
    <3> QED
      BY <3>1 DEF CallIsTrue
  <2>2. CallIsTrue(k)'
    <3>1. CallIsTrue(k)
      BY DEF CallsAreTrue
    <3>2. /\ mailbox[k] = 1 => Wants(send[k])
          /\ send[k].sent <=> mailbox[k] = 1
          /\ mailbox[k] = 0 => Pended(k)
          /\ Pended(k) => mailbox[k] = 0
      BY <1>1, <3>1 DEF CallIsTrue
    <3>3. /\ mailbox'[k] = 1 => Wants(send'[k])
          /\ send'[k].sent <=> mailbox'[k] = 1
          /\ mailbox'[k] = 0 => Pended(k)'
          /\ Pended(k)' => mailbox'[k] = 0
      BY <1>1, <1>3, <1>6, <3>2 DEF Wants
    <3> QED
      BY <1>3, <3>3 DEF CallIsTrue
  <2> QED
    BY <2>1, <2>2 DEF CallsAreTrue
<1>8. LogIsTrue'
  <2>1. send[k].sent <=> mailbox[k] = 1
    BY <1>1 DEF CallsAreTrue, CallIsTrue
  <2>2. \A i \in DOMAIN sendlog : RowIsTrue(i) /\ sendlog[i].trigger # k
    BY <1>1 DEF LogIsTrue, RowIsTrue
  <2>3. CASE sendlog' = sendlog
    BY <1>1, <1>3, <2>2, <2>3 DEF LogIsTrue, RowIsTrue
  <2>4. CASE sendlog' = Append(sendlog, row)
    <3> DEFINE n == Len(sendlog)
    <3>1. /\ n \in Nat /\ DOMAIN sendlog = 1 .. n /\ DOMAIN sendlog' = 1 .. n + 1
          /\ \A i \in 1 .. n : sendlog'[i] = sendlog[i]
          /\ sendlog'[n + 1] = row
      BY <1>4, <2>4, AppendProperties, LenProperties DEF MailerTyped
    <3> HIDE DEF n
    <3>2. ASSUME NEW i \in 1 .. n PROVE RowIsTrue(i)'
      <4>1. RowIsTrue(i) /\ sendlog[i].trigger # k /\ sendlog'[i] = sendlog[i]
        BY <2>2, <3>1
      <4> QED
        BY <1>1, <1>3, <4>1 DEF RowIsTrue
    <3>3. ASSUME NEW i \in Nat, i = n + 1 PROVE RowIsTrue(i)'
      <4>1. row.sent <=> mailbox'[k] = 1
        BY <1>1, <1>r, <2>1
      <4>2. sendlog'[i] = row /\ send'[k].at = "returned" /\ row.trigger = k
        BY <1>3, <1>4, <3>1, <3>3
      <4> QED
        BY <4>1, <4>2 DEF RowIsTrue
    <3>4. \A i \in 1 .. n + 1 : i \in 1 .. n \/ i = n + 1
      BY <3>1
    <3>5. ASSUME NEW i \in DOMAIN sendlog' PROVE RowIsTrue(i)'
      <4>1. CASE i = n + 1
        BY <3>1, <3>3, <4>1
      <4>2. CASE i # n + 1
        <5>1. i \in 1 .. n
          BY <3>1, <3>4, <4>2
        <5> QED
          BY <3>2, <5>1
      <4> QED
        BY <4>1, <4>2
    <3> QED
      BY <3>5 DEF LogIsTrue
  <2> QED
    BY <1>1, <2>3, <2>4
<1>9. CutsAreKills'
  BY <1>1 DEF CutsAreKills, Cuts
<1> QED
  BY <1>5, <1>7, <1>8, <1>9

LEMMA KillStep ==
    ASSUME MailerInv, NEW k \in Sends, Mailer!Kill(k)
    PROVE  MailerInv'
<1> USE DEF MailerInv
<1>1. /\ send[k].at # "returned" /\ kills' = kills + 1 /\ send' = [send EXCEPT ![k].at = "killed"]
      /\ pending' = pending \/ pending' = Append(pending, Mailer!Cut)
      /\ UNCHANGED <<config, sendlog, mailbox, faults>>
      /\ send[k].at # "unraised"
  BY DEF Mailer!Kill, Mailer!At, Mailer!Goto, Mailer!Running
<1>2. /\ \A j \in Sends : j # k => send'[j] = send[j]
      /\ send'[k].at = "killed" /\ send'[k].dry = send[k].dry /\ send'[k].cfg = send[k].cfg
  BY <1>1 DEF MailerTyped
<1>3. Mailer!Cut \in Rows /\ Mailer!Cut \notin Sends
  BY MessagesAssumption DEF Rows, Mailer!Cut
<1>4. /\ pending' \in Seq(Rows) /\ \A j \in Sends : Pended(j)' <=> Pended(j)
      /\ Cuts' = Cuts \/ Cuts' = Cuts \cup {Len(pending) + 1}
      /\ Len(pending) + 1 \notin Cuts
  <2>1. CASE pending' = Append(pending, Mailer!Cut)
    BY <1>3, <2>1, RowJoins
  <2>2. CASE pending' = pending
    <3>1. /\ pending' \in Seq(Rows) /\ \A j \in Sends : Pended(j)' <=> Pended(j)
          /\ Cuts' = Cuts
      BY <2>2 DEF Pended, Cuts, MailerTyped
    <3>2. Len(pending) + 1 \notin Cuts
      BY LenProperties DEF Cuts, MailerTyped
    <3> QED
      BY <3>1, <3>2
  <2> QED
    BY <1>1, <2>1, <2>2
<1>5. MailerTyped'
  <2>1. kills' \in Nat
    BY <1>1 DEF MailerTyped
  <2> QED
    BY <1>1, <1>4, <2>1 DEF MailerTyped, Places
<1>6. CallsAreTrue'
  <2>1. ASSUME NEW j \in Sends, j # k PROVE CallIsTrue(j)'
    <3>1. CallIsTrue(j) /\ send'[j] = send[j] /\ mailbox'[j] = mailbox[j] /\ (Pended(j)' <=> Pended(j))
      BY <1>1, <1>2, <1>4, <2>1 DEF CallsAreTrue
    <3> QED
      BY <3>1 DEF CallIsTrue
  <2>2. CallIsTrue(k)'
    <3>1. /\ mailbox[k] = 1 => Wants(send[k])
          /\ Pended(k) => mailbox[k] = 0
      BY DEF CallsAreTrue, CallIsTrue
    <3>2. /\ mailbox'[k] = 1 => Wants(send'[k])
          /\ Pended(k)' => mailbox'[k] = 0
      BY <1>1, <1>2, <1>4, <3>1 DEF Wants
    <3> QED
      BY <1>2, <3>2 DEF CallIsTrue
  <2> QED
    BY <2>1, <2>2 DEF CallsAreTrue
<1>7. LogIsTrue'
  <2>1. \A i \in DOMAIN sendlog : RowIsTrue(i) /\ sendlog[i].trigger # k
    BY <1>1 DEF LogIsTrue, RowIsTrue
  <2> QED
    BY <1>1, <1>2, <2>1 DEF LogIsTrue, RowIsTrue
<1>8. CutsAreKills'
  <2>1. IsFiniteSet(Cuts) /\ Cardinality(Cuts) \in Nat /\ kills \in Nat /\ Cardinality(Cuts) <= kills
    BY CutsFinite DEF MailerTyped, CutsAreKills
  <2>2. Cardinality(Cuts') \in {Cardinality(Cuts), Cardinality(Cuts) + 1}
    BY <1>4, <2>1, FS_AddElement
  <2> QED
    BY <1>1, <2>1, <2>2 DEF CutsAreKills
<1> QED
  BY <1>5, <1>6, <1>7, <1>8

LEMMA MailerStep == MailerInv /\ [Mailer!Next]_(Mailer!vars) => MailerInv'
<1> SUFFICES ASSUME MailerInv, [Mailer!Next]_(Mailer!vars) PROVE MailerInv'
  OBVIOUS
<1>1. CASE UNCHANGED Mailer!vars \/ \E cfg \in Mailer!Configs : Mailer!Configure(cfg)
  <2>1. config' \in Mailer!Configs /\ UNCHANGED <<pending, sendlog, mailbox, send, faults, kills>>
    BY <1>1 DEF Mailer!vars, Mailer!Configure, MailerInv, MailerTyped
  <2> USE DEF MailerInv
  <2>2. MailerTyped'
    BY <2>1 DEF MailerTyped
  <2>3. CallsAreTrue'
    <3>1. \A k : Pended(k)' <=> Pended(k)
      BY <2>1 DEF Pended
    <3> QED
      BY <2>1, <3>1 DEF CallsAreTrue, CallIsTrue
  <2>4. LogIsTrue'
    BY <2>1 DEF LogIsTrue, RowIsTrue
  <2>5. CutsAreKills'
    BY <2>1 DEF CutsAreKills, Cuts
  <2> QED
    BY <2>2, <2>3, <2>4, <2>5
<1>2. ASSUME NEW k \in Sends,
             \/ (\E dry \in BOOLEAN : Mailer!Raise(k, dry)) \/ Mailer!Gate(k) \/ Mailer!Connect(k)
             \/ Mailer!HandOver(k) \/ Mailer!SmtpFails(k) \/ Mailer!Quit(k)
             \/ Mailer!Pend(k) \/ Mailer!PendFails(k) \/ Mailer!Log(k) \/ Mailer!Kill(k)
      PROVE  MailerInv'
  BY <1>2, TalkSteps, PendStep, LogStep, KillStep
<1> QED
  BY <1>1, <1>2 DEF Mailer!Next

LEMMA MailerCount == ASSUME NEW S PROVE Mailer!Cardinality(S) = Cardinality(S)
BY Zenon DEF Mailer!Cardinality, Cardinality

(* Each lost trigger has its own cut row, the one before it. *)
LEMMA LostAreCut == MailerInv => Mailer!NothingLostSilently
<1> SUFFICES ASSUME MailerInv PROVE Mailer!NothingLostSilently
  OBVIOUS
<1> USE DEF MailerInv
<1> DEFINE lost == {k \in Mailer!Returned : mailbox[k] = 0 /\ k \notin Mailer!Listed}
           row(k) == CHOOSE i \in DOMAIN pending : pending[i] = k
           f == [k \in lost |-> row(k) - 1]
<1>1. ASSUME NEW k \in lost
      PROVE  row(k) \in DOMAIN pending /\ pending[row(k)] = k /\ row(k) - 1 \in Cuts
  <2>1. k \in Sends /\ send[k].at = "returned" /\ mailbox[k] = 0 /\ k \notin Mailer!Listed
    BY DEF Mailer!Returned, Mailer!At
  <2>2. Pended(k)
    BY <2>1 DEF CallsAreTrue, CallIsTrue
  <2>3. row(k) \in DOMAIN pending /\ pending[row(k)] = k
    BY <2>2 DEF Pended
  <2>4. row(k) # 1 /\ pending[row(k) - 1] = Mailer!Cut
    BY <2>1, <2>3 DEF Mailer!Listed
  <2>5. DOMAIN pending = 1 .. Len(pending) /\ Len(pending) \in Nat
    BY LenProperties DEF MailerTyped
  <2>6. row(k) - 1 \in DOMAIN pending
    BY <2>3, <2>4, <2>5
  <2> QED
    BY <2>3, <2>4, <2>6 DEF Cuts
<1> HIDE DEF lost, row
<1>2. f \in Injection(lost, Cuts)
  <2>1. f \in [lost -> Cuts]
    BY <1>1
  <2>2. ASSUME NEW k \in lost, NEW j \in lost, f[k] = f[j] PROVE k = j
    <3>1. row(k) - 1 = row(j) - 1
      BY <2>2
    <3>2. row(k) \in Int /\ row(j) \in Int
      BY <1>1, LenProperties DEF MailerTyped
    <3>3. row(k) = row(j)
      BY <3>1, <3>2
    <3> QED
      BY <1>1, <3>3
  <2> QED
    BY <2>1, <2>2 DEF Injection, IsInjective
<1>3. Cardinality(lost) <= Cardinality(Cuts) /\ IsFiniteSet(lost)
  BY <1>2, CutsFinite, FS_Injection
<1>4. Cardinality(lost) <= kills
  BY <1>3, CutsFinite, FS_CardinalityType DEF CutsAreKills, MailerTyped
<1> QED
  BY <1>4, MailerCount DEF Mailer!NothingLostSilently, lost

LEMMA MailerSound == MailerInv => MailIsAccounted
<1> SUFFICES ASSUME MailerInv PROVE MailIsAccounted
  OBVIOUS
<1> USE DEF MailerInv
<1>1. Mailer!TypeOK
  <2>1. Mailer!Range(pending) \subseteq Sends \cup {Mailer!Cut}
    <3>1. \A i \in DOMAIN pending : pending[i] \in Rows
      BY LenProperties DEF MailerTyped
    <3> QED
      BY <3>1 DEF Mailer!Range, Rows
  <2>2. ASSUME NEW k \in Sends
        PROVE  /\ mailbox[k] \in Nat /\ send[k].cfg \in Mailer!Configs
               /\ send[k].at = "returned" => send[k].sent \in BOOLEAN
               /\ send[k].at \in {"connect", "hand over", "quit"} => send[k].cfg.complete
    <3>1. mailbox[k] \in {0, 1} /\ send[k].cfg \in Mailer!Configs /\ send[k].sent \in BOOLEAN
      BY DEF MailerTyped
    <3>2. send[k].at \in {"connect", "hand over", "quit"} => send[k].cfg.complete
      BY DEF CallsAreTrue, CallIsTrue
    <3>3. send[k].at = "returned" => send[k].sent \in BOOLEAN
      BY <3>1
    <3>4. mailbox[k] \in Nat
      BY <3>1
    <3> QED
      BY <3>1, <3>2, <3>3, <3>4
  <2> QED
    BY <2>1, <2>2 DEF MailerTyped, Mailer!TypeOK
<1>2. Mailer!SentOnce
  <2>1. ASSUME NEW k \in Sends
        PROVE  mailbox[k] <= 1 /\ (mailbox[k] = 1 => k \notin Mailer!Range(pending))
    <3>1. mailbox[k] \in {0, 1} /\ (Pended(k) => mailbox[k] = 0)
      BY DEF MailerTyped, CallsAreTrue, CallIsTrue
    <3>2. k \in Mailer!Range(pending) => Pended(k)
      BY DEF Pended, Mailer!Range
    <3> QED
      BY <3>1, <3>2
  <2>2. ASSUME NEW k \in Mailer!Returned PROVE send[k].sent <=> mailbox[k] = 1
    BY DEF CallsAreTrue, CallIsTrue, Mailer!Returned, Mailer!At
  <2>3. \A i \in DOMAIN sendlog : sendlog[i].sent <=> mailbox[sendlog[i].trigger] = 1
    BY DEF LogIsTrue, RowIsTrue
  <2> QED
    BY <2>1, <2>2, <2>3 DEF Mailer!SentOnce
<1>3. Mailer!OnlyEnabledSends
  <2>1. ASSUME NEW k \in Sends, mailbox[k] > 0
        PROVE  send[k].cfg.enabled /\ send[k].cfg.complete /\ send[k].cfg.valid /\ ~send[k].dry
    <3>1. mailbox[k] = 1
      BY <2>1 DEF MailerTyped
    <3> QED
      BY <3>1 DEF CallsAreTrue, CallIsTrue, Wants
  <2> QED
    BY <2>1 DEF Mailer!OnlyEnabledSends
<1> QED
  BY <1>1, <1>2, <1>3, LostAreCut DEF MailIsAccounted, Mailer!MailIsAccounted

(***************************************************************************)
(* For any number of triggers, failures, kills and changes of the          *)
(* configuration: a call that returned has its mail delivered or its       *)
(* trigger pending, but for one trigger at most for each killed process;   *)
(* no trigger is mailed twice, or mailed and pending; the caller and the   *)
(* log are told which; and only an enabled, complete configuration mails   *)
(* (tools/email_notifier.py).                                              *)
(***************************************************************************)
THEOREM MailsAreAccounted == Mailer!Spec => []MailIsAccounted
<1>1. Mailer!Init => MailerInv
  BY MailerStart
<1>2. MailerInv /\ [Mailer!Next]_(Mailer!vars) => MailerInv'
  BY MailerStep
<1>3. MailerInv => MailIsAccounted
  BY MailerSound
<1> QED
  BY <1>1, <1>2, <1>3, PTL DEF Mailer!Spec

=============================================================================
