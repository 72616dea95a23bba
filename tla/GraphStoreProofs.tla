---------------------------- MODULE GraphStoreProofs ----------------------------
(***************************************************************************)
(* Proofs about the shared store and about the approval gate over it, for  *)
(* every set of writers, every set of batches and folds and every bound.   *)
(***************************************************************************)
EXTENDS GraphMCP, ArrangementProofs

LEMMA FileKinds ==
    /\ IsFile(Absent) /\ IsFile(Created) /\ IsFile(Torn)
    /\ \A arr : \A rev \in Nat : IsFile(Whole(arr, rev)) /\ Whole(arr, rev) # Absent
BY DEF IsFile, Absent, Created, Torn, Whole, Unreadable

\* A write leaves a file of one of the known kinds, never a missing one.
LEMMA OverlayType ==
    ASSUME NEW old, NEW new, IsFile(new), new # Absent,
           NEW f \in Overlay(old, new)
    PROVE  IsFile(f) /\ f # Absent
BY FileKinds DEF Overlay, Torn, Absent, Unreadable

(***************************************************************************)
(* The type invariant is inductive as it stands.                           *)
(***************************************************************************)
LEMMA TypeInit == Init => TypeOK
BY GraphStoreAssumption, FileKinds DEF Init, TypeOK, Idle

LEMMA TypeNext == TypeOK /\ [Next]_vars => TypeOK'
<1> SUFFICES ASSUME TypeOK, [Next]_vars PROVE TypeOK'
  OBVIOUS
<1> USE GraphStoreAssumption DEF TypeOK, Idle
<1>1. ASSUME NEW w \in Writers, NEW b \in Batches, Load(w, b) PROVE TypeOK'
  <2>1. live.rev \in Nat
    BY DEF IsFile
  <2>2. out'[w].rev \in Nat /\ out'[w] = Whole(out'[w].arr, out'[w].rev)
    BY <1>1, <2>1 DEF Load, Whole
  <2> QED
    BY <1>1, <2>2 DEF Load
<1>2. ASSUME NEW w \in Writers, Stamp(w) PROVE TypeOK'
  <2>1. out'[w].rev \in Nat /\ out'[w] = Whole(out'[w].arr, out'[w].rev)
    BY <1>2 DEF Stamp, IsFile, Later, Whole
  <2> QED
    BY <1>2, <2>1 DEF Stamp
<1>3. ASSUME NEW w \in Writers, OpenTmp(w) PROVE TypeOK'
  BY <1>3, FileKinds DEF OpenTmp
<1>4. ASSUME NEW w \in Writers, WriteTmp(w) PROVE TypeOK'
  <2>1. IsFile(out[w]) /\ out[w] # Absent
    BY <1>4, FileKinds DEF WriteTmp
  <2>2. IsFile(tmp') /\ IsFile(live')
    BY <1>4, <2>1, OverlayType DEF WriteTmp
  <2> QED
    BY <1>4, <2>2 DEF WriteTmp
<1>5. ASSUME NEW w \in Writers, Replace(w) PROVE TypeOK'
  BY <1>5, FileKinds DEF Replace, Return, Moved
<1>6. ASSUME NEW w \in Writers, ReplaceFails(w) PROVE TypeOK'
  BY <1>6, FileKinds DEF ReplaceFails, Return
<1>7. ASSUME NEW w \in Writers, Crash(w) PROVE TypeOK'
  BY <1>7, FileKinds DEF Crash, Return
<1>8. CASE UNCHANGED vars
  BY <1>8 DEF vars
<1> QED
  BY <1>1, <1>2, <1>3, <1>4, <1>5, <1>6, <1>7, <1>8 DEF Next, Step

(* The variables keep their types: descriptors only while writing, nothing *)
(* held by an idle writer.                                                 *)
THEOREM TypeCorrect == Spec => []TypeOK
BY TypeInit, TypeNext, PTL DEF Spec
-----------------------------------------------------------------------------
(***************************************************************************)
(* Soundness of what can be read: the arrangements on their way to the     *)
(* disk are sound too, and a write mixes texts but never makes one up.     *)
(***************************************************************************)
SoundInv == PublishedSound /\ \A w \in Writers : ValidateArrangement(out[w].arr)

LEMMA EmptySound ==
    \A s : ValidateArrangement(Unreadable(s).arr)
BY DEF Unreadable, EmptyArr, ValidateArrangement, Dangling, NodeIds, HasCycle

LEMMA OverlaySound ==
    ASSUME NEW old, NEW new, ValidateArrangement(new.arr), NEW f \in Overlay(old, new)
    PROVE  ValidateArrangement(f.arr)
BY EmptySound DEF Overlay, Torn

LEMMA SoundInit == Init => SoundInv
BY GraphStoreAssumption, EmptySound DEF Init, SoundInv, PublishedSound, Absent, Whole

LEMMA SoundNext == TypeOK /\ SoundInv /\ [Next]_vars => SoundInv'
<1> SUFFICES ASSUME TypeOK, SoundInv, [Next]_vars PROVE SoundInv'
  OBVIOUS
<1> USE DEF SoundInv, PublishedSound
<1>0. DOMAIN out = Writers
  BY DEF TypeOK
<1>1. ASSUME NEW w \in Writers, NEW b \in Batches, Load(w, b) PROVE SoundInv'
  <2>1. ValidateArrangement(Whole(Apply(live.arr, b), live.rev).arr)
    BY <1>1 DEF Load, Accepted, Whole
  <2> QED
    BY <1>0, <1>1, <2>1 DEF Load
<1>2. ASSUME NEW w \in Writers, Stamp(w) PROVE SoundInv'
  <2>1. \A rev : ValidateArrangement(Whole(out[w].arr, rev).arr)
    BY DEF Whole
  <2> QED
    BY <1>0, <1>2, <2>1 DEF Stamp
<1>3. ASSUME NEW w \in Writers, OpenTmp(w) PROVE SoundInv'
  BY <1>3, EmptySound DEF OpenTmp, Created
<1>4. ASSUME NEW w \in Writers, WriteTmp(w) PROVE SoundInv'
  BY <1>4, OverlaySound DEF WriteTmp
<1>5. ASSUME NEW w \in Writers, Return(w) PROVE \A v \in Writers : ValidateArrangement(out'[v].arr)
  BY <1>0, <1>5, EmptySound DEF Return, Absent
<1>6. ASSUME NEW w \in Writers, Replace(w) PROVE SoundInv'
  BY <1>5, <1>6, EmptySound DEF Replace, Absent
<1>7. ASSUME NEW w \in Writers, ReplaceFails(w) \/ Crash(w) PROVE SoundInv'
  BY <1>5, <1>7 DEF ReplaceFails, Crash
<1>8. CASE UNCHANGED vars
  BY <1>8 DEF vars
<1> QED
  BY <1>1, <1>2, <1>3, <1>4, <1>6, <1>7, <1>8 DEF Next, Step

(* Whatever can be read from either file is a sound arrangement, for any   *)
(* number of writers that share the temporary file, wherever they die.     *)
THEOREM AlwaysSound == Spec => []PublishedSound
<1>1. Init => TypeOK /\ SoundInv
  BY TypeInit, SoundInit
<1>2. TypeOK /\ SoundInv /\ [Next]_vars => (TypeOK /\ SoundInv)'
  BY TypeNext, SoundNext
<1>3. SoundInv => PublishedSound
  BY DEF SoundInv
<1> QED
  BY <1>1, <1>2, <1>3, PTL DEF Spec
-----------------------------------------------------------------------------
(***************************************************************************)
(* Exactness of a call that nothing overlaps.  UncontendedIsExact is not   *)
(* inductive: it speaks of the moment of the replace, and what makes it    *)
(* true then is what was so at each step before, from the file loaded to   *)
(* the file written, with nobody else inside the seam.                     *)
(***************************************************************************)
OnItsOwn(w) ==
    /\ ~Idle(w) /\ \A v \in Writers : v = w \/ Idle(v)
    /\ live = base[w]
    /\ Extends(out[w].arr, live.arr)
    /\ out[w].rev = IF pc[w] = "stamp" THEN live.rev ELSE live.rev + 1
    /\ pc[w] = "write" => fd[w] = "tmp" /\ tmp = Created
    /\ pc[w] = "replace" => tmp = out[w]

SoloInv == \A w \in Writers : solo[w] => OnItsOwn(w)

LEMMA BatchExtends ==
    ASSUME NEW b \in Batches, NEW arr
    PROVE  Extends(Apply(arr, b), arr)
BY ApplyExtends, GraphStoreAssumption

LEMMA SoloInit == Init => SoloInv
BY DEF Init, SoloInv

LEMMA SoloNext == TypeOK /\ SoloInv /\ [Next]_vars => SoloInv'
<1> SUFFICES ASSUME TypeOK, SoloInv, [Next]_vars PROVE SoloInv'
  OBVIOUS
<1> USE DEF SoloInv, Idle
<1>0. /\ DOMAIN out = Writers /\ DOMAIN base = Writers
      /\ pc \in [Writers -> {"idle", "stamp", "open", "write", "replace"}]
      /\ fd \in [Writers -> {"none", "tmp", "live", "gone"}]
      /\ solo \in [Writers -> BOOLEAN]
      /\ live.rev \in Nat
  BY DEF TypeOK, IsFile
<1>1. ASSUME NEW w \in Writers, NEW b \in Batches, Load(w, b) PROVE SoloInv'
  <2>1. CASE \A v \in Writers : Idle(v)
    <3>1. \A v \in Writers : ~solo[v]
      BY <2>1 DEF OnItsOwn
    <3>2. /\ live' = live /\ base'[w] = live
          /\ out'[w].arr = Apply(live.arr, b) /\ out'[w].rev = live.rev
          /\ pc' = [pc EXCEPT ![w] = "stamp"] /\ solo' = [solo EXCEPT ![w] = TRUE]
      BY <1>0, <1>1, <2>1 DEF Load, Whole
    <3> QED
      BY <1>0, <2>1, <3>1, <3>2, BatchExtends DEF OnItsOwn
  <2>2. CASE ~\A v \in Writers : Idle(v)
    BY <1>1, <2>2 DEF Load
  <2> QED
    BY <2>1, <2>2
\* A writer that takes a step inside the seam is the only one that can be solo.
<1>2. ASSUME NEW w \in Writers, ~Idle(w), NEW v \in Writers, solo[v] PROVE v = w
  BY <1>2 DEF OnItsOwn
<1>3. ASSUME NEW w \in Writers, Stamp(w) PROVE SoloInv'
  <2>1. solo[w] => Later(live.rev, out[w].rev) + 1 = live.rev + 1
    BY <1>3 DEF Stamp, OnItsOwn, Later
  <2>2. out'[w].arr = out[w].arr /\ out'[w].rev = Later(live.rev, out[w].rev) + 1
    BY <1>0, <1>3 DEF Stamp, Whole
  <2> QED
    BY <1>0, <1>2, <1>3, <2>1, <2>2 DEF Stamp, OnItsOwn
<1>4. ASSUME NEW w \in Writers, OpenTmp(w) PROVE SoloInv'
  BY <1>0, <1>2, <1>4 DEF OpenTmp, OnItsOwn
<1>5. ASSUME NEW w \in Writers, WriteTmp(w) PROVE SoloInv'
  <2>1. solo[w] => tmp' = out[w] /\ live' = live
    BY <1>5 DEF WriteTmp, OnItsOwn, Overlay, Created, Unreadable
  <2> QED
    BY <1>0, <1>2, <1>5, <2>1 DEF WriteTmp, OnItsOwn
<1>6. ASSUME NEW w \in Writers, Replace(w) \/ ReplaceFails(w) \/ Crash(w) PROVE SoloInv'
  <2>1. ~Idle(w) /\ Return(w)
    BY <1>6 DEF Replace, ReplaceFails, Crash
  <2>2. \A v \in Writers : ~solo'[v]
    BY <1>0, <1>2, <2>1 DEF Return
  <2> QED
    BY <2>2
<1>7. CASE UNCHANGED vars
  BY <1>7 DEF vars, OnItsOwn
<1> QED
  BY <1>1, <1>3, <1>4, <1>5, <1>6, <1>7 DEF Next, Step

LEMMA SoloExact ==
    ASSUME TypeOK, SoloInv, NEW w \in Writers, solo[w]
    PROVE  /\ Replace(w) => /\ live = base[w]
                            /\ live' = out[w]
                            /\ live'.rev = live.rev + 1
                            /\ Extends(live'.arr, live.arr)
           /\ ~ReplaceFails(w)
<1>1. OnItsOwn(w)
  BY DEF SoloInv
<1>2. out[w] # Absent
  BY <1>1, FileKinds DEF TypeOK, OnItsOwn
<1> QED
  BY <1>1, <1>2 DEF OnItsOwn, Replace, ReplaceFails

(* A call nothing overlaps publishes exactly its batch applied to what it  *)
(* loaded, under the next revision, and cannot fail in its replace.        *)
THEOREM ExactWhenAlone == Spec => UncontendedIsExact
<1>1. Init => TypeOK /\ SoloInv
  BY TypeInit, SoloInit
<1>2. TypeOK /\ SoloInv /\ [Next]_vars => (TypeOK /\ SoloInv)'
  BY TypeNext, SoloNext
<1>3. TypeOK /\ SoloInv =>
         \A w \in Writers : solo[w] =>
            /\ Replace(w) => /\ live = base[w]
                             /\ live' = out[w]
                             /\ live'.rev = live.rev + 1
                             /\ Extends(live'.arr, live.arr)
            /\ ~ReplaceFails(w)
  BY SoloExact
<1> QED
  BY <1>1, <1>2, <1>3, PTL DEF Spec, UncontendedIsExact
-----------------------------------------------------------------------------
(***************************************************************************)
(* One server process: its calls do not overlap, so each is alone, and     *)
(* what the contract promises of every commit follows from exactness.      *)
(***************************************************************************)
SerialInv == \A w \in Writers : ~Idle(w) => solo[w]

KeptInv == AckedKept /\ LiveReadable

Strong == TypeOK /\ SoundInv /\ SoloInv /\ SerialInv

LEMMA StrongInit == Init => Strong /\ KeptInv
<1> SUFFICES ASSUME Init PROVE Strong /\ KeptInv
  OBVIOUS
<1>1. SerialInv
  BY DEF Init, SerialInv, Idle
<1>2. KeptInv
  BY DEF Init, KeptInv, AckedKept, LiveReadable, Absent, Unreadable, Whole
<1> QED
  BY <1>1, <1>2, TypeInit, SoundInit, SoloInit DEF Strong

LEMMA SerialNext ==
    ASSUME Serialized, TypeOK, SerialInv, [Next]_vars
    PROVE  SerialInv'
<1> USE DEF SerialInv, Idle
<1>0. /\ pc \in [Writers -> {"idle", "stamp", "open", "write", "replace"}]
      /\ solo \in [Writers -> BOOLEAN]
  BY DEF TypeOK
<1>1. ASSUME NEW w \in Writers, NEW b \in Batches, Load(w, b) PROVE SerialInv'
  BY <1>0, <1>1 DEF Load
<1>2. ASSUME NEW w \in Writers, Stamp(w) \/ OpenTmp(w) \/ WriteTmp(w) PROVE SerialInv'
  BY <1>0, <1>2 DEF Stamp, OpenTmp, WriteTmp
<1>3. ASSUME NEW w \in Writers, Replace(w) \/ ReplaceFails(w) \/ Crash(w) PROVE SerialInv'
  BY <1>0, <1>3 DEF Replace, ReplaceFails, Crash, Return
<1>4. CASE UNCHANGED vars
  BY <1>4 DEF vars
<1> QED
  BY <1>1, <1>2, <1>3, <1>4 DEF Next, Step

LEMMA StrongNext ==
    ASSUME Serialized
    PROVE  Strong /\ [Next]_vars => Strong'
BY TypeNext, SoundNext, SoloNext, SerialNext DEF Strong

\* Only a replace touches the live file, and it replaces it by what was saved.
LEMMA SerialStep ==
    ASSUME Strong, [Next]_vars
    PROVE  \/ live' = live /\ acked' = acked
           \/ \E w \in Writers : /\ Replace(w) /\ solo[w]
                                 /\ live' = out[w] /\ acked' = acked \cup out[w].arr.nodes
<1> USE DEF Strong, SerialInv, Idle
<1>1. ASSUME NEW w \in Writers, NEW b \in Batches, Load(w, b)
      PROVE  live' = live /\ acked' = acked
  BY <1>1 DEF Load
<1>2. ASSUME NEW w \in Writers, Stamp(w) \/ OpenTmp(w) \/ ReplaceFails(w) \/ Crash(w)
      PROVE  live' = live /\ acked' = acked
  BY <1>2 DEF Stamp, OpenTmp, ReplaceFails, Crash
<1>3. ASSUME NEW w \in Writers, WriteTmp(w)
      PROVE  live' = live /\ acked' = acked
  BY <1>3 DEF WriteTmp, SoloInv, OnItsOwn
<1>4. ASSUME NEW w \in Writers, Replace(w)
      PROVE  solo[w] /\ live' = out[w] /\ acked' = acked \cup out[w].arr.nodes
  <2>1. solo[w]
    BY <1>4 DEF Replace
  <2> QED
    BY <1>4, <2>1, SoloExact DEF Replace
<1>5. CASE UNCHANGED vars
  BY <1>5 DEF vars
<1> QED
  BY <1>1, <1>2, <1>3, <1>4, <1>5 DEF Next, Step

LEMMA KeptNext == Strong /\ KeptInv /\ [Next]_vars => KeptInv'
<1> SUFFICES ASSUME Strong, KeptInv, [Next]_vars PROVE KeptInv'
  OBVIOUS
<1>1. CASE live' = live /\ acked' = acked
  BY <1>1 DEF KeptInv, AckedKept, LiveReadable
<1>2. ASSUME NEW w \in Writers, Replace(w), solo[w],
             live' = out[w], acked' = acked \cup out[w].arr.nodes
      PROVE  KeptInv'
  <2>1. Extends(live'.arr, live.arr)
    BY <1>2, SoloExact DEF Strong
  <2>2. AckedKept'
    BY <1>2, <2>1 DEF KeptInv, AckedKept, Extends
  <2>3. out[w] = Whole(out[w].arr, out[w].rev)
    BY <1>2 DEF Strong, TypeOK, Idle, Replace
  <2>4. LiveReadable'
    BY <1>2, <2>3 DEF LiveReadable, Whole
  <2> QED
    BY <2>2, <2>4 DEF KeptInv
<1> QED
  BY <1>1, <1>2, SerialStep

(* One server process never loses a node it has answered ok for, through   *)
(* any sequence of commits and deaths.                                     *)
THEOREM SerialKeepsAcked ==
    ASSUME Serialized
    PROVE  Spec => []AckedKept
<1>1. Init => Strong /\ KeptInv
  BY StrongInit
<1>2. Strong /\ KeptInv /\ [Next]_vars => (Strong /\ KeptInv)'
  BY StrongNext, KeptNext
<1>3. KeptInv => AckedKept
  BY DEF KeptInv
<1> QED
  BY <1>1, <1>2, <1>3, PTL DEF Spec

(* ... and never lets a reader find a file that is not whole.              *)
THEOREM SerialReadable ==
    ASSUME Serialized
    PROVE  Spec => []LiveReadable
<1>1. Init => Strong /\ KeptInv
  BY StrongInit
<1>2. Strong /\ KeptInv /\ [Next]_vars => (Strong /\ KeptInv)'
  BY StrongNext, KeptNext
<1>3. KeptInv => LiveReadable
  BY DEF KeptInv
<1> QED
  BY <1>1, <1>2, <1>3, PTL DEF Spec

\* The abstract specification means the same by soundness and by growth.
LEMMA SameMeaning ==
    ASSUME NEW new, NEW old
    PROVE  /\ Graph!ValidateArrangement(new) <=> ValidateArrangement(new)
           /\ Graph!Extends(new, old) <=> Extends(new, old)
<1>1. Graph!NodeIds(new) = NodeIds(new) /\ Graph!ParentPort = ParentPort /\ Graph!NoId = NoId
  BY DEF Graph!NodeIds, NodeIds, Graph!ParentPort, ParentPort, Graph!NoId, NoId
<1>2. Graph!Dangling(new) = Dangling(new)
  BY <1>1 DEF Graph!Dangling, Dangling
<1>3. Graph!HasCycle(new) <=> HasCycle(new)
  BY <1>1 DEF Graph!HasCycle, HasCycle
<1> QED
  BY <1>1, <1>2, <1>3
  DEF Graph!ValidateArrangement, ValidateArrangement, Graph!Extends, Extends

(* One server process implements the abstract append-only graph: every     *)
(* step of the seam is a growth of the graph under the next revision, or   *)
(* leaves both as they were.                                               *)
THEOREM SerialAppendOnly ==
    ASSUME Serialized
    PROVE  Spec => AppendOnly
<1>1. Init => Strong /\ Graph!Init
  <2>1. Init => live.rev \in Nat /\ ValidateArrangement(live.arr)
    BY TypeInit, SoundInit DEF TypeOK, IsFile, SoundInv, PublishedSound
  <2> QED
    BY <2>1, StrongInit, SameMeaning DEF Graph!Init
<1>2. Strong /\ [Next]_vars => Strong'
  BY StrongNext
<1>3. Strong /\ Strong' /\ [Next]_vars => [Graph!Grow]_<<live.arr, live.rev>>
  <2> SUFFICES ASSUME Strong, Strong', [Next]_vars
               PROVE  [Graph!Grow]_<<live.arr, live.rev>>
    OBVIOUS
  <2>1. CASE live' = live
    BY <2>1
  <2>2. ASSUME NEW w \in Writers, Replace(w), solo[w]
        PROVE  Graph!Grow
    <3>1. live'.rev = live.rev + 1 /\ Extends(live'.arr, live.arr)
      BY <2>2, SoloExact DEF Strong
    <3>2. ValidateArrangement(live'.arr)
      BY DEF Strong, SoundInv, PublishedSound
    <3> QED
      BY <3>1, <3>2, SameMeaning DEF Graph!Grow
  <2> QED
    BY <2>1, <2>2, SerialStep
<1> QED
  BY <1>1, <1>2, <1>3, PTL DEF Spec, AppendOnly, Graph!Spec
-----------------------------------------------------------------------------
(***************************************************************************)
(* The approval gate.  It adds a place to commit_actions (a structural     *)
(* commit that has checked its base and not yet derived its result), so    *)
(* the store's invariants are restated here over the gate's own steps.     *)
(***************************************************************************)
IsProposal(p) ==
    /\ p.kind \in {"actions", "abstract", "decompose"}
    /\ p.base.rev \in Nat
    /\ p # NoJob

\* What a server holds: no version of the graph before it has derived one, no
\* descriptor except while it writes, and a proposal whenever it is past idle.
ServerTyped(w) ==
    /\ fd[w] # "none" <=> pc[w] = "write"
    /\ pc[w] \in {"idle", "derive"} => out[w] = Absent
    /\ pc[w] \notin {"idle", "derive"} =>
          out[w].rev \in Nat /\ out[w] = Whole(out[w].arr, out[w].rev)
    /\ pc[w] # "idle" => job[w] # NoJob /\ w \notin opened
    /\ w \in opened => job[w] # NoJob
    /\ job[w] # NoJob => IsProposal(job[w])

GateTyped ==
    /\ IsFile(live) /\ IsFile(tmp)
    /\ pc \in [Writers -> {"idle", "derive", "stamp", "open", "write", "replace"}]
    /\ fd \in [Writers -> {"none", "tmp", "live", "gone"}]
    /\ DOMAIN out = Writers /\ DOMAIN base = Writers /\ DOMAIN job = Writers
    /\ opened \subseteq Writers
    /\ commits \in Nat /\ crashes \in Nat
    /\ \A p \in staged \cup landed \cup dropped : IsProposal(p)
    /\ \A w \in Writers : ServerTyped(w)

\* The three tools that stage.
Staging ==
    \E kind \in {"actions", "abstract", "decompose"} : \E delta : Stage(kind, delta)

\* Every step of the gate is one of these.
LEMMA GateSteps ==
    ASSUME MCPNext
    PROVE  \/ Staging
           \/ \E w \in Writers :
                 \/ \E p \in staged : Discard(w, p) \/ OpenProposal(w, p)
                 \/ CommitActions(w) \/ CheckBase(w) \/ Derive(w)
                 \/ Save(w) \/ Landed(w) \/ SaveFails(w) \/ Remove(w)
                 \/ ServerCrash(w)
<1> PICK w \in Writers :
        \/ \E b \in Batches : Propose(w, b)
        \/ \E ids \in Folds : ProposeAbstract(w, ids)
        \/ \E n \in live.arr.nodes : IsChip(n) /\ ProposeDecompose(w, n.id)
        \/ \E p \in staged : Discard(w, p) \/ OpenProposal(w, p)
        \/ CommitActions(w) \/ CheckBase(w) \/ Derive(w)
        \/ Save(w) \/ Landed(w) \/ SaveFails(w) \/ Remove(w)
        \/ ServerCrash(w)
  BY DEF MCPNext
<1>1. CASE \E b \in Batches : Propose(w, b)
  BY <1>1 DEF Propose, Staging
<1>2. CASE \E ids \in Folds : ProposeAbstract(w, ids)
  BY <1>2 DEF ProposeAbstract, Staging
<1>3. CASE \E n \in live.arr.nodes : IsChip(n) /\ ProposeDecompose(w, n.id)
  BY <1>3 DEF ProposeDecompose, Staging
<1> QED
  BY <1>1, <1>2, <1>3

LEMMA GateTypeInit == MCPInit => GateTyped
BY GraphStoreAssumption, FileKinds DEF MCPInit, Init, GateTyped, ServerTyped

LEMMA GateTypeNext == GateTyped /\ [MCPNext]_allVars => GateTyped'
<1> SUFFICES ASSUME GateTyped, [MCPNext]_allVars PROVE GateTyped'
  OBVIOUS
<1>0. /\ IsFile(live) /\ IsFile(tmp) /\ live.rev \in Nat
      /\ pc \in [Writers -> {"idle", "derive", "stamp", "open", "write", "replace"}]
      /\ fd \in [Writers -> {"none", "tmp", "live", "gone"}]
      /\ DOMAIN out = Writers /\ DOMAIN base = Writers /\ DOMAIN job = Writers
      /\ opened \subseteq Writers
      /\ commits \in Nat /\ crashes \in Nat
      /\ \A p \in staged \cup landed \cup dropped : IsProposal(p)
      /\ \A w \in Writers : ServerTyped(w)
  BY DEF GateTyped, IsFile
<1>1. CASE Staging
  <2> PICK kind \in {"actions", "abstract", "decompose"} : \E delta : Stage(kind, delta)
    BY <1>1 DEF Staging
  <2> PICK delta : Stage(kind, delta)
    OBVIOUS
  <2>1. IsProposal([kind |-> kind, delta |-> delta, base |-> live])
    BY <1>0 DEF IsProposal, NoJob
  <2>2. \A p \in (staged \cup landed \cup dropped)' : IsProposal(p)
    BY <1>0, <2>1 DEF Stage
  <2>3. UNCHANGED <<vars, job, opened>>
    BY DEF Stage
  <2>4. \A w \in Writers : ServerTyped(w)'
    BY <1>0, <2>3 DEF ServerTyped, vars
  <2> QED
    BY <1>0, <2>2, <2>3, <2>4 DEF GateTyped, vars
<1>2. ASSUME NEW w \in Writers, NEW p \in staged, Discard(w, p) PROVE GateTyped'
  <2>1. \A v \in Writers : ServerTyped(v)'
    BY <1>0, <1>2 DEF Discard, ServerTyped, vars
  <2> QED
    BY <1>0, <1>2, <2>1 DEF Discard, GateTyped, vars
<1>3. ASSUME NEW w \in Writers, NEW p \in staged, OpenProposal(w, p) PROVE GateTyped'
  <2>1. IsProposal(p) /\ p # NoJob
    BY <1>0 DEF IsProposal
  <2>2. \A v \in Writers : ServerTyped(v)'
    BY <1>0, <1>3, <2>1 DEF OpenProposal, Free, Idle, ServerTyped, vars
  <2> QED
    BY <1>0, <1>3, <2>2 DEF OpenProposal, GateTyped, vars
<1>4. ASSUME NEW w \in Writers, Answer(w), UNCHANGED vars, pc[w] = "idle" PROVE GateTyped'
  <2>1. \A v \in Writers : ServerTyped(v)'
    BY <1>0, <1>4 DEF Answer, ServerTyped, vars
  <2> QED
    BY <1>0, <1>4, <2>1 DEF Answer, GateTyped, vars
<1>5. ASSUME NEW w \in Writers, w \in opened PROVE pc[w] = "idle"
  BY <1>0, <1>5 DEF ServerTyped
<1>6. ASSUME NEW w \in Writers, CommitActions(w) PROVE GateTyped'
  <2>1. ASSUME Load(w, job[w].delta), opened' = opened \ {w},
               UNCHANGED <<staged, job, proposals, landed, dropped>>
        PROVE  GateTyped'
    <3>1. out'[w].rev \in Nat /\ out'[w] = Whole(out'[w].arr, out'[w].rev)
      BY <1>0, <2>1 DEF Load, Whole
    <3>2. job[w] # NoJob
      BY <1>0, <1>6 DEF CommitActions, ServerTyped
    <3>3. /\ pc[w] = "idle" /\ pc' = [pc EXCEPT ![w] = "stamp"] /\ fd' = fd /\ job' = job
          /\ \A v \in Writers \ {w} : out'[v] = out[v]
      BY <1>0, <2>1 DEF Load, Idle
    <3>4. ServerTyped(w)'
      BY <1>0, <2>1, <3>1, <3>2, <3>3 DEF ServerTyped
    <3>5. \A v \in Writers \ {w} : ServerTyped(v)'
      BY <1>0, <2>1, <3>3 DEF ServerTyped
    <3> QED
      BY <1>0, <2>1, <3>4, <3>5 DEF Load, GateTyped
  <2> QED
    BY <1>4, <1>5, <1>6, <2>1 DEF CommitActions
<1>7. ASSUME NEW w \in Writers, CheckBase(w) PROVE GateTyped'
  <2>1. ASSUME Deriving(w) PROVE GateTyped'
    <3>1. \A v \in Writers : ServerTyped(v)'
      BY <1>0, <1>7, <2>1 DEF CheckBase, Deriving, ServerTyped
    <3> QED
      BY <1>0, <2>1, <3>1 DEF Deriving, GateTyped
  <2> QED
    BY <1>4, <1>5, <1>7, <2>1 DEF CheckBase
<1>8. ASSUME NEW w \in Writers, Derive(w) PROVE GateTyped'
  <2> DEFINE result == Restructured(live.arr, job[w])
  <2>1. ASSUME Derived(w, result), pc[w] = "derive" PROVE GateTyped'
    <3>1. out'[w].rev \in Nat /\ out'[w] = Whole(out'[w].arr, out'[w].rev)
      BY <1>0, <2>1 DEF Derived, Whole
    <3> HIDE DEF result
    <3>2. \A v \in Writers : ServerTyped(v)'
      BY <1>0, <2>1, <3>1 DEF Derived, ServerTyped, gateVars
    <3> QED
      BY <1>0, <2>1, <3>2 DEF Derived, GateTyped, gateVars
  <2>2. ASSUME Refused(w), pc[w] = "derive" PROVE GateTyped'
    <3>1. \A v \in Writers : ServerTyped(v)'
      BY <1>0, <2>2 DEF Refused, Answer, ServerTyped
    <3> QED
      BY <1>0, <2>2, <3>1 DEF Refused, Answer, GateTyped
  <2> QED
    BY <1>8, <2>1, <2>2 DEF Derive
<1>9. ASSUME NEW w \in Writers, Save(w) PROVE GateTyped'
  <2>0. UNCHANGED gateVars
    BY <1>9 DEF Save
  <2>1. ASSUME Stamp(w) PROVE GateTyped'
    <3>1. out'[w].rev \in Nat /\ out'[w] = Whole(out'[w].arr, out'[w].rev)
      BY <1>0, <2>1 DEF Stamp, ServerTyped, Later, Whole
    <3>2. \A v \in Writers : ServerTyped(v)'
      BY <1>0, <2>0, <2>1, <3>1 DEF Stamp, ServerTyped, gateVars
    <3> QED
      BY <1>0, <2>0, <2>1, <3>2 DEF Stamp, GateTyped, gateVars
  <2>2. ASSUME OpenTmp(w) PROVE GateTyped'
    <3>1. \A v \in Writers : ServerTyped(v)'
      BY <1>0, <2>0, <2>2 DEF OpenTmp, ServerTyped, gateVars
    <3> QED
      BY <1>0, <2>0, <2>2, <3>1, FileKinds DEF OpenTmp, GateTyped, gateVars
  <2>3. ASSUME WriteTmp(w) PROVE GateTyped'
    <3>1. IsFile(out[w]) /\ out[w] # Absent
      BY <1>0, <2>3, FileKinds DEF WriteTmp, ServerTyped
    <3>2. IsFile(tmp') /\ IsFile(live')
      BY <1>0, <2>3, <3>1, OverlayType DEF WriteTmp
    <3>3. \A v \in Writers : ServerTyped(v)'
      BY <1>0, <2>0, <2>3 DEF WriteTmp, ServerTyped, gateVars
    <3> QED
      BY <1>0, <2>0, <2>3, <3>2, <3>3 DEF WriteTmp, GateTyped, gateVars
  <2> QED
    BY <1>9, <2>1, <2>2, <2>3 DEF Save
<1>10. ASSUME NEW w \in Writers, Landed(w) PROVE GateTyped'
  <2>1. IsProposal(job[w])
    BY <1>0, <1>10 DEF Landed, Replace, ServerTyped
  <2>2. \A v \in Writers : fd'[v] # "none" <=> pc[v] = "write"
    BY <1>0, <1>10 DEF Landed, Replace, Moved, ServerTyped
  <2>3. \A v \in Writers : ServerTyped(v)'
    BY <1>0, <1>10, <2>2 DEF Landed, Replace, Return, ServerTyped
  <2>4. fd' \in [Writers -> {"none", "tmp", "live", "gone"}]
    BY <1>0, <1>10 DEF Landed, Replace, Moved
  <2> QED
    BY <1>0, <1>10, <2>1, <2>3, <2>4, FileKinds DEF Landed, Replace, Return, GateTyped
<1>11. ASSUME NEW w \in Writers, SaveFails(w) PROVE GateTyped'
  <2>1. \A v \in Writers : ServerTyped(v)'
    BY <1>0, <1>11 DEF SaveFails, ReplaceFails, Return, Answer, ServerTyped
  <2> QED
    BY <1>0, <1>11, <2>1 DEF SaveFails, ReplaceFails, Return, Answer, GateTyped
<1>12. ASSUME NEW w \in Writers, Remove(w) PROVE GateTyped'
  <2>1. \A v \in Writers : ServerTyped(v)'
    BY <1>0, <1>12 DEF Remove, Idle, ServerTyped, vars
  <2> QED
    BY <1>0, <1>12, <2>1 DEF Remove, GateTyped, vars
<1>13. ASSUME NEW w \in Writers, ServerCrash(w) PROVE GateTyped'
  <2>1. \A v \in Writers : ServerTyped(v)'
    BY <1>0, <1>13 DEF ServerCrash, Return, Answer, ServerTyped
  <2> QED
    BY <1>0, <1>13, <2>1 DEF ServerCrash, Return, Answer, GateTyped
<1>14. CASE UNCHANGED allVars
  <2>1. UNCHANGED vars /\ UNCHANGED gateVars
    BY <1>14 DEF allVars
  <2>2. \A v \in Writers : ServerTyped(v)'
    BY <1>0, <2>1 DEF ServerTyped, vars, gateVars
  <2> QED
    BY <1>0, <2>1, <2>2 DEF GateTyped, vars, gateVars
<1> QED
  BY <1>1, <1>2, <1>3, <1>6, <1>7, <1>8, <1>9, <1>10, <1>11, <1>12, <1>13, <1>14, GateSteps

\* From the initial state on, the variables keep their types.
LEMMA GateTypes == MCPSpec => []GateTyped
BY GateTypeInit, GateTypeNext, PTL DEF MCPSpec
-----------------------------------------------------------------------------
(***************************************************************************)
(* Soundness: what a structural commit derives is checked like a batch.    *)
(***************************************************************************)
LEMMA GateSoundInit == MCPInit => SoundInv
BY SoundInit DEF MCPInit

LEMMA GateSoundNext == GateTyped /\ SoundInv /\ [MCPNext]_allVars => SoundInv'
<1> SUFFICES ASSUME GateTyped, SoundInv, [MCPNext]_allVars PROVE SoundInv'
  OBVIOUS
<1>0. /\ DOMAIN out = Writers
      /\ ValidateArrangement(live.arr) /\ ValidateArrangement(tmp.arr)
      /\ \A v \in Writers : ValidateArrangement(out[v].arr)
  BY DEF GateTyped, SoundInv, PublishedSound
<1>1. ASSUME live' = live, tmp' = tmp, out' = out PROVE SoundInv'
  BY <1>0, <1>1 DEF SoundInv, PublishedSound
<1>2. CASE Staging
  BY <1>1, <1>2 DEF Staging, Stage, vars
<1>3. ASSUME NEW w \in Writers, NEW p \in staged, Discard(w, p) \/ OpenProposal(w, p)
      PROVE  SoundInv'
  BY <1>1, <1>3 DEF Discard, OpenProposal, vars
<1>4. ASSUME NEW w \in Writers, CommitActions(w) PROVE SoundInv'
  <2>1. ASSUME Load(w, job[w].delta) PROVE SoundInv'
    <3>1. ValidateArrangement(Whole(Apply(live.arr, job[w].delta), live.rev).arr)
      BY <2>1 DEF Load, Accepted, Whole
    <3> QED
      BY <1>0, <2>1, <3>1 DEF Load, SoundInv, PublishedSound
  <2> QED
    BY <1>1, <1>4, <2>1 DEF CommitActions, vars
<1>5. ASSUME NEW w \in Writers, CheckBase(w) \/ Remove(w) PROVE SoundInv'
  BY <1>1, <1>5 DEF CheckBase, Deriving, Remove, vars
<1>6. ASSUME NEW w \in Writers, Derive(w) PROVE SoundInv'
  <2> DEFINE result == Restructured(live.arr, job[w])
  <2>1. ASSUME Derived(w, result), ValidateArrangement(result) PROVE SoundInv'
    <3>1. ValidateArrangement(Whole(result, live.rev).arr)
      BY <2>1 DEF Whole
    <3> HIDE DEF result
    <3> QED
      BY <1>0, <2>1, <3>1 DEF Derived, SoundInv, PublishedSound
  <2> QED
    BY <1>1, <1>6, <2>1 DEF Derive, Refused
<1>7. ASSUME NEW w \in Writers, Save(w) PROVE SoundInv'
  <2>1. ASSUME Stamp(w) PROVE SoundInv'
    <3>1. \A rev : ValidateArrangement(Whole(out[w].arr, rev).arr)
      BY <1>0 DEF Whole
    <3> QED
      BY <1>0, <2>1, <3>1 DEF Stamp, SoundInv, PublishedSound
  <2>2. ASSUME OpenTmp(w) PROVE SoundInv'
    BY <1>0, <2>2, EmptySound DEF OpenTmp, Created, SoundInv, PublishedSound
  <2>3. ASSUME WriteTmp(w) PROVE SoundInv'
    BY <1>0, <2>3, OverlaySound DEF WriteTmp, SoundInv, PublishedSound
  <2> QED
    BY <1>7, <2>1, <2>2, <2>3 DEF Save
<1>8. ASSUME NEW w \in Writers, Return(w)
      PROVE  \A v \in Writers : ValidateArrangement(out'[v].arr)
  BY <1>0, <1>8, EmptySound DEF Return, Absent
<1>9. ASSUME NEW w \in Writers, Landed(w) \/ SaveFails(w) \/ ServerCrash(w) PROVE SoundInv'
  BY <1>0, <1>8, <1>9, EmptySound
  DEF Landed, Replace, SaveFails, ReplaceFails, ServerCrash, Absent, SoundInv, PublishedSound
<1>10. CASE UNCHANGED allVars
  BY <1>1, <1>10 DEF allVars, vars
<1> QED
  BY <1>2, <1>3, <1>4, <1>5, <1>6, <1>7, <1>9, <1>10, GateSteps

(* Whatever servers share the live dir, and whatever batches, folds and    *)
(* unfolds they commit over one another, what can be read is sound.        *)
THEOREM GateAlwaysSound == MCPSpec => []PublishedSound
<1>1. MCPInit => GateTyped /\ SoundInv
  BY GateTypeInit, GateSoundInit
<1>2. GateTyped /\ SoundInv /\ [MCPNext]_allVars => (GateTyped /\ SoundInv)'
  BY GateTypeNext, GateSoundNext
<1>3. SoundInv => PublishedSound
  BY DEF SoundInv
<1> QED
  BY <1>1, <1>2, <1>3, PTL DEF MCPSpec
-----------------------------------------------------------------------------
(***************************************************************************)
(* A proposal's file is removed by the call that landed it, or discarded.  *)
(* A call that has only the file to remove has landed its proposal.        *)
(***************************************************************************)
Finishing(w) == pc[w] = "idle" /\ job[w] # NoJob /\ w \notin opened

FinishedLanded == \A w \in Writers : Finishing(w) => job[w] \in landed

LEMMA FinishedInit == MCPInit => FinishedLanded
BY DEF MCPInit, FinishedLanded, Finishing

LEMMA FinishedNext == GateTyped /\ FinishedLanded /\ [MCPNext]_allVars => FinishedLanded'
<1> SUFFICES ASSUME GateTyped, FinishedLanded, [MCPNext]_allVars PROVE FinishedLanded'
  OBVIOUS
<1> USE DEF FinishedLanded, Finishing
<1>0. /\ pc \in [Writers -> {"idle", "derive", "stamp", "open", "write", "replace"}]
      /\ DOMAIN job = Writers
      /\ \A w \in Writers : pc[w] # "idle" => job[w] # NoJob /\ w \notin opened
  BY DEF GateTyped, ServerTyped
<1>1. CASE Staging
  BY <1>1 DEF Staging, Stage, vars
<1>2. ASSUME NEW w \in Writers, NEW p \in staged, Discard(w, p) PROVE FinishedLanded'
  BY <1>2 DEF Discard, vars
<1>3. ASSUME NEW w \in Writers, NEW p \in staged, OpenProposal(w, p) PROVE FinishedLanded'
  BY <1>0, <1>3 DEF OpenProposal, vars
<1>4. ASSUME NEW w \in Writers, Answer(w), \A v \in Writers \ {w} : pc'[v] = pc[v]
      PROVE  FinishedLanded'
  BY <1>0, <1>4 DEF Answer
<1>5. ASSUME NEW w \in Writers, CommitActions(w) \/ CheckBase(w) PROVE FinishedLanded'
  <2>1. ASSUME Load(w, job[w].delta), opened' = opened \ {w}, UNCHANGED <<job, landed>>
        PROVE  FinishedLanded'
    BY <1>0, <2>1 DEF Load
  <2>2. ASSUME Deriving(w) PROVE FinishedLanded'
    BY <1>0, <2>2 DEF Deriving
  <2> QED
    BY <1>4, <1>5, <2>1, <2>2 DEF CommitActions, CheckBase, vars
<1>6. ASSUME NEW w \in Writers, Derive(w) PROVE FinishedLanded'
  <2>1. ASSUME Derived(w, Restructured(live.arr, job[w])) PROVE FinishedLanded'
    BY <1>0, <2>1 DEF Derived, gateVars
  <2>2. ASSUME Refused(w) PROVE FinishedLanded'
    BY <1>0, <1>4, <2>2 DEF Refused
  <2> QED
    BY <1>6, <2>1, <2>2 DEF Derive
<1>7. ASSUME NEW w \in Writers, Save(w) PROVE FinishedLanded'
  BY <1>0, <1>7 DEF Save, Stamp, OpenTmp, WriteTmp, gateVars
<1>8. ASSUME NEW w \in Writers, Landed(w) PROVE FinishedLanded'
  BY <1>0, <1>8 DEF Landed, Replace, Return
<1>9. ASSUME NEW w \in Writers, SaveFails(w) \/ ServerCrash(w) PROVE FinishedLanded'
  BY <1>0, <1>4, <1>9 DEF SaveFails, ReplaceFails, ServerCrash, Return
<1>10. ASSUME NEW w \in Writers, Remove(w) PROVE FinishedLanded'
  BY <1>0, <1>10 DEF Remove, vars
<1>11. CASE UNCHANGED allVars
  BY <1>11 DEF allVars, vars, gateVars
<1> QED
  BY <1>1, <1>2, <1>3, <1>5, <1>6, <1>7, <1>8, <1>9, <1>10, <1>11, GateSteps

LEMMA LeavesOnlyDone ==
    ASSUME FinishedLanded, [MCPNext]_allVars, NEW p \in staged \ staged'
    PROVE  p \in landed' \cup dropped'
<1>1. ~Staging
  BY DEF Staging, Stage
<1>2. ASSUME NEW w \in Writers, NEW q \in staged, Discard(w, q) PROVE p \in dropped'
  BY <1>2 DEF Discard
<1>3. ASSUME NEW w \in Writers, Remove(w) PROVE p \in landed'
  BY <1>3 DEF Remove, FinishedLanded, Finishing, Idle
<1>4. ASSUME NEW w \in Writers,
             \/ CommitActions(w) \/ CheckBase(w) \/ Derive(w) \/ Save(w)
             \/ Landed(w) \/ SaveFails(w) \/ ServerCrash(w)
      PROVE  FALSE
  BY <1>4 DEF CommitActions, CheckBase, Deriving, Derive, Derived, Refused, Save, Landed,
              SaveFails, ServerCrash, Answer, gateVars
<1>5. ASSUME NEW w \in Writers, NEW q \in staged, OpenProposal(w, q) PROVE FALSE
  BY <1>5 DEF OpenProposal
<1>6. CASE UNCHANGED allVars
  BY <1>6 DEF allVars, gateVars
<1> QED
  BY <1>1, <1>2, <1>3, <1>4, <1>5, <1>6, GateSteps

(* A refused, failed or killed commit never consumes its proposal, however *)
(* many servers commit, discard and stage at once.                         *)
THEOREM ProposalsAreNeverLost == MCPSpec => NothingLost
<1>1. MCPInit => GateTyped /\ FinishedLanded
  BY GateTypeInit, FinishedInit
<1>2. GateTyped /\ FinishedLanded /\ [MCPNext]_allVars => (GateTyped /\ FinishedLanded)'
  BY GateTypeNext, FinishedNext
<1>3. FinishedLanded /\ [MCPNext]_allVars =>
         [\A p \in staged \ staged' : p \in landed' \cup dropped']_allVars
  BY LeavesOnlyDone
<1> QED
  BY <1>1, <1>2, <1>3, PTL DEF MCPSpec, NothingLost

-----------------------------------------------------------------------------
(***************************************************************************)
(* One server process.  LandsAsApproved speaks of the moment a commit      *)
(* lands; what makes it true then is that nothing touched the live file,   *)
(* the temporary file or the proposal's since the commit opened it.        *)
(***************************************************************************)
Alone == \A v, w \in Writers : job[v] # NoJob /\ job[w] # NoJob => v = w

\* The commit a server is in, at each place of it.
InHand(w) ==
    /\ job[w] # NoJob /\ ~Finishing(w) => job[w] \in staged
    /\ job[w] # NoJob => job[w].base.rev <= live.rev
    /\ fd[w] \in {"none", "tmp"}
    /\ pc[w] = "write" => tmp = Created
    /\ pc[w] = "replace" => tmp = out[w]
    /\ pc[w] \in {"open", "write", "replace"} => out[w].rev > live.rev
    /\ pc[w] # "idle" /\ job[w].kind # "actions" =>
          /\ live = job[w].base
          /\ pc[w] # "derive" => out[w].arr = Restructured(live.arr, job[w])
    /\ pc[w] = "derive" => job[w].kind # "actions"

\* A proposal is made on the live file, and one that landed on an older one.
InOrder ==
    /\ \A p \in staged : p.base.rev <= live.rev
    /\ \A p \in landed : p.base.rev < live.rev

\* The proposals a crash has left behind.
Orphans == {p \in staged \cap landed : \A w \in Writers : Finishing(w) => job[w] # p}

CrashesOrphan == IsFiniteSet(Orphans) /\ Cardinality(Orphans) <= crashes

SerialGate == Alone /\ (\A w \in Writers : InHand(w)) /\ InOrder /\ FinishedLanded

LEMMA SerialGateInit == MCPInit => SerialGate
BY DEF MCPInit, Init, SerialGate, Alone, InHand, InOrder, FinishedLanded, Finishing

\* A server without a proposal does nothing that InHand speaks of.
LEMMA AtRest ==
    ASSUME NEW w \in Writers, job[w] = NoJob, pc[w] = "idle", fd[w] = "none"
    PROVE  InHand(w)
BY DEF InHand

LEMMA RestsWithout ==
    ASSUME GateTyped, NEW w \in Writers, job[w] = NoJob
    PROVE  pc[w] = "idle" /\ fd[w] = "none"
BY DEF GateTyped, ServerTyped

\* With one server process nobody else has a proposal while one commits.
LEMMA SerialGateNext ==
    ASSUME Serialized, GateTyped, SerialGate, [MCPNext]_allVars
    PROVE  SerialGate'
<1>0. /\ live.rev \in Nat
      /\ pc \in [Writers -> {"idle", "derive", "stamp", "open", "write", "replace"}]
      /\ fd \in [Writers -> {"none", "tmp", "live", "gone"}]
      /\ DOMAIN out = Writers /\ DOMAIN job = Writers
      /\ Alone /\ InOrder
      /\ \A w \in Writers : InHand(w) /\ ServerTyped(w)
      /\ \A p \in staged \cup landed \cup dropped : IsProposal(p)
  BY DEF GateTyped, SerialGate, IsFile
<1>1. FinishedLanded'
  BY FinishedNext DEF SerialGate
\* The rest of the invariant after a step of one server, the others at rest.
<1>2. ASSUME NEW w \in Writers, job[w] # NoJob,
             \A v \in Writers \ {w} : pc'[v] = pc[v] /\ fd'[v] = fd[v] /\ job'[v] = job[v],
             InHand(w)', InOrder'
      PROVE  SerialGate'
  <2>1. ASSUME NEW v \in Writers \ {w}
        PROVE  job'[v] = NoJob /\ pc'[v] = "idle" /\ fd'[v] = "none"
    <3>1. job[v] = NoJob
      BY <1>0, <1>2, <2>1 DEF Alone
    <3> QED
      BY <1>0, <1>2, <2>1, <3>1, RestsWithout
  <2>2. Alone'
    BY <2>1 DEF Alone, NoJob
  <2>3. \A v \in Writers \ {w} : InHand(v)'
    BY <2>1 DEF InHand
  <2> QED
    BY <1>1, <1>2, <2>2, <2>3 DEF SerialGate
\* ... and after one that no server is past idle at.
<1>3. ASSUME UNCHANGED <<pc, fd, job>>, \A w \in Writers : job[w] = NoJob, InOrder'
      PROVE  SerialGate'
  <2>1. \A v \in Writers : job'[v] = NoJob /\ pc'[v] = "idle" /\ fd'[v] = "none"
    BY <1>3, RestsWithout
  <2>2. Alone'
    BY <2>1 DEF Alone
  <2>3. \A v \in Writers : InHand(v)'
    BY <2>1 DEF InHand
  <2> QED
    BY <1>1, <1>3, <2>2, <2>3 DEF SerialGate
<1>4. ASSUME NEW w \in Writers, Free(w) PROVE \A v \in Writers : job[v] = NoJob
  BY <1>4 DEF Free
<1>5. ASSUME NEW w \in Writers,
             \/ \E b \in Batches : Propose(w, b)
             \/ \E ids : ProposeAbstract(w, ids)
             \/ \E id : ProposeDecompose(w, id)
      PROVE  SerialGate'
  <2>1. PICK kind, delta : Stage(kind, delta)
    BY <1>5 DEF Propose, ProposeAbstract, ProposeDecompose
  <2>2. Free(w)
    BY <1>5 DEF Propose, ProposeAbstract, ProposeDecompose
  <2>3. UNCHANGED <<pc, fd, job, live, landed>>
    BY <2>1 DEF Stage, vars
  <2>4. \A p \in staged' : p.base.rev <= live.rev
    BY <1>0, <2>1 DEF Stage, InOrder
  <2>5. InOrder'
    BY <1>0, <2>3, <2>4 DEF InOrder
  <2> QED
    BY <1>3, <1>4, <2>2, <2>3, <2>5
<1>6. ASSUME NEW w \in Writers, NEW p \in staged, Discard(w, p) PROVE SerialGate'
  <2>1. UNCHANGED <<pc, fd, job, live, landed>> /\ staged' \subseteq staged
    BY <1>6 DEF Discard, vars
  <2>2. InOrder'
    BY <1>0, <2>1 DEF InOrder
  <2> QED
    BY <1>3, <1>4, <1>6, <2>1, <2>2 DEF Discard
<1>7. ASSUME NEW w \in Writers, NEW p \in staged, OpenProposal(w, p) PROVE SerialGate'
  <2>1. /\ UNCHANGED <<pc, fd, live, staged, landed>>
        /\ job' = [job EXCEPT ![w] = p] /\ job'[w] = p /\ pc'[w] = "idle"
        /\ w \in opened' /\ fd[w] = "none"
    BY <1>0, <1>7, <1>4, RestsWithout DEF OpenProposal, vars, Free, Idle
  <2>2. \A v \in Writers \ {w} : job'[v] = NoJob
    BY <1>4, <1>7, <2>1 DEF OpenProposal
  <2>3. \A v \in Writers : pc'[v] = "idle" /\ fd'[v] = "none"
    BY <1>4, <1>7, <2>1, RestsWithout DEF OpenProposal
  <2>4. \A v \in Writers \ {w} : InHand(v)'
    BY <2>2, <2>3 DEF InHand
  <2>5. InHand(w)'
    BY <1>0, <2>1, <2>3 DEF InHand, InOrder
  <2>6. Alone' /\ InOrder'
    BY <1>0, <2>1, <2>2 DEF Alone, InOrder
  <2> QED
    BY <1>1, <2>4, <2>5, <2>6 DEF SerialGate
\* An answer forgets the proposal and leaves the files alone.
<1>8. ASSUME NEW w \in Writers, job[w] # NoJob, Answer(w), live' = live,
             pc' = [pc EXCEPT ![w] = "idle"], fd' = [fd EXCEPT ![w] = "none"]
      PROVE  SerialGate'
  <2>1. job' = [job EXCEPT ![w] = NoJob] /\ UNCHANGED <<staged, landed>>
    BY <1>8 DEF Answer
  <2>2. InHand(w)'
    BY <1>0, <1>8, <2>1 DEF InHand
  <2>3. InOrder'
    BY <1>0, <1>8, <2>1 DEF InOrder
  <2> QED
    BY <1>0, <1>2, <1>8, <2>1, <2>2, <2>3
<1>9. ASSUME NEW w \in Writers, w \in opened
      PROVE  pc[w] = "idle" /\ fd[w] = "none" /\ job[w] # NoJob /\ job[w] \in staged
  <2>1. pc[w] = "idle" /\ fd[w] = "none" /\ job[w] # NoJob
    BY <1>0, <1>9 DEF ServerTyped
  <2> QED
    BY <1>0, <1>9, <2>1 DEF InHand, Finishing
<1>10. ASSUME NEW w \in Writers, w \in opened, Answer(w), UNCHANGED vars PROVE SerialGate'
  <2>1. pc' = [pc EXCEPT ![w] = "idle"] /\ fd' = [fd EXCEPT ![w] = "none"] /\ live' = live
    BY <1>0, <1>9, <1>10 DEF vars
  <2> QED
    BY <1>8, <1>9, <1>10, <2>1
<1>11. ASSUME NEW w \in Writers, CommitActions(w) PROVE SerialGate'
  <2>1. ASSUME Load(w, job[w].delta), opened' = opened \ {w},
               UNCHANGED <<staged, job, proposals, landed, dropped>>
        PROVE  SerialGate'
    <3>1. /\ pc' = [pc EXCEPT ![w] = "stamp"] /\ pc'[w] = "stamp"
          /\ UNCHANGED <<live, fd, job, staged, landed>>
      BY <1>0, <2>1 DEF Load
    <3>2. job[w].kind = "actions"
      BY <1>11 DEF CommitActions
    <3>3. InHand(w)'
      BY <1>0, <1>9, <1>11, <3>1, <3>2 DEF InHand, CommitActions
    <3>4. InOrder'
      BY <1>0, <3>1 DEF InOrder
    <3> QED
      BY <1>0, <1>2, <1>9, <1>11, <3>1, <3>3, <3>4 DEF CommitActions
  <2> QED
    BY <1>10, <1>11, <2>1 DEF CommitActions
<1>12. ASSUME NEW w \in Writers, CheckBase(w) PROVE SerialGate'
  <2>1. ASSUME Deriving(w), job[w].base = live PROVE SerialGate'
    <3>1. /\ pc' = [pc EXCEPT ![w] = "derive"] /\ pc'[w] = "derive"
          /\ UNCHANGED <<live, fd, job, staged, landed>>
      BY <1>0, <2>1 DEF Deriving
    <3>2. InHand(w)'
      BY <1>0, <1>9, <1>12, <2>1, <3>1 DEF InHand, CheckBase
    <3>3. InOrder'
      BY <1>0, <3>1 DEF InOrder
    <3> QED
      BY <1>0, <1>2, <1>9, <1>12, <3>1, <3>2, <3>3 DEF CheckBase
  <2> QED
    BY <1>10, <1>12, <2>1 DEF CheckBase
\* From here on the server is past idle: it holds its proposal, still staged.
<1>13. ASSUME NEW w \in Writers, pc[w] # "idle"
       PROVE  job[w] # NoJob /\ job[w] \in staged
  BY <1>0, <1>13 DEF InHand, ServerTyped, Finishing
<1>14. ASSUME NEW w \in Writers, Derive(w) PROVE SerialGate'
  <2> DEFINE result == Restructured(live.arr, job[w])
  <2>1. ASSUME Derived(w, result), pc[w] = "derive" PROVE SerialGate'
    <3>1. /\ pc' = [pc EXCEPT ![w] = "stamp"] /\ pc'[w] = "stamp"
          /\ UNCHANGED <<live, fd, job, staged, landed>>
          /\ out'[w].arr = result
      BY <1>0, <2>1 DEF Derived, gateVars, Whole
    <3> HIDE DEF result
    <3>2. InHand(w)'
      <4>1. out'[w].arr = Restructured(live'.arr, job'[w])
        BY <3>1 DEF result
      <4>2. live = job[w].base /\ fd[w] \in {"none", "tmp"}
            /\ job[w].base.rev <= live.rev
        BY <1>0, <1>13, <2>1 DEF InHand
      <4> QED
        BY <1>13, <2>1, <3>1, <4>1, <4>2 DEF InHand
    <3>3. InOrder'
      BY <1>0, <3>1 DEF InOrder
    <3> QED
      BY <1>0, <1>2, <1>13, <2>1, <3>1, <3>2, <3>3
  <2>2. ASSUME Refused(w), pc[w] = "derive" PROVE SerialGate'
    <3>1. job[w] # NoJob /\ fd' = [fd EXCEPT ![w] = "none"]
      BY <1>0, <1>13, <2>2 DEF Refused, ServerTyped
    <3> QED
      BY <1>8, <2>2, <3>1 DEF Refused
  <2> QED
    BY <1>14, <2>1, <2>2 DEF Derive
<1>15. ASSUME NEW w \in Writers, Save(w) PROVE SerialGate'
  <2>0. /\ UNCHANGED <<job, staged, landed, opened>>
        /\ pc[w] # "idle" /\ job[w] # NoJob /\ job[w] \in staged
    BY <1>13, <1>15 DEF Save, Stamp, OpenTmp, WriteTmp, gateVars
  <2>1. ASSUME Stamp(w) PROVE SerialGate'
    <3>1. /\ pc' = [pc EXCEPT ![w] = "open"] /\ pc'[w] = "open"
          /\ UNCHANGED <<live, fd>>
          /\ out'[w].arr = out[w].arr
          /\ out'[w].rev = Later(live.rev, out[w].rev) + 1
      BY <1>0, <2>1 DEF Stamp, Whole
    <3>2. out'[w].rev > live.rev
      BY <1>0, <2>1, <3>1 DEF Later, Stamp, ServerTyped
    <3>3. job[w].kind # "actions" =>
             live = job[w].base /\ out[w].arr = Restructured(live.arr, job[w])
      BY <1>0, <2>1 DEF InHand, Stamp
    <3>4. InHand(w)'
      BY <1>0, <2>0, <3>1, <3>2, <3>3 DEF InHand
    <3>5. InOrder'
      BY <1>0, <2>0, <3>1 DEF InOrder
    <3> QED
      BY <1>0, <1>2, <2>0, <3>1, <3>4, <3>5
  <2>2. ASSUME OpenTmp(w) PROVE SerialGate'
    <3>1. /\ pc' = [pc EXCEPT ![w] = "write"] /\ pc'[w] = "write"
          /\ fd' = [fd EXCEPT ![w] = "tmp"] /\ fd'[w] = "tmp"
          /\ tmp' = Created /\ UNCHANGED <<live, out>>
      BY <1>0, <2>2 DEF OpenTmp
    <3>2. /\ out[w].rev > live.rev
          /\ job[w].kind # "actions" =>
                live = job[w].base /\ out[w].arr = Restructured(live.arr, job[w])
      BY <1>0, <2>2 DEF InHand, OpenTmp
    <3>3. InHand(w)'
      BY <1>0, <2>0, <3>1, <3>2 DEF InHand
    <3>4. InOrder'
      BY <1>0, <2>0, <3>1 DEF InOrder
    <3> QED
      BY <1>0, <1>2, <2>0, <3>1, <3>3, <3>4
  <2>3. ASSUME WriteTmp(w) PROVE SerialGate'
    <3>1. fd[w] = "tmp" /\ tmp = Created
      BY <1>0, <2>3 DEF WriteTmp, ServerTyped, InHand
    <3>2. /\ pc' = [pc EXCEPT ![w] = "replace"] /\ pc'[w] = "replace"
          /\ fd' = [fd EXCEPT ![w] = "none"] /\ fd'[w] = "none"
          /\ tmp' = out[w] /\ UNCHANGED <<live, out>>
      BY <1>0, <2>3, <3>1 DEF WriteTmp, Overlay, Created, Unreadable
    <3>3. /\ out[w].rev > live.rev
          /\ job[w].kind # "actions" =>
                live = job[w].base /\ out[w].arr = Restructured(live.arr, job[w])
      BY <1>0, <2>3 DEF InHand, WriteTmp
    <3>4. InHand(w)'
      BY <1>0, <2>0, <3>2, <3>3 DEF InHand
    <3>5. InOrder'
      BY <1>0, <2>0, <3>2 DEF InOrder
    <3> QED
      BY <1>0, <1>2, <2>0, <3>2, <3>4, <3>5
  <2> QED
    BY <1>15, <2>1, <2>2, <2>3 DEF Save
<1>16. ASSUME NEW w \in Writers, Landed(w) PROVE SerialGate'
  <2>1. /\ pc[w] = "replace" /\ fd[w] = "none" /\ job[w] # NoJob
        /\ job[w].base.rev <= live.rev /\ out[w].rev > live.rev /\ tmp = out[w]
        /\ IsProposal(job[w]) /\ out[w].rev \in Nat
    BY <1>0, <1>13, <1>16 DEF Landed, Replace, ServerTyped, InHand
  <2>2. /\ live' = out[w] /\ landed' = landed \cup {job[w]}
        /\ UNCHANGED <<staged, job, opened>>
        /\ pc' = [pc EXCEPT ![w] = "idle"]
    BY <1>16, <2>1 DEF Landed, Replace, Return
  <2>3. fd' = [fd EXCEPT ![w] = "none"]
    <3>1. \A v \in Writers : fd[v] \in {"none", "tmp"} /\ (v # w => fd[v] = "none")
      BY <1>0, <2>1, RestsWithout DEF Alone, InHand
    <3>2. fd = [v \in Writers |-> "none"]
      BY <1>0, <2>1, <3>1
    <3> QED
      BY <1>16, <3>2 DEF Landed, Replace, Moved
  <2>4. Finishing(w)'
    BY <1>0, <2>1, <2>2 DEF Finishing, ServerTyped
  <2>5. InHand(w)'
    BY <1>0, <2>1, <2>2, <2>3, <2>4 DEF InHand, IsProposal
  <2>6. \A p \in staged \cup landed \cup {job[w]} : p.base.rev < live'.rev
    BY <1>0, <2>1, <2>2 DEF InOrder, IsProposal
  <2>7. InOrder'
    BY <1>0, <2>1, <2>2, <2>6 DEF InOrder, IsProposal
  <2> QED
    BY <1>0, <1>2, <2>1, <2>2, <2>3, <2>5, <2>7
<1>17. ASSUME NEW w \in Writers, SaveFails(w) PROVE SerialGate'
  <2>1. pc[w] = "replace" /\ fd[w] = "none" /\ job[w] # NoJob
    BY <1>0, <1>13, <1>17 DEF SaveFails, ReplaceFails, ServerTyped
  <2> QED
    BY <1>0, <1>8, <1>17, <2>1 DEF SaveFails, ReplaceFails, Return
<1>18. ASSUME NEW w \in Writers, Remove(w) PROVE SerialGate'
  <2>1. /\ job[w] # NoJob /\ pc[w] = "idle" /\ fd[w] = "none"
        /\ UNCHANGED <<pc, fd, live, landed>> /\ staged' \subseteq staged
        /\ job' = [job EXCEPT ![w] = NoJob] /\ job'[w] = NoJob
    BY <1>0, <1>18 DEF Remove, Idle, vars, ServerTyped
  <2>2. InHand(w)'
    BY <2>1 DEF InHand
  <2>3. InOrder'
    BY <1>0, <2>1 DEF InOrder
  <2> QED
    BY <1>0, <1>2, <2>1, <2>2, <2>3
<1>19. ASSUME NEW w \in Writers, ServerCrash(w) PROVE SerialGate'
  BY <1>8, <1>19 DEF ServerCrash, Return
<1>20. CASE UNCHANGED allVars
  <2>1. UNCHANGED <<live, tmp, pc, out, fd, staged, job, opened, landed>>
    BY <1>20 DEF allVars, vars, gateVars
  <2>2. \A w \in Writers : InHand(w)'
    BY <1>0, <2>1 DEF InHand, Finishing
  <2>3. Alone' /\ InOrder'
    BY <1>0, <2>1 DEF Alone, InOrder
  <2> QED
    BY <1>1, <2>2, <2>3 DEF SerialGate
<1> QED
  BY <1>5, <1>6, <1>7, <1>11, <1>12, <1>14, <1>15, <1>16, <1>17, <1>18, <1>19, <1>20 DEF MCPNext

-----------------------------------------------------------------------------
(***************************************************************************)
(* Each crash leaves at most one landed proposal behind, and nothing else  *)
(* does: a proposal that is staged again is made on a later graph, and one *)
(* whose call has only to remove it is not left behind.                    *)
(***************************************************************************)
LEMMA FewerOrphans ==
    ASSUME GateTyped, CrashesOrphan, Orphans' \subseteq Orphans, crashes' = crashes
    PROVE  CrashesOrphan'
<1>1. IsFiniteSet(Orphans') /\ Cardinality(Orphans') <= Cardinality(Orphans)
  BY FS_Subset DEF CrashesOrphan
<1>2. Cardinality(Orphans') \in Nat /\ Cardinality(Orphans) \in Nat /\ crashes \in Nat
  BY <1>1, FS_CardinalityType DEF CrashesOrphan, GateTyped
<1> QED
  BY <1>1, <1>2 DEF CrashesOrphan

LEMMA OneMoreOrphan ==
    ASSUME GateTyped, CrashesOrphan, NEW p, Orphans' \subseteq Orphans \cup {p},
           crashes' = crashes + 1
    PROVE  CrashesOrphan'
<1> DEFINE more == Orphans \cup {p}
<1>1. /\ IsFiniteSet(more)
      /\ Cardinality(more) = Cardinality(Orphans) \/ Cardinality(more) = Cardinality(Orphans) + 1
  BY FS_AddElement DEF CrashesOrphan
<1> HIDE DEF more
<1>2. IsFiniteSet(Orphans') /\ Cardinality(Orphans') <= Cardinality(more)
  BY <1>1, FS_Subset DEF more
<1>3. /\ Cardinality(Orphans') \in Nat /\ Cardinality(more) \in Nat
      /\ Cardinality(Orphans) \in Nat /\ crashes \in Nat
  BY <1>1, <1>2, FS_CardinalityType DEF CrashesOrphan, GateTyped
<1> QED
  BY <1>1, <1>2, <1>3 DEF CrashesOrphan

\* A call about to remove its file goes on being so in the steps of the others.
Stays(v) == Finishing(v) => Finishing(v)' /\ job'[v] = job[v]

LEMMA CrashesOrphanInit == MCPInit => CrashesOrphan
<1> SUFFICES ASSUME MCPInit PROVE CrashesOrphan
  OBVIOUS
<1>1. Orphans = {} /\ crashes = 0
  BY DEF MCPInit, Init, Orphans
<1> QED
  BY <1>1, FS_EmptySet DEF CrashesOrphan

LEMMA CrashesOrphanNext ==
    ASSUME GateTyped, SerialGate, CrashesOrphan, [MCPNext]_allVars
    PROVE  CrashesOrphan'
<1>0. /\ pc \in [Writers -> {"idle", "derive", "stamp", "open", "write", "replace"}]
      /\ DOMAIN job = Writers
      /\ \A w \in Writers : ServerTyped(w)
      /\ InOrder /\ live.rev \in Nat
  BY DEF GateTyped, SerialGate, IsFile
\* A step that stages or lands nothing and takes no finishing call away.
<1>1. ASSUME \A v \in Writers : Stays(v),
             staged' \subseteq staged, landed' = landed, crashes' = crashes
      PROVE  CrashesOrphan'
  <2>1. Orphans' \subseteq Orphans
    BY <1>1 DEF Orphans, Stays
  <2> QED
    BY <1>1, <2>1, FewerOrphans
<1>2. CASE Staging
  <2> PICK kind \in {"actions", "abstract", "decompose"} : \E delta : Stage(kind, delta)
    BY <1>2 DEF Staging
  <2> PICK delta : Stage(kind, delta)
    OBVIOUS
  <2> DEFINE p == [kind |-> kind, delta |-> delta, base |-> live]
  <2>1. /\ staged' = staged \cup {p} /\ landed' = landed
        /\ UNCHANGED <<pc, job, opened, crashes>>
    BY DEF Stage, vars
  <2>2. p \notin landed
    <3>1. p.base.rev = live.rev
      OBVIOUS
    <3> QED
      BY <1>0, <3>1 DEF InOrder
  <2> HIDE DEF p
  <2>3. Orphans' \subseteq Orphans
    BY <2>1, <2>2 DEF Orphans, Finishing
  <2> QED
    BY <2>1, <2>3, FewerOrphans
<1>3. ASSUME NEW w \in Writers, NEW p \in staged, Discard(w, p) PROVE CrashesOrphan'
  BY <1>1, <1>3 DEF Discard, Stays, Finishing, vars
<1>4. ASSUME NEW w \in Writers, NEW p \in staged, OpenProposal(w, p) PROVE CrashesOrphan'
  BY <1>0, <1>1, <1>4 DEF OpenProposal, Free, Stays, Finishing, vars
<1>5. ASSUME NEW w \in Writers, ~Finishing(w),
             \A v \in Writers \ {w} : pc'[v] = pc[v] /\ job'[v] = job[v],
             opened' \subseteq opened, staged' = staged, landed' = landed, crashes' = crashes
      PROVE  CrashesOrphan'
  <2>1. \A v \in Writers : Stays(v)
    BY <1>5 DEF Stays, Finishing
  <2> QED
    BY <1>1, <1>5, <2>1
<1>6. ASSUME NEW w \in Writers, CommitActions(w) PROVE CrashesOrphan'
  <2>1. ~Finishing(w)
    BY <1>6 DEF CommitActions, Finishing
  <2>2. ASSUME Load(w, job[w].delta), opened' = opened \ {w},
               UNCHANGED <<staged, job, proposals, landed, dropped>>
        PROVE  CrashesOrphan'
    BY <1>0, <1>5, <2>1, <2>2 DEF Load
  <2>3. ASSUME Answer(w), UNCHANGED vars PROVE CrashesOrphan'
    BY <1>0, <1>5, <2>1, <2>3 DEF Answer, vars
  <2> QED
    BY <1>6, <2>2, <2>3 DEF CommitActions
<1>7. ASSUME NEW w \in Writers, CheckBase(w) PROVE CrashesOrphan'
  <2>1. ~Finishing(w)
    BY <1>7 DEF CheckBase, Finishing
  <2>2. ASSUME Deriving(w) PROVE CrashesOrphan'
    BY <1>0, <1>5, <2>1, <2>2 DEF Deriving
  <2>3. ASSUME Answer(w), UNCHANGED vars PROVE CrashesOrphan'
    BY <1>0, <1>5, <2>1, <2>3 DEF Answer, vars
  <2> QED
    BY <1>7, <2>2, <2>3 DEF CheckBase
<1>8. ASSUME NEW w \in Writers, pc[w] # "idle",
             Derive(w) \/ Save(w) \/ SaveFails(w)
      PROVE  CrashesOrphan'
  <2>1. ~Finishing(w)
    BY <1>8 DEF Finishing
  <2>2. \A v \in Writers \ {w} : pc'[v] = pc[v] /\ job'[v] = job[v]
    BY <1>0, <1>8 DEF Derive, Derived, Refused, Save, Stamp, OpenTmp, WriteTmp, SaveFails,
                      ReplaceFails, Return, Answer, gateVars
  <2>3. opened' \subseteq opened /\ staged' = staged /\ landed' = landed /\ crashes' = crashes
    BY <1>8 DEF Derive, Derived, Refused, Save, Stamp, OpenTmp, WriteTmp, SaveFails,
                ReplaceFails, Answer, gateVars
  <2> QED
    BY <1>5, <2>1, <2>2, <2>3
<1>9. ASSUME NEW w \in Writers, Derive(w) \/ Save(w) \/ SaveFails(w) PROVE pc[w] # "idle"
  BY <1>9 DEF Derive, Save, Stamp, OpenTmp, WriteTmp, SaveFails, ReplaceFails
<1>10. ASSUME NEW w \in Writers, Landed(w) PROVE CrashesOrphan'
  <2>1. /\ UNCHANGED <<staged, job, opened, crashes>>
        /\ landed' = landed \cup {job[w]}
        /\ pc' = [pc EXCEPT ![w] = "idle"] /\ pc[w] = "replace"
    BY <1>10 DEF Landed, Replace, Return
  <2>2. Finishing(w)' /\ job'[w] = job[w] /\ ~Finishing(w)
    BY <1>0, <2>1 DEF Finishing, ServerTyped
  <2>3. \A v \in Writers : Stays(v)
    BY <1>0, <2>1, <2>2 DEF Stays, Finishing
  <2>4. Orphans' \subseteq Orphans
    BY <2>1, <2>2, <2>3 DEF Orphans, Stays
  <2> QED
    BY <2>1, <2>4, FewerOrphans
<1>11. ASSUME NEW w \in Writers, Remove(w) PROVE CrashesOrphan'
  <2>1. /\ staged' = staged \ {job[w]} /\ landed' = landed /\ crashes' = crashes
        /\ UNCHANGED <<pc, opened>> /\ \A v \in Writers \ {w} : job'[v] = job[v]
    BY <1>0, <1>11 DEF Remove, vars
  <2>2. \A v \in Writers \ {w} : Stays(v)
    BY <2>1 DEF Stays, Finishing
  <2>3. Orphans' \subseteq Orphans
    <3> SUFFICES ASSUME NEW q \in Orphans' PROVE q \in Orphans
      OBVIOUS
    <3>1. q \in staged /\ q \in landed /\ q # job[w]
      BY <2>1 DEF Orphans
    <3>2. \A v \in Writers : Finishing(v) => job[v] # q
      BY <2>2, <3>1 DEF Stays, Orphans
    <3> QED
      BY <3>1, <3>2 DEF Orphans
  <2> QED
    BY <2>1, <2>3, FewerOrphans
<1>12. ASSUME NEW w \in Writers, ServerCrash(w) PROVE CrashesOrphan'
  <2>1. /\ staged' = staged /\ landed' = landed /\ crashes' = crashes + 1
        /\ \A v \in Writers \ {w} : pc'[v] = pc[v] /\ job'[v] = job[v]
        /\ opened' \subseteq opened
    BY <1>0, <1>12 DEF ServerCrash, Return, Answer
  <2>2. \A v \in Writers \ {w} : Stays(v)
    BY <2>1 DEF Stays, Finishing
  <2>3. Orphans' \subseteq Orphans \cup {job[w]}
    BY <2>1, <2>2 DEF Orphans, Stays
  <2> QED
    BY <2>1, <2>3, OneMoreOrphan
<1>13. CASE UNCHANGED allVars
  BY <1>1, <1>13 DEF allVars, vars, gateVars, Stays, Finishing
<1> QED
  BY <1>2, <1>3, <1>4, <1>6, <1>7, <1>8, <1>9, <1>10, <1>11, <1>12, <1>13, GateSteps

LEMMA BoundedRelisting ==
    ASSUME GateTyped, CrashesOrphan
    PROVE  RelistedByCrashOnly
<1>1. Relisted \subseteq Orphans
  BY DEF Relisted, Orphans
<1>2. IsFiniteSet(Relisted) /\ Cardinality(Relisted) <= Cardinality(Orphans)
  BY <1>1, FS_Subset DEF CrashesOrphan
<1>3. Cardinality(Relisted) \in Nat /\ Cardinality(Orphans) \in Nat /\ crashes \in Nat
  BY <1>2, FS_CardinalityType DEF CrashesOrphan, GateTyped
<1> QED
  BY <1>2, <1>3 DEF CrashesOrphan, RelistedByCrashOnly
-----------------------------------------------------------------------------
\* At the moment of the replace the server holds what was approved.
LEMMA LandsItsProposal ==
    ASSUME GateTyped, SerialGate, NEW w \in Writers, Landed(w)
    PROVE  /\ job[w] \in staged
           /\ job[w].kind # "actions" =>
                 live = job[w].base /\ live'.arr = Restructured(job[w].base.arr, job[w])
<1>1. InHand(w) /\ ServerTyped(w) /\ pc[w] = "replace" /\ live' = tmp
  BY DEF GateTyped, SerialGate, Landed, Replace
<1>2. job[w] \in staged /\ tmp = out[w]
  BY <1>1 DEF InHand, ServerTyped, Finishing
<1>3. job[w].kind # "actions" =>
         live = job[w].base /\ out[w].arr = Restructured(live.arr, job[w])
  BY <1>1 DEF InHand
<1> QED
  BY <1>1, <1>2, <1>3

\* No other step touches the live file.
LEMMA OnlyLandingMoves ==
    ASSUME GateTyped, SerialGate, [MCPNext]_allVars, live' # live
    PROVE  \E w \in Writers : Landed(w) /\ job[w] \in staged
<1>1. ~Staging /\ ~UNCHANGED allVars
  BY DEF Staging, Stage, allVars, vars
<1>2. ASSUME NEW w \in Writers, NEW p \in staged, Discard(w, p) \/ OpenProposal(w, p)
      PROVE  FALSE
  BY <1>2 DEF Discard, OpenProposal, vars
<1>3. ASSUME NEW w \in Writers, CommitActions(w) \/ CheckBase(w) \/ Remove(w) PROVE FALSE
  BY <1>3 DEF CommitActions, Load, CheckBase, Deriving, Remove, vars
<1>4. ASSUME NEW w \in Writers, Derive(w) \/ SaveFails(w) \/ ServerCrash(w) PROVE FALSE
  BY <1>4 DEF Derive, Derived, Refused, SaveFails, ReplaceFails, ServerCrash
<1>5. ASSUME NEW w \in Writers, Save(w) PROVE FALSE
  <2>1. ASSUME WriteTmp(w) PROVE FALSE
    <3>1. fd[w] = "tmp"
      BY <2>1 DEF WriteTmp, GateTyped, ServerTyped, SerialGate, InHand
    <3> QED
      BY <2>1, <3>1 DEF WriteTmp
  <2> QED
    BY <1>5, <2>1 DEF Save, Stamp, OpenTmp
<1> QED
  BY <1>1, <1>2, <1>3, <1>4, <1>5, LandsItsProposal, GateSteps

(* With one server process the live file changes only when a proposal that *)
(* is staged lands, a fold or an unfold lands on the graph it was proposed *)
(* on with the effect that was approved, and a landed proposal is listed   *)
(* again only if its server died in between.                               *)
THEOREM SerialGateLandsAsApproved ==
    ASSUME Serialized
    PROVE  MCPSpec => LandsAsApproved
<1> DEFINE Inv == GateTyped /\ SerialGate /\ CrashesOrphan
<1>1. MCPInit => Inv
  BY GateTypeInit, SerialGateInit, CrashesOrphanInit
<1>2. Inv /\ [MCPNext]_allVars => Inv'
  BY GateTypeNext, SerialGateNext, CrashesOrphanNext
<1>3. Inv => RelistedByCrashOnly
  BY BoundedRelisting
<1>4. Inv /\ [MCPNext]_allVars =>
         [live' # live => \E w \in Writers : Landed(w) /\ job[w] \in staged]_allVars
  BY OnlyLandingMoves
<1>5. Inv => \A w \in Writers : Landed(w) /\ job[w].kind # "actions" =>
                /\ live = job[w].base
                /\ live'.arr = Restructured(job[w].base.arr, job[w])
  BY LandsItsProposal
<1> HIDE DEF Inv
<1> QED
  BY <1>1, <1>2, <1>3, <1>4, <1>5, PTL
  DEF MCPSpec, LandsAsApproved, OnlyApprovedLands, StructuralOnItsBase
=============================================================================
